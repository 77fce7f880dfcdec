--------------------------- MODULE DatabaseProofs ---------------------------
(***************************************************************************)
(* Proofs about Database, for any number of handles, any keys and values,  *)
(* any bounds: the file stays well formed and no write lands on a record   *)
(* it does not belong to.  The argument: an append is done under the mutex *)
(* at the end of the file, so records only accumulate (RecordsKept); what  *)
(* was once a sound copy of a branch therefore stays one (SoundKept,       *)
(* HandleKept), however stale, and writing it back keeps the file sound.   *)
(***************************************************************************)
EXTENDS Database, TLAPS

\* RecordsKept, of two states of the file.
Kept(br, bl, br2, bl2) ==
  /\ \A i \in DOMAIN br : i \in DOMAIN br2 /\ br2[i].parent = br[i].parent
  /\ \A i \in DOMAIN bl :
       /\ i \in DOMAIN bl2
       /\ bl2[i].size = bl[i].size
       /\ bl[i].body # NoValue => bl2[i].body # NoValue

\* A sound copy of a branch stays sound, however stale, while the file grows.
LEMMA SoundKept ==
  ASSUME NEW br, NEW bl, NEW br2, NEW bl2, NEW n, NEW b,
         Kept(br, bl, br2, bl2), SoundAt(br, bl, n, b)
  PROVE  SoundAt(br2, bl2, n, b)
  BY DEF Kept, SoundAt, ChildOf

\* The same of a copy of a branch, whose parent does not change either.
LEMMA CopyKept ==
  ASSUME NEW br, NEW bl, NEW br2, NEW bl2, NEW n, NEW b,
         Kept(br, bl, br2, bl2), CopyOf(br, bl, n, b), n \in DOMAIN br
  PROVE  CopyOf(br2, bl2, n, b)
  BY SoundKept DEF Kept, CopyOf

\* A handle that takes no part in a step keeps what it has in hand, if the mutex
\* it holds stays its own and the end of the file where it was.
LEMMA HandleKept ==
  ASSUME NEW br, NEW bl, NEW sz, NEW mx, NEW br2, NEW bl2, NEW sz2, NEW mx2,
         NEW p, NEW r \in Handle,
         Kept(br, bl, br2, bl2),
         \A n \in DOMAIN br : br[n].parent \in DOMAIN br,
         HandleOK(br, bl, sz, mx, p, r),
         r.pc \in Holding => mx2 = p /\ sz2 = sz
  PROVE  HandleOK(br2, bl2, sz2, mx2, p, r)
<1>1. r.todo \in Seq(Nat)
  BY DEF Handle
<1>2. r.pc \in Deleting => Head(r.todo) \in DOMAIN br
  BY <1>1 DEF HandleOK, Deleting
<1>3. r.pc \in {"wiping", "parent", "unlink"} =>
        /\ CopyOf(br2, bl2, Head(r.todo), r.spare)
        /\ r.spare.parent \in DOMAIN br
  BY <1>2, CopyKept DEF HandleOK, CopyOf, Deleting
<1>4. r.pc = "unlink" => CopyOf(br2, bl2, r.spare.parent, r.copy)
  BY <1>3, CopyKept DEF HandleOK
<1>5. r.pc \in Copying \/ (r.pc \in {"wipe", "wiping"} /\ r.op = "put") =>
        CopyOf(br2, bl2, r.cursor, r.copy)
  BY CopyKept DEF HandleOK, Copying
<1>6. r.pc = "rewrite" => /\ r.copy.data # 0
                          /\ bl2[r.copy.data].size = SizeOf[r.val]
  BY DEF HandleOK, Copying, CopyOf, SoundAt, Kept
<1>7. r.pc = "link" => /\ ChildOf(br2, r.cursor, r.fresh)
                       /\ r.fresh \notin {r.copy.left, r.copy.right}
  BY DEF HandleOK, ChildOf, Kept
<1>8. /\ r.pc = "payload" => r.fresh \in DOMAIN bl2
      /\ r.pc = "store" => r.fresh \in DOMAIN bl2 /\ bl2[r.fresh].body # NoValue
  BY DEF HandleOK, Kept
<1>9. /\ r.pc \in {"closed", "create", "idle"} => r.pos = 0
      /\ r.pc \notin {"closed", "create"} => 0 \in DOMAIN br2 /\ r.cursor \in DOMAIN br2
      /\ \A i \in 1 .. Len(r.todo) : r.todo[i] \in DOMAIN br2
      /\ r.pc \in {"trace", "prune"} => r.op = "remove" /\ r.fork \in DOMAIN br2
  BY DEF HandleOK, Kept
<1>10. /\ r.pc \in Holding => mx2 = p
       /\ r.pc \in {"append", "header"} => r.fresh = sz2
  BY DEF HandleOK, Holding
<1> QED
  BY <1>3, <1>4, <1>5, <1>6, <1>7, <1>8, <1>9, <1>10 DEF HandleOK

-----------------------------------------------------------------------------
(* One step of one handle: what it must show of its own new state r and of *)
(* the file for Inv to hold again.                                         *)

\* What a step has to show of the file and of its handle, in one place.
LEMMA StepKeepsInv ==
  ASSUME Inv, NEW p \in Proc, NEW r \in Handle,
         h' = [h EXCEPT ![p] = r],
         TypeOK', WellFormed', RecordsKept,
         size' > 0 => 0 \in DOMAIN branch',
         \A n \in DOMAIN branch' : branch'[n].parent \in DOMAIN branch',
         HandleOK(branch', blob', size', mutex', p, r),
         \A q \in Proc \ {p} : h[q].pc \in Holding => mutex' = q /\ size' = size
  PROVE  Inv'
<1>1. Kept(branch, blob, branch', blob')
  BY DEF RecordsKept, Kept
<1>2. ASSUME NEW q \in Proc
      PROVE  HandleOK(branch', blob', size', mutex', q, h'[q])
  <2>1. CASE q = p
    BY <2>1 DEF Inv, TypeOK
  <2>2. CASE q # p
    <3>1. h[q] \in Handle /\ h'[q] = h[q]
      BY <2>2 DEF Inv, TypeOK
    <3> QED
      BY <1>1, <2>2, <3>1, HandleKept DEF Inv
  <2> QED
    BY <2>1, <2>2
<1> QED
  BY <1>2 DEF Inv

\* A step that writes nothing and leaves the mutex.
LEMMA ReadKeepsInv ==
  ASSUME Inv, NEW p \in Proc, NEW r \in Handle,
         h' = [h EXCEPT ![p] = r],
         UNCHANGED <<branch, blob, size, mutex, crashes>>,
         HandleOK(branch, blob, size, mutex, p, r)
  PROVE  Inv' /\ RecordsKept
<1>1. TypeOK'
  BY DEF Inv, TypeOK
<1>2. WellFormed' /\ RecordsKept
  BY DEF Inv, WellFormed, RecordsKept
<1>3. \A q \in Proc \ {p} : h[q].pc \in Holding => mutex' = q /\ size' = size
  BY DEF Inv, HandleOK
<1> QED
  BY <1>1, <1>2, <1>3, StepKeepsInv DEF Inv

\* A step that writes the sound branch b, a copy of branch n, back.
LEMMA WriteBackKeepsInv ==
  ASSUME Inv, NEW p \in Proc, NEW r \in Handle, NEW n \in DOMAIN branch,
         NEW b \in Branch,
         h' = [h EXCEPT ![p] = r],
         branch' = [branch EXCEPT ![n] = b],
         UNCHANGED <<blob, size, crashes>>,
         CopyOf(branch, blob, n, b),
         mutex' \in {mutex, NoProc}, mutex' # mutex => mutex = p,
         Kept(branch, blob, branch', blob') =>
           HandleOK(branch', blob', size', mutex', p, r)
  PROVE  Inv' /\ RecordsKept
<1>1. TypeOK'
  <2>1. DOMAIN branch' = DOMAIN branch /\ branch' \in [DOMAIN branch' -> Branch]
    BY DEF Inv, TypeOK
  <2>2. h' \in [Proc -> Handle] /\ mutex' \in Proc \cup {NoProc}
    BY DEF Inv, TypeOK
  <2> QED
    BY <2>1, <2>2 DEF Inv, TypeOK
<1>2. RecordsKept
  BY DEF Inv, TypeOK, RecordsKept, CopyOf
<1>3. Kept(branch, blob, branch', blob')
  BY <1>2 DEF RecordsKept, Kept
<1>4. WellFormed'
  <2>1. ASSUME NEW m \in DOMAIN branch' PROVE SoundAt(branch', blob', m, branch'[m])
    <3>1. m \in DOMAIN branch
      BY DEF Inv, TypeOK
    <3>2. SoundAt(branch, blob, m, branch'[m])
      BY <3>1 DEF Inv, TypeOK, WellFormed, CopyOf
    <3> QED
      BY <1>3, <3>2, SoundKept
  <2> QED
    BY <2>1 DEF Inv, TypeOK, WellFormed
<1>5. \A m \in DOMAIN branch' : branch'[m].parent \in DOMAIN branch'
  BY DEF Inv, TypeOK, CopyOf
<1>6. \A q \in Proc \ {p} : h[q].pc \in Holding => mutex' = q /\ size' = size
  BY DEF Inv, HandleOK
<1>7. size' > 0 => 0 \in DOMAIN branch'
  BY DEF Inv, TypeOK
<1> QED
  BY <1>1, <1>2, <1>3, <1>4, <1>5, <1>6, <1>7, StepKeepsInv

-----------------------------------------------------------------------------
(* The operators on branches and handles. *)

\* The places a handle can be at.
LEMMA PCs ==
  /\ "closed" \in PC /\ "create" \in PC /\ "idle" \in PC /\ "walk" \in PC
  /\ "claim" \in PC /\ "append" \in PC /\ "link" \in PC /\ "load" \in PC
  /\ "wipe" \in PC /\ "wiping" \in PC /\ "allocate" \in PC /\ "header" \in PC
  /\ "payload" \in PC /\ "store" \in PC /\ "rewrite" \in PC /\ "seek" \in PC
  /\ "fetch" \in PC /\ "read" \in PC /\ "clear" \in PC /\ "trace" \in PC
  /\ "prune" \in PC /\ "detach" \in PC /\ "parent" \in PC /\ "unlink" \in PC
  BY DEF PC

\* The operators on branches give branches, and links are numbers.
LEMMA BranchTypes ==
  ASSUME NEW b \in Branch, NEW i \in Nat, NEW bit
  PROVE  /\ NewBranch(i) \in Branch
         /\ WithLink(b, bit, i) \in Branch
         /\ WithoutLink(b, i) \in Branch
         /\ Link(b, bit) \in Nat
         /\ Children(b) \in Seq(Nat)
<1>1. NewBranch(i) \in Branch /\ WithLink(b, bit, i) \in Branch /\ Link(b, bit) \in Nat
  BY DEF NewBranch, WithLink, Link, Branch
<1>2. WithoutLink(b, i) \in Branch
  BY DEF WithoutLink, Branch
<1>3. Children(b) \in Seq(Nat)
  BY DEF Children, Branch
<1> QED
  BY <1>1, <1>2, <1>3

\* Children lists the links that lead somewhere.
LEMMA ChildrenAreLinks ==
  ASSUME NEW b \in Branch, NEW i \in 1 .. Len(Children(b))
  PROVE  Children(b)[i] \in {b.left, b.right} \ {0}
  BY DEF Children, Branch

\* A handle that is closed or idle has nothing to answer for.
LEMMA IdleOK ==
  ASSUME NEW r \in Handle, NEW br, NEW bl, NEW sz, NEW mx, NEW p
  PROVE  /\ Closed(r.left) \in Handle
         /\ HandleOK(br, bl, sz, mx, p, Closed(r.left))
         /\ Idle(r) \in Handle
         /\ 0 \in DOMAIN br => HandleOK(br, bl, sz, mx, p, Idle(r))
<1>1. Closed(r.left) \in Handle
  BY DEF Closed, Handle, PC, AllOps, NewBranch, Branch
<1>2. Idle(r) \in Handle
  BY <1>1 DEF Idle, Handle, PC
<1>3. HandleOK(br, bl, sz, mx, p, Closed(r.left))
  BY DEF HandleOK, Closed, Holding, Copying, Deleting
<1>4. 0 \in DOMAIN br => HandleOK(br, bl, sz, mx, p, Idle(r))
  BY DEF HandleOK, Idle, Closed, Holding, Copying, Deleting
<1> QED
  BY <1>1, <1>2, <1>3, <1>4

\* A handle that goes on to a branch of the file stands on one.
LEMMA MovedOK ==
  ASSUME NEW br, NEW bl, NEW sz, NEW mx, NEW p, NEW r \in Handle, NEW i \in Nat,
         r.pc \in {"walk", "seek"}, r.pos < Len(r.key),
         i \in DOMAIN br, 0 \in DOMAIN br,
         r.op = "put" => r.val \in Value,
         \A j \in 1 .. Len(r.todo) : r.todo[j] \in DOMAIN br
  PROVE  Moved(r, i) \in Handle /\ HandleOK(br, bl, sz, mx, p, Moved(r, i))
<1> DEFINE moved == [r EXCEPT !.cursor = i, !.pos = @ + 1]
           there == [r EXCEPT !.cursor = i, !.pos = @ + 1, !.pc = AtKey(r.op)]
<1>0. r.pos + 1 \in Nat
  BY DEF Handle
<1>1. CASE r.pos + 1 < Len(r.key)
  <2>1. Moved(r, i) = moved
    BY <1>1 DEF Moved
  <2>2. moved \in Handle
    BY <1>0 DEF Handle
  <2>3. moved.pc = r.pc /\ moved.op = r.op /\ moved.val = r.val /\ moved.key = r.key
        /\ moved.todo = r.todo /\ moved.cursor = i /\ moved.pos = r.pos + 1
    BY DEF Handle
  <2>4. HandleOK(br, bl, sz, mx, p, moved)
    BY <1>1, <2>3 DEF HandleOK, Holding, Copying, Deleting
  <2> QED
    BY <2>1, <2>2, <2>4
<1>2. CASE ~(r.pos + 1 < Len(r.key)) /\ r.op = "insert"
  BY <1>2, IdleOK DEF Moved
<1>3. CASE ~(r.pos + 1 < Len(r.key)) /\ r.op = "remove"
  <2> DEFINE again == [Idle(r) EXCEPT !.pc = "trace", !.op = r.op, !.key = r.key]
  <2>1. Moved(r, i) = again
    BY <1>3 DEF Moved
  <2>2. Idle(r) \in Handle
    BY IdleOK
  <2>3. again \in Handle
    BY <2>2, PCs DEF Handle
  <2>4. Idle(r).pos = 0 /\ Idle(r).cursor = 0 /\ Idle(r).fork = 0 /\ Idle(r).todo = <<>>
        /\ Idle(r).val = NoValue
    BY DEF Idle, Closed
  <2>5. again.pc = "trace" /\ again.op = "remove" /\ again.key = r.key /\ again.pos = 0
        /\ again.cursor = 0 /\ again.fork = 0 /\ again.todo = <<>>
    BY <1>3, <2>2, <2>4 DEF Handle
  <2>6. 0 < Len(r.key)
    BY DEF Handle
  <2>7. HandleOK(br, bl, sz, mx, p, again)
    BY <2>5, <2>6 DEF HandleOK, Holding, Copying, Deleting
  <2> QED
    BY <2>1, <2>3, <2>7
<1>4. CASE ~(r.pos + 1 < Len(r.key)) /\ r.op \notin {"insert", "remove"}
  <2>1. Moved(r, i) = there
    BY <1>4 DEF Moved
  <2>2. AtKey(r.op) \in {"load", "clear", "fetch"} /\ (AtKey(r.op) = "load" => r.op = "put")
        /\ (AtKey(r.op) = "clear" => r.op # "put")
    BY <1>4 DEF AtKey, Handle, AllOps
  <2>3. there \in Handle
    BY <1>0, <2>2, PCs DEF Handle
  <2>4. there.pc = AtKey(r.op) /\ there.op = r.op /\ there.val = r.val
        /\ there.todo = r.todo /\ there.cursor = i
    BY DEF Handle
  <2>5. HandleOK(br, bl, sz, mx, p, there)
    BY <2>2, <2>4 DEF HandleOK, Holding, Copying, Deleting
  <2> QED
    BY <2>1, <2>3, <2>5
<1> QED
  BY <1>1, <1>2, <1>3, <1>4

\* A handle whose branch is wiped goes on with what it still has in hand.
LEMMA WipedOK ==
  ASSUME NEW br, NEW bl, NEW sz, NEW mx, NEW p, NEW r \in Handle,
         r.pc \in {"wipe", "wiping"},
         r.todo # <<>>,
         0 \in DOMAIN br, r.cursor \in DOMAIN br,
         r.op = "put" => r.val \in Value /\ CopyOf(br, bl, r.cursor, r.copy),
         \A j \in 1 .. Len(r.todo) : r.todo[j] \in DOMAIN br
  PROVE  Wiped(r) \in Handle /\ HandleOK(br, bl, sz, mx, p, Wiped(r))
<1>0. r.todo \in Seq(Nat) /\ Len(r.todo) \in Nat \ {0} /\ Tail(r.todo) \in Seq(Nat)
      /\ \A j \in 1 .. Len(Tail(r.todo)) : Tail(r.todo)[j] \in DOMAIN br
  BY DEF Handle
<1>1. CASE r.op = "put"
  <2> DEFINE s == [r EXCEPT !.pc = "allocate", !.todo = <<>>]
  <2>1. Wiped(r) = s
    BY <1>1 DEF Wiped
  <2>2. s \in Handle
    <3>1. <<>> \in Seq(Nat)
      OBVIOUS
    <3> QED
      BY <3>1 DEF Handle, PC
  <2>3. s.pc = "allocate" /\ s.op = "put" /\ s.val = r.val /\ s.todo = <<>>
        /\ s.cursor = r.cursor /\ s.copy = r.copy
    BY <1>1 DEF Handle
  <2>4. HandleOK(br, bl, sz, mx, p, s)
    BY <1>1, <2>3 DEF HandleOK, Holding, Copying, Deleting
  <2> QED
    BY <2>1, <2>2, <2>4
<1>2. CASE r.op # "put" /\ (r.op = "remove" \/ Head(r.todo) # r.cursor)
  <2> DEFINE s == [r EXCEPT !.pc = "detach"]
  <2>1. Wiped(r) = s
    BY <1>2 DEF Wiped
  <2>2. s \in Handle
    BY PCs DEF Handle
  <2>3. s.pc = "detach" /\ s.op = r.op /\ s.todo = r.todo /\ s.cursor = r.cursor
    BY DEF Handle
  <2>4. HandleOK(br, bl, sz, mx, p, s)
    BY <1>2, <2>3 DEF HandleOK, Holding, Copying, Deleting
  <2> QED
    BY <2>1, <2>2, <2>4
<1>3. CASE r.op \notin {"put", "remove"} /\ Head(r.todo) = r.cursor /\ Tail(r.todo) = <<>>
  BY <1>3, IdleOK DEF Wiped
<1>4. CASE r.op \notin {"put", "remove"} /\ Head(r.todo) = r.cursor /\ Tail(r.todo) # <<>>
  <2> DEFINE s == [r EXCEPT !.pc = "wipe", !.todo = Tail(@)]
  <2>1. Wiped(r) = s
    BY <1>4 DEF Wiped
  <2>2. s \in Handle
    BY <1>0, PCs DEF Handle
  <2>3. s.pc = "wipe" /\ s.op = r.op /\ s.todo = Tail(r.todo) /\ s.cursor = r.cursor
    BY DEF Handle
  <2>4. HandleOK(br, bl, sz, mx, p, s)
    BY <1>0, <1>4, <2>3 DEF HandleOK, Holding, Copying, Deleting
  <2> QED
    BY <2>1, <2>2, <2>4
<1> QED
  BY <1>1, <1>2, <1>3, <1>4

-----------------------------------------------------------------------------
(* The actions.  First the facts about the acting handle every case uses.  *)

\* What Inv says of the handle that takes the step.
LEMMA Acting ==
  ASSUME Inv, NEW p \in Proc
  PROVE  /\ h[p] \in Handle
         /\ HandleOK(branch, blob, size, mutex, p, h[p])
         /\ h[p].todo \in Seq(Nat)
         /\ branch \in [DOMAIN branch -> Branch]
         /\ DOMAIN branch \subseteq Nat
  BY DEF Inv, TypeOK, Handle

\* Open reads the size only.
LEMMA OpenStep ==
  ASSUME Inv, NEW p \in Proc, Open(p)
  PROVE  Inv' /\ RecordsKept
<1> DEFINE r == IF size = 0 THEN [h[p] EXCEPT !.pc = "create"] ELSE Idle(h[p])
<1>1. size # 0 => 0 \in DOMAIN branch
  BY DEF Inv, TypeOK
<1>2. CASE size = 0
  <2> DEFINE c == [h[p] EXCEPT !.pc = "create"]
  <2>1. c \in Handle
    BY Acting, PCs DEF Handle
  <2>2. c.pc = "create" /\ c.op = h[p].op /\ c.val = h[p].val /\ c.todo = h[p].todo
        /\ c.pos = h[p].pos
    BY Acting DEF Handle
  <2>3. HandleOK(branch, blob, size, mutex, p, c)
    BY <2>2, Acting DEF HandleOK, Holding, Copying, Deleting, Open
  <2> QED
    BY <1>2, <2>1, <2>3, ReadKeepsInv DEF Open, Become
<1>3. CASE size # 0
  <2>1. Idle(h[p]) \in Handle /\ HandleOK(branch, blob, size, mutex, p, Idle(h[p]))
    BY <1>1, <1>3, Acting, IdleOK
  <2> QED
    BY <1>3, <2>1, ReadKeepsInv DEF Open, Become
<1> QED
  BY <1>2, <1>3

\* The only write at index 0 finds the file empty.
LEMMA CreateStep ==
  ASSUME Inv, NEW p \in Proc, Create(p)
  PROVE  Inv' /\ RecordsKept
<1>1. CASE size # 0
  <2>1. 0 \in DOMAIN branch
    BY <1>1 DEF Inv, TypeOK
  <2>2. Idle(h[p]) \in Handle /\ HandleOK(branch, blob, size, mutex, p, Idle(h[p]))
    BY <2>1, Acting, IdleOK
  <2> QED
    BY <1>1, <2>2, ReadKeepsInv DEF Create, Become
<1>2. CASE size = 0
  <2>1. DOMAIN branch = {} /\ DOMAIN blob = {}
    <3>1. DOMAIN branch \cup DOMAIN blob = 0 .. (size - 1)
      BY DEF Inv, WellFormed
    <3>2. 0 .. (size - 1) = {}
      BY <1>2
    <3> QED
      BY <3>1, <3>2, Zenon
  <2>2. /\ branch' = [j \in {0} |-> NewBranch(0)]
        /\ size' = 1
        /\ UNCHANGED <<blob, mutex, crashes>>
        /\ h' = [h EXCEPT ![p] = Idle(h[p])]
    BY <1>2, <2>1 DEF Create, Become, Written, SizeAfter
  <2>3. Idle(h[p]) \in Handle
        /\ HandleOK(branch', blob', size', mutex', p, Idle(h[p]))
    BY <2>2, Acting, IdleOK
  <2>4. TypeOK'
    <3>1. NewBranch(0) \in Branch
      BY BranchTypes DEF NewBranch, Branch
    <3>2. DOMAIN branch' = {0} /\ branch' \in [DOMAIN branch' -> Branch]
      BY <2>2, <3>1
    <3>3. h' \in [Proc -> Handle]
      BY <2>2, <2>3 DEF Inv, TypeOK
    <3> QED
      BY <2>2, <3>2, <3>3 DEF Inv, TypeOK
  <2>5. WellFormed'
    <3>1. DOMAIN branch' = {0} /\ DOMAIN blob' = {} /\ 0 .. (size' - 1) = {0}
      BY <2>1, <2>2
    <3>2. SoundAt(branch', blob', 0, branch'[0])
      BY <2>2 DEF SoundAt, NewBranch
    <3> QED
      BY <3>1, <3>2 DEF WellFormed
  <2>6. RecordsKept
    BY <2>1 DEF RecordsKept
  <2>7. \A n \in DOMAIN branch' : branch'[n].parent \in DOMAIN branch'
    BY <2>2 DEF NewBranch
  <2>8. \A q \in Proc \ {p} : h[q].pc \notin Holding
    BY <2>1 DEF Inv, HandleOK, Holding
  <2>9. size' > 0 => 0 \in DOMAIN branch'
    BY <2>2
  <2> QED
    BY <2>2, <2>3, <2>4, <2>5, <2>6, <2>7, <2>8, <2>9, StepKeepsInv
<1> QED
  BY <1>1, <1>2

\* A handle given an operation, its key and its value is a handle.
LEMMA StartTyped ==
  ASSUME NEW x \in Handle, NEW c \in PC, NEW o \in AllOps, NEW k \in Seq({0, 1}),
         NEW v \in Value \cup {NoValue}, x.left - 1 \in Nat
  PROVE  [x EXCEPT !.pc = c, !.op = o, !.key = k, !.val = v, !.left = @ - 1] \in Handle
BY DEF Handle

\* Start takes no branch and no copy in hand.
LEMMA StartStep ==
  ASSUME Inv, NEW p \in Proc, Start(p)
  PROVE  Inv' /\ RecordsKept
<1>1. PICK o \in Ops, k \in Key, v \in Value \cup {NoValue} :
        /\ (o = "put") <=> (v # NoValue)
        /\ h' = [h EXCEPT ![p] =
                   [h[p] EXCEPT !.pc = IF o \in {"get", "remove"} THEN "seek" ELSE "walk",
                                !.op = o, !.key = k, !.val = v,
                                !.left = @ - 1]]
  BY DEF Start, Become
<1> DEFINE r == [h[p] EXCEPT !.pc = IF o \in {"get", "remove"} THEN "seek" ELSE "walk",
                             !.op = o, !.key = k, !.val = v, !.left = @ - 1]
<1>2. h[p].left - 1 \in Nat /\ k \in Seq({0, 1}) /\ o \in AllOps
  BY Acting, KeyAssumption, BoundAssumption DEF Start, Handle
<1>3. r \in Handle
  <2> DEFINE c == IF o \in {"get", "remove"} THEN "seek" ELSE "walk"
  <2>1. c \in PC
    BY PCs
  <2>2. h[p] \in Handle
    BY Acting
  <2> HIDE DEF c
  <2>3. [h[p] EXCEPT !.pc = c, !.op = o, !.key = k, !.val = v, !.left = @ - 1] \in Handle
    BY <1>2, <2>1, <2>2, StartTyped
  <2> QED
    BY <2>3 DEF c
<1>4. /\ r.pc \in {"seek", "walk"} /\ r.op = o /\ r.key = k /\ r.val = v
      /\ r.pos = h[p].pos /\ r.todo = h[p].todo /\ r.cursor = h[p].cursor
  BY Acting DEF Handle
<1>5. h[p].pos < Len(k)
  <2>1. h[p].pos = 0
    BY Acting DEF HandleOK, Start
  <2>2. k \in Seq({0, 1}) /\ k # <<>>
    BY KeyAssumption
  <2> QED
    BY <2>1, <2>2
<1>6. HandleOK(branch, blob, size, mutex, p, r)
  BY <1>1, <1>4, <1>5, Acting DEF HandleOK, Holding, Copying, Deleting, Start
<1> QED
  BY <1>1, <1>3, <1>6, ReadKeepsInv DEF Start

-----------------------------------------------------------------------------
(* goLeft / goRight. *)

\* A link of a branch of the file leads to a branch of the file.
LEMMA LinkOK ==
  ASSUME Inv, NEW n \in DOMAIN branch, NEW bit
  PROVE  /\ branch[n] \in Branch
         /\ Link(branch[n], bit) \in Nat
         /\ Link(branch[n], bit) # 0 => Link(branch[n], bit) \in DOMAIN branch
<1>1. branch[n] \in Branch /\ SoundAt(branch, blob, n, branch[n])
  BY DEF Inv, TypeOK, WellFormed
<1> QED
  BY <1>1, BranchTypes DEF Link, SoundAt, ChildOf

\* Go follows a link, which leads to a branch.
LEMMA GoStep ==
  ASSUME Inv, NEW p \in Proc, Go(p)
  PROVE  Inv' /\ RecordsKept
<1> DEFINE i == Link(branch[h[p].cursor], NextBit(h[p]))
           c == [h[p] EXCEPT !.pc = "claim"]
<1>1. /\ 0 \in DOMAIN branch /\ h[p].cursor \in DOMAIN branch
      /\ h[p].pc = "walk" /\ h[p].pos < Len(h[p].key)
      /\ h[p].op = "put" => h[p].val \in Value
      /\ \A j \in 1 .. Len(h[p].todo) : h[p].todo[j] \in DOMAIN branch
  BY Acting DEF HandleOK, Go
<1>2. CASE i # 0
  <2>1. Moved(h[p], i) \in Handle /\ HandleOK(branch, blob, size, mutex, p, Moved(h[p], i))
    BY <1>1, <1>2, LinkOK, MovedOK, Acting
  <2> QED
    BY <1>2, <2>1, ReadKeepsInv DEF Go, Become
<1>3. CASE i = 0
  <2>1. c \in Handle
    BY Acting, PCs DEF Handle
  <2>2. c.pc = "claim" /\ c.op = h[p].op /\ c.val = h[p].val /\ c.todo = h[p].todo
        /\ c.pos = h[p].pos /\ c.key = h[p].key /\ c.cursor = h[p].cursor
    BY Acting DEF Handle
  <2>3. HandleOK(branch, blob, size, mutex, p, c)
    BY <1>1, <2>2 DEF HandleOK, Holding, Copying, Deleting
  <2> QED
    BY <1>3, <2>1, <2>3, ReadKeepsInv DEF Go, Become
<1> QED
  BY <1>2, <1>3

\* A step that takes the free mutex and writes nothing.
LEMMA LockKeepsInv ==
  ASSUME Inv, NEW p \in Proc, NEW r \in Handle,
         h' = [h EXCEPT ![p] = r], mutex = NoProc, mutex' = p,
         UNCHANGED <<branch, blob, size, crashes>>,
         HandleOK(branch, blob, size, p, p, r)
  PROVE  Inv' /\ RecordsKept
<1>1. TypeOK'
  BY DEF Inv, TypeOK
<1>2. WellFormed' /\ RecordsKept
  BY DEF Inv, WellFormed, RecordsKept
<1>3. \A q \in Proc \ {p} : h[q].pc \notin Holding
  BY ProcAssumption DEF Inv, HandleOK
<1> QED
  BY <1>1, <1>2, <1>3, StepKeepsInv DEF Inv

\* Claim reads the branch and the end of the file with the mutex in hand.
LEMMA ClaimStep ==
  ASSUME Inv, NEW p \in Proc, Claim(p)
  PROVE  Inv' /\ RecordsKept
<1> DEFINE n == h[p].cursor
           i == Link(branch[n], NextBit(h[p]))
           w == [h[p] EXCEPT !.pc = "walk"]
           c == [h[p] EXCEPT !.pc = "append", !.copy = branch[n], !.fresh = size]
<1>1. /\ 0 \in DOMAIN branch /\ n \in DOMAIN branch
      /\ h[p].pc = "claim" /\ h[p].pos < Len(h[p].key)
      /\ h[p].op = "put" => h[p].val \in Value
      /\ \A j \in 1 .. Len(h[p].todo) : h[p].todo[j] \in DOMAIN branch
  BY Acting DEF HandleOK, Claim
<1>2. CASE i # 0
  <2>1. w \in Handle
    BY Acting, PCs DEF Handle
  <2>2. w.pc = "walk" /\ w.op = h[p].op /\ w.val = h[p].val /\ w.todo = h[p].todo
        /\ w.pos = h[p].pos /\ w.key = h[p].key /\ w.cursor = n
    BY Acting DEF Handle
  <2>3. Moved(w, i) \in Handle /\ HandleOK(branch, blob, size, mutex, p, Moved(w, i))
    BY <1>1, <1>2, <2>1, <2>2, LinkOK, MovedOK
  <2> QED
    BY <1>2, <2>3, ReadKeepsInv DEF Claim, Become
<1>3. CASE i = 0
  <2>1. branch[n] \in Branch /\ CopyOf(branch, blob, n, branch[n]) /\ size \in Nat
    BY <1>1 DEF Inv, TypeOK, WellFormed, CopyOf
  <2>2. c \in Handle
    BY <2>1, Acting, PCs DEF Handle
  <2>3. c.pc = "append" /\ c.op = h[p].op /\ c.val = h[p].val /\ c.todo = h[p].todo
        /\ c.pos = h[p].pos /\ c.key = h[p].key /\ c.cursor = n /\ c.copy = branch[n]
        /\ c.fresh = size
    BY Acting DEF Handle
  <2>4. HandleOK(branch, blob, size, p, p, c)
    BY <1>1, <2>1, <2>3 DEF HandleOK, Holding, Copying, Deleting
  <2> QED
    BY <1>3, <2>2, <2>4, LockKeepsInv DEF Claim, Become
<1> QED
  BY <1>2, <1>3

\* The holder of the mutex is alone in appending, so its record goes behind
\* every other.
LEMMA GetNextIndexStep ==
  ASSUME Inv, NEW p \in Proc, GetNextIndex(p)
  PROVE  Inv' /\ RecordsKept
<1> DEFINE n == h[p].cursor
           r == [h[p] EXCEPT !.pc = "link"]
<1>1. /\ 0 \in DOMAIN branch /\ n \in DOMAIN branch
      /\ h[p].pc = "append" /\ h[p].pos < Len(h[p].key)
      /\ h[p].op = "put" => h[p].val \in Value
      /\ \A j \in 1 .. Len(h[p].todo) : h[p].todo[j] \in DOMAIN branch
      /\ mutex = p /\ h[p].fresh = size
      /\ CopyOf(branch, blob, n, h[p].copy)
  BY Acting DEF HandleOK, GetNextIndex, Holding, Copying
<1>2. /\ DOMAIN branch \cup DOMAIN blob = 0 .. (size - 1)
      /\ DOMAIN branch \cap DOMAIN blob = {}
      /\ size \in Nat /\ n \in Nat
  BY <1>1 DEF Inv, WellFormed, TypeOK
<1>3. n < size /\ size \notin DOMAIN branch /\ size \notin DOMAIN blob
  BY <1>1, <1>2
<1>4. /\ branch' = [j \in DOMAIN branch \cup {size} |->
                      IF j = size THEN NewBranch(n) ELSE branch[j]]
      /\ size' = size + 1
      /\ h' = [h EXCEPT ![p] = r]
      /\ UNCHANGED <<blob, mutex, crashes>>
  BY <1>1 DEF GetNextIndex, Written, SizeAfter, Become
<1>5. RecordsKept
  BY <1>3, <1>4 DEF RecordsKept
<1>6. Kept(branch, blob, branch', blob')
  BY <1>5 DEF RecordsKept, Kept
<1>7. r \in Handle
  BY Acting, PCs DEF Handle
<1>8. TypeOK'
  <2>1. NewBranch(n) \in Branch
    BY <1>2 DEF NewBranch, Branch
  <2>2. DOMAIN branch' = DOMAIN branch \cup {size}
    BY <1>4
  <2>3. branch' \in [DOMAIN branch' -> Branch]
    BY <1>4, <2>1, <2>2, Acting
  <2>4. size' \in Nat /\ DOMAIN branch' \subseteq Nat
    BY <1>2, <1>4, <2>2, Acting
  <2>5. h' \in [Proc -> Handle]
    BY <1>4, <1>7 DEF Inv, TypeOK
  <2> QED
    BY <1>4, <2>3, <2>4, <2>5 DEF Inv, TypeOK
<1>9. WellFormed'
  <2>1. DOMAIN branch' = DOMAIN branch \cup {size} /\ DOMAIN blob' = DOMAIN blob
    BY <1>4
  <2>2. 0 .. (size' - 1) = (0 .. (size - 1)) \cup {size}
    BY <1>2, <1>4
  <2>3. ASSUME NEW m \in DOMAIN branch' PROVE SoundAt(branch', blob', m, branch'[m])
    <3>1. CASE m = size
      BY <1>4, <3>1 DEF SoundAt, NewBranch
    <3>2. CASE m # size
      <4>1. m \in DOMAIN branch /\ branch'[m] = branch[m]
        BY <1>4, <2>1, <3>2
      <4> QED
        BY <1>6, <4>1, SoundKept DEF Inv, WellFormed
    <3> QED
      BY <3>1, <3>2
  <2>4. DOMAIN branch' \cup DOMAIN blob' = 0 .. (size' - 1)
    BY <1>2, <2>1, <2>2
  <2>5. DOMAIN branch' \cap DOMAIN blob' = {}
    BY <1>2, <1>3, <2>1
  <2> QED
    BY <2>3, <2>4, <2>5 DEF WellFormed
<1>10. r.pc = "link" /\ r.op = h[p].op /\ r.val = h[p].val /\ r.todo = h[p].todo
       /\ r.pos = h[p].pos /\ r.key = h[p].key /\ r.cursor = n /\ r.copy = h[p].copy
       /\ r.fresh = size
  BY <1>1, Acting DEF Handle
<1>11. size \notin {r.copy.left, r.copy.right}
  <2>1. size # 0
    BY <1>2, <1>3
  <2> QED
    BY <1>1, <1>3, <1>10, <2>1 DEF CopyOf, SoundAt, ChildOf
<1>12. ChildOf(branch', n, size)
  BY <1>3, <1>4 DEF ChildOf, NewBranch
<1>13. CopyOf(branch', blob', n, h[p].copy)
  BY <1>1, <1>6, CopyKept
<1>14. HandleOK(branch', blob', size', mutex', p, r)
  BY <1>1, <1>4, <1>10, <1>11, <1>12, <1>13 DEF HandleOK, Holding, Copying, Deleting
<1>15. \A m \in DOMAIN branch' : branch'[m].parent \in DOMAIN branch'
  BY <1>1, <1>4 DEF Inv, NewBranch
<1>16. \A q \in Proc \ {p} : h[q].pc \notin Holding
  BY <1>1 DEF Inv, HandleOK
<1>17. size' > 0 => 0 \in DOMAIN branch'
  BY <1>1, <1>4
<1> QED
  BY <1>4, <1>5, <1>7, <1>8, <1>9, <1>14, <1>15, <1>16, <1>17, StepKeepsInv

\* SetLink writes back a copy, with a link to the child the handle appended.
LEMMA SetLinkStep ==
  ASSUME Inv, NEW p \in Proc, SetLink(p)
  PROVE  Inv' /\ RecordsKept
<1> DEFINE n == h[p].cursor
           i == h[p].fresh
           b == WithLink(h[p].copy, NextBit(h[p]), i)
           w == [h[p] EXCEPT !.pc = "walk", !.copy = NewBranch(0), !.fresh = 0]
<1>1. /\ 0 \in DOMAIN branch /\ n \in DOMAIN branch
      /\ h[p].pc = "link" /\ h[p].pos < Len(h[p].key)
      /\ h[p].op = "put" => h[p].val \in Value
      /\ \A j \in 1 .. Len(h[p].todo) : h[p].todo[j] \in DOMAIN branch
      /\ mutex = p
      /\ CopyOf(branch, blob, n, h[p].copy)
      /\ ChildOf(branch, n, i) /\ i \notin {h[p].copy.left, h[p].copy.right}
  BY Acting DEF HandleOK, SetLink, Holding, Copying
<1>2. h[p].copy \in Branch /\ i \in Nat /\ i \in DOMAIN branch
  BY <1>1, Acting DEF Handle, ChildOf
<1>3. b \in Branch
  BY <1>2, BranchTypes
<1>4. CopyOf(branch, blob, n, b)
  BY <1>1, <1>2 DEF CopyOf, SoundAt, WithLink, Branch
<1>5. w \in Handle
  BY BranchTypes, Acting, PCs DEF Handle
<1>6. w.pc = "walk" /\ w.op = h[p].op /\ w.val = h[p].val /\ w.todo = h[p].todo
      /\ w.pos = h[p].pos /\ w.key = h[p].key /\ w.cursor = n
  BY Acting DEF Handle
<1>7. Moved(w, i) \in Handle
      /\ (Kept(branch, blob, branch', blob') =>
            HandleOK(branch', blob', size', mutex', p, Moved(w, i)))
  <2>1. Moved(w, i) \in Handle
    BY <1>1, <1>2, <1>5, <1>6, MovedOK
  <2>2. ASSUME Kept(branch, blob, branch', blob')
        PROVE  HandleOK(branch', blob', size', mutex', p, Moved(w, i))
    <3>1. /\ 0 \in DOMAIN branch' /\ i \in DOMAIN branch'
          /\ \A j \in 1 .. Len(w.todo) : w.todo[j] \in DOMAIN branch'
      BY <1>1, <1>2, <1>6, <2>2 DEF Kept
    <3> QED
      BY <1>1, <1>2, <1>5, <1>6, <3>1, MovedOK
  <2> QED
    BY <2>1, <2>2
<1> QED
  BY <1>1, <1>3, <1>4, <1>7, WriteBackKeepsInv DEF SetLink, Become

-----------------------------------------------------------------------------
(* setData. *)

\* Load copies the branch it stands on.
LEMMA LoadStep ==
  ASSUME Inv, NEW p \in Proc, Load(p)
  PROVE  Inv' /\ RecordsKept
<1> DEFINE n == h[p].cursor
           b == branch[n]
           r == [h[p] EXCEPT !.copy = b, !.locked = TRUE]
           x == [r EXCEPT !.pc = "allocate"]
           y == [r EXCEPT !.pc = "wipe", !.todo = <<r.cursor>>, !.copy.data = 0]
           z == [r EXCEPT !.pc = "rewrite"]
<1>1. /\ 0 \in DOMAIN branch /\ n \in DOMAIN branch
      /\ h[p].pc = "load" /\ h[p].op = "put" /\ h[p].val \in Value
      /\ \A j \in 1 .. Len(h[p].todo) : h[p].todo[j] \in DOMAIN branch
  BY Acting DEF HandleOK, Load
<1>2. b \in Branch /\ CopyOf(branch, blob, n, b) /\ n \in Nat
  BY <1>1, Acting DEF Inv, WellFormed, CopyOf
<1>3. /\ r \in Handle /\ r.cursor = n /\ r.copy = b /\ r.op = "put"
      /\ r.val = h[p].val /\ r.todo = h[p].todo
  BY <1>1, <1>2, Acting DEF Handle
<1>4. UNCHANGED <<branch, blob, size, mutex, crashes>>
  BY DEF Load
<1>5. CASE h' = [h EXCEPT ![p] = x]
  <2>1. x \in Handle
    BY <1>3, PCs DEF Handle
  <2>2. x.pc = "allocate" /\ x.op = "put" /\ x.val = r.val /\ x.todo = r.todo
        /\ x.cursor = n /\ x.copy = b
    BY <1>3 DEF Handle
  <2>3. HandleOK(branch, blob, size, mutex, p, x)
    BY <1>1, <1>2, <1>3, <2>2 DEF HandleOK, Holding, Copying, Deleting
  <2> QED
    BY <1>4, <1>5, <2>1, <2>3, ReadKeepsInv
<1>6. CASE h' = [h EXCEPT ![p] = y]
  <2>1. [b EXCEPT !.data = 0] \in Branch /\ <<n>> \in Seq(Nat)
    BY <1>2 DEF Branch
  <2>2. y \in Handle
    BY <1>3, <2>1, PCs DEF Handle
  <2>3. y.pc = "wipe" /\ y.op = "put" /\ y.val = r.val /\ y.todo = <<n>>
        /\ y.cursor = n /\ y.copy = [b EXCEPT !.data = 0]
    BY <1>3 DEF Handle
  <2>4. CopyOf(branch, blob, n, y.copy)
    BY <1>2, <2>3 DEF CopyOf, SoundAt, Branch
  <2>5. y.todo # <<>> /\ \A j \in 1 .. Len(y.todo) : y.todo[j] \in DOMAIN branch
    BY <1>1, <2>3
  <2>6. HandleOK(branch, blob, size, mutex, p, y)
    BY <1>1, <1>3, <2>3, <2>4, <2>5 DEF HandleOK, Holding, Copying, Deleting
  <2> QED
    BY <1>4, <1>6, <2>2, <2>6, ReadKeepsInv
<1>7. CASE b.data # 0 /\ blob[b.data].size = SizeOf[r.val] /\ h' = [h EXCEPT ![p] = z]
  <2>1. z \in Handle
    BY <1>3, PCs DEF Handle
  <2>2. z.pc = "rewrite" /\ z.op = "put" /\ z.val = r.val /\ z.todo = r.todo
        /\ z.cursor = n /\ z.copy = b
    BY <1>3 DEF Handle
  <2>3. HandleOK(branch, blob, size, mutex, p, z)
    BY <1>1, <1>2, <1>3, <1>7, <2>2 DEF HandleOK, Holding, Copying, Deleting
  <2> QED
    BY <1>4, <1>7, <2>1, <2>3, ReadKeepsInv
<1>8. CASE h' = [h EXCEPT ![p] = Idle(r)]
  BY <1>1, <1>3, <1>4, <1>8, IdleOK, ReadKeepsInv
<1> QED
  BY <1>5, <1>6, <1>7, <1>8 DEF Load, Become

\* Allocate finds the end of the file with the mutex in hand.
LEMMA AllocateStep ==
  ASSUME Inv, NEW p \in Proc, Allocate(p)
  PROVE  Inv' /\ RecordsKept
<1> DEFINE c == [h[p] EXCEPT !.pc = "header", !.fresh = size]
<1>0. size \in Nat
  BY DEF Inv, TypeOK
<1>1. h[p].pc = "allocate" /\ HandleOK(branch, blob, size, mutex, p, h[p])
  BY Acting DEF Allocate, Inv
<1>2. c \in Handle
  BY <1>0, Acting, PCs DEF Handle
<1>3. c.pc = "header" /\ c.op = h[p].op /\ c.val = h[p].val /\ c.todo = h[p].todo
      /\ c.cursor = h[p].cursor /\ c.copy = h[p].copy /\ c.fresh = size
  BY Acting DEF Handle
<1>4. HandleOK(branch, blob, size, p, p, c)
  BY <1>1, <1>3 DEF HandleOK, Holding, Copying, Deleting
<1> QED
  BY <1>2, <1>4, LockKeepsInv DEF Allocate, Become

\* WriteHeader appends a data record that nothing leads to yet.
LEMMA WriteHeaderStep ==
  ASSUME Inv, NEW p \in Proc, WriteHeader(p)
  PROVE  Inv' /\ RecordsKept
<1> DEFINE r == [h[p] EXCEPT !.pc = "payload"]
           d == [size |-> SizeOf[h[p].val], body |-> NoValue]
<1>1. /\ 0 \in DOMAIN branch /\ h[p].cursor \in DOMAIN branch
      /\ h[p].pc = "header" /\ h[p].op = "put" /\ h[p].val \in Value
      /\ \A j \in 1 .. Len(h[p].todo) : h[p].todo[j] \in DOMAIN branch
      /\ mutex = p /\ h[p].fresh = size
      /\ CopyOf(branch, blob, h[p].cursor, h[p].copy)
  BY Acting DEF HandleOK, WriteHeader, Holding, Copying
<1>2. /\ DOMAIN branch \cup DOMAIN blob = 0 .. (size - 1)
      /\ DOMAIN branch \cap DOMAIN blob = {}
      /\ size \in Nat
  BY DEF Inv, WellFormed, TypeOK
<1>3. size \notin DOMAIN branch /\ size \notin DOMAIN blob
  BY <1>2
<1>4. /\ blob' = [j \in DOMAIN blob \cup {size} |-> IF j = size THEN d ELSE blob[j]]
      /\ size' = size + 1
      /\ h' = [h EXCEPT ![p] = r]
      /\ UNCHANGED <<branch, mutex, crashes>>
  BY <1>1 DEF WriteHeader, Written, SizeAfter, Become
<1>5. RecordsKept
  BY <1>3, <1>4 DEF RecordsKept
<1>6. Kept(branch, blob, branch', blob')
  BY <1>5 DEF RecordsKept, Kept
<1>7. r \in Handle
  BY Acting, PCs DEF Handle
<1>8. TypeOK'
  <2>1. d \in Blob
    BY <1>1, ValueAssumption DEF Blob
  <2>2. DOMAIN blob' = DOMAIN blob \cup {size} /\ DOMAIN blob \subseteq Nat
        /\ blob \in [DOMAIN blob -> Blob]
    BY <1>4 DEF Inv, TypeOK
  <2>3. blob' \in [DOMAIN blob' -> Blob] /\ DOMAIN blob' \subseteq Nat
    BY <1>2, <1>4, <2>1, <2>2
  <2>4. h' \in [Proc -> Handle] /\ size' \in Nat
    BY <1>2, <1>4, <1>7 DEF Inv, TypeOK
  <2> QED
    BY <1>4, <2>3, <2>4 DEF Inv, TypeOK
<1>9. WellFormed'
  <2>1. DOMAIN blob' = DOMAIN blob \cup {size} /\ DOMAIN branch' = DOMAIN branch
    BY <1>4
  <2>2. 0 .. (size' - 1) = (0 .. (size - 1)) \cup {size}
    BY <1>2, <1>4
  <2>3. ASSUME NEW m \in DOMAIN branch' PROVE SoundAt(branch', blob', m, branch'[m])
    BY <1>4, <1>6, SoundKept DEF Inv, WellFormed
  <2>4. DOMAIN branch' \cup DOMAIN blob' = 0 .. (size' - 1)
    BY <1>2, <2>1, <2>2
  <2>5. DOMAIN branch' \cap DOMAIN blob' = {}
    BY <1>2, <1>3, <2>1
  <2> QED
    BY <2>3, <2>4, <2>5 DEF WellFormed
<1>10. r.pc = "payload" /\ r.op = h[p].op /\ r.val = h[p].val /\ r.todo = h[p].todo
       /\ r.cursor = h[p].cursor /\ r.copy = h[p].copy /\ r.fresh = size
  BY <1>1, Acting DEF Handle
<1>11. CopyOf(branch', blob', h[p].cursor, h[p].copy)
  BY <1>1, <1>6, CopyKept
<1>12. HandleOK(branch', blob', size', mutex', p, r)
  BY <1>1, <1>4, <1>10, <1>11 DEF HandleOK, Holding, Copying, Deleting
<1>13. \A q \in Proc \ {p} : h[q].pc \notin Holding
  BY <1>1 DEF Inv, HandleOK
<1>14. \A m \in DOMAIN branch' : branch'[m].parent \in DOMAIN branch'
  BY <1>4 DEF Inv
<1>15. size' > 0 => 0 \in DOMAIN branch'
  BY <1>1, <1>4
<1> QED
  BY <1>4, <1>5, <1>7, <1>8, <1>9, <1>12, <1>13, <1>14, <1>15, StepKeepsInv

\* A step that completes or overwrites the data record d, keeping its length.
LEMMA PayloadKeepsInv ==
  ASSUME Inv, NEW p \in Proc, NEW r \in Handle, NEW d \in DOMAIN blob,
         NEW v \in Value,
         h' = [h EXCEPT ![p] = r],
         blob' = [blob EXCEPT ![d] = [size |-> blob[d].size, body |-> v]],
         UNCHANGED <<branch, size, crashes>>,
         mutex' \in {mutex, NoProc}, mutex' # mutex => mutex = p,
         HandleOK(branch', blob', size', mutex', p, r)
  PROVE  Inv' /\ RecordsKept
<1>1. blob \in [DOMAIN blob -> Blob] /\ DOMAIN blob' = DOMAIN blob /\ v # NoValue
  BY ValueAssumption DEF Inv, TypeOK
<1>2. RecordsKept
  BY <1>1 DEF RecordsKept
<1>3. Kept(branch, blob, branch', blob')
  BY <1>2 DEF RecordsKept, Kept
<1>4. TypeOK'
  <2>1. blob' \in [DOMAIN blob' -> Blob]
    BY <1>1 DEF Blob
  <2>2. h' \in [Proc -> Handle] /\ mutex' \in Proc \cup {NoProc}
    BY DEF Inv, TypeOK
  <2> QED
    BY <1>1, <2>1, <2>2 DEF Inv, TypeOK
<1>5. WellFormed'
  <2>1. ASSUME NEW m \in DOMAIN branch' PROVE SoundAt(branch', blob', m, branch'[m])
    BY <1>3, SoundKept DEF Inv, WellFormed
  <2> QED
    BY <1>1, <2>1 DEF Inv, WellFormed
<1>6. \A q \in Proc \ {p} : h[q].pc \in Holding => mutex' = q /\ size' = size
  BY DEF Inv, HandleOK
<1> QED
  BY <1>2, <1>4, <1>5, <1>6, StepKeepsInv DEF Inv

\* WritePayload completes the record of its handle.
LEMMA WritePayloadStep ==
  ASSUME Inv, NEW p \in Proc, WritePayload(p)
  PROVE  Inv' /\ RecordsKept
<1> DEFINE r == [h[p] EXCEPT !.pc = "store"]
           d == h[p].fresh
<1>1. /\ 0 \in DOMAIN branch /\ h[p].cursor \in DOMAIN branch
      /\ h[p].pc = "payload" /\ h[p].op = "put" /\ h[p].val \in Value
      /\ \A j \in 1 .. Len(h[p].todo) : h[p].todo[j] \in DOMAIN branch
      /\ mutex = p /\ d \in DOMAIN blob
      /\ CopyOf(branch, blob, h[p].cursor, h[p].copy)
  BY Acting DEF HandleOK, WritePayload, Holding, Copying
<1>2. blob[d] \in Blob /\ h[p].val # NoValue
  BY <1>1, ValueAssumption DEF Inv, TypeOK
<1>3. blob' = [blob EXCEPT ![d] = [size |-> blob[d].size, body |-> h[p].val]]
  <2>1. [blob[d] EXCEPT !.body = h[p].val] = [size |-> blob[d].size, body |-> h[p].val]
    BY <1>2 DEF Blob
  <2>2. blob' = [blob EXCEPT ![d] = [blob[d] EXCEPT !.body = h[p].val]]
    BY DEF WritePayload
  <2> QED
    BY <2>1, <2>2
<1>4. Kept(branch, blob, branch', blob') /\ d \in DOMAIN blob' /\ blob'[d].body # NoValue
  BY <1>1, <1>2, <1>3 DEF Kept, WritePayload
<1>5. CopyOf(branch', blob', h[p].cursor, h[p].copy)
  BY <1>1, <1>4, CopyKept
<1>6. r \in Handle
  BY Acting, PCs DEF Handle
<1>7. r.pc = "store" /\ r.op = h[p].op /\ r.val = h[p].val /\ r.todo = h[p].todo
      /\ r.cursor = h[p].cursor /\ r.copy = h[p].copy /\ r.fresh = d
  BY Acting DEF Handle
<1>8. HandleOK(branch', blob', size', mutex', p, r)
  BY <1>1, <1>4, <1>5, <1>7 DEF HandleOK, Holding, Copying, Deleting, WritePayload
<1> QED
  BY <1>1, <1>3, <1>6, <1>8, PayloadKeepsInv DEF WritePayload, Become

\* SetBranch writes back a copy, with an index to a complete record.
LEMMA SetBranchStep ==
  ASSUME Inv, NEW p \in Proc, SetBranch(p)
  PROVE  Inv' /\ RecordsKept
<1> DEFINE n == h[p].cursor
           b == [h[p].copy EXCEPT !.data = h[p].fresh]
<1>1. /\ 0 \in DOMAIN branch /\ n \in DOMAIN branch
      /\ h[p].fresh \in DOMAIN blob /\ blob[h[p].fresh].body # NoValue
      /\ CopyOf(branch, blob, n, h[p].copy)
  BY Acting DEF HandleOK, SetBranch, Copying
<1>2. b \in Branch
  BY Acting DEF Handle, Branch
<1>3. CopyOf(branch, blob, n, b)
  BY <1>1, Acting DEF CopyOf, SoundAt, Handle, Branch
<1>4. Idle(h[p]) \in Handle
      /\ (Kept(branch, blob, branch', blob') =>
            HandleOK(branch', blob', size', mutex', p, Idle(h[p])))
  BY <1>1, Acting, IdleOK DEF Kept
<1> QED
  BY <1>1, <1>2, <1>3, <1>4, WriteBackKeepsInv DEF SetBranch, Become

\* Rewrite leaves a complete record of the same length.
LEMMA RewriteStep ==
  ASSUME Inv, NEW p \in Proc, Rewrite(p)
  PROVE  Inv' /\ RecordsKept
<1> DEFINE d == h[p].copy.data
<1>1. /\ 0 \in DOMAIN branch /\ h[p].val \in Value
      /\ d # 0 /\ blob[d].size = SizeOf[h[p].val]
      /\ CopyOf(branch, blob, h[p].cursor, h[p].copy)
  BY Acting DEF HandleOK, Rewrite, Copying
<1>2. d \in DOMAIN blob
  BY <1>1 DEF CopyOf, SoundAt
<1>3. blob' = [blob EXCEPT ![d] = [size |-> blob[d].size, body |-> h[p].val]]
  BY <1>1 DEF Rewrite
<1>4. Idle(h[p]) \in Handle /\ HandleOK(branch', blob', size', mutex', p, Idle(h[p]))
  BY <1>1, Acting, IdleOK DEF Rewrite
<1> QED
  BY <1>1, <1>2, <1>3, <1>4, PayloadKeepsInv DEF Rewrite, Become

-----------------------------------------------------------------------------
(* deleteData, deleteBranch and clear(). *)

\* DeleteDataRead copies the branch it is about to write.
LEMMA DeleteDataReadStep ==
  ASSUME Inv, NEW p \in Proc, DeleteDataRead(p)
  PROVE  Inv' /\ RecordsKept
<1> DEFINE n == Head(h[p].todo)
           c == [h[p] EXCEPT !.pc = "wiping", !.spare = branch[n]]
<1>1. /\ 0 \in DOMAIN branch /\ h[p].cursor \in DOMAIN branch
      /\ h[p].pc = "wipe" /\ h[p].todo # <<>>
      /\ h[p].op = "put" =>
           h[p].val \in Value /\ CopyOf(branch, blob, h[p].cursor, h[p].copy)
      /\ \A j \in 1 .. Len(h[p].todo) : h[p].todo[j] \in DOMAIN branch
  BY Acting DEF HandleOK, DeleteDataRead, Deleting
<1>2. n \in DOMAIN branch
  BY <1>1, Acting
<1>3. branch[n] \in Branch /\ CopyOf(branch, blob, n, branch[n])
  BY <1>2, Acting DEF Inv, WellFormed, CopyOf
<1>4. Wiped(h[p]) \in Handle /\ HandleOK(branch, blob, size, mutex, p, Wiped(h[p]))
  BY <1>1, Acting, WipedOK
<1>5. c \in Handle
  BY <1>3, Acting, PCs DEF Handle
<1>6. c.pc = "wiping" /\ c.op = h[p].op /\ c.val = h[p].val /\ c.todo = h[p].todo
      /\ c.cursor = h[p].cursor /\ c.copy = h[p].copy /\ c.spare = branch[n]
  BY Acting DEF Handle
<1>7. HandleOK(branch, blob, size, mutex, p, c)
  BY <1>1, <1>3, <1>6 DEF HandleOK, Holding, Copying, Deleting
<1> QED
  BY <1>4, <1>5, <1>7, ReadKeepsInv DEF DeleteDataRead, Become

\* DeleteDataWrite writes back a copy without its data.
LEMMA DeleteDataWriteStep ==
  ASSUME Inv, NEW p \in Proc, DeleteDataWrite(p)
  PROVE  Inv' /\ RecordsKept
<1> DEFINE n == Head(h[p].todo)
           b == [h[p].spare EXCEPT !.data = 0]
           c == [h[p] EXCEPT !.spare = NewBranch(0)]
<1>1. /\ 0 \in DOMAIN branch /\ h[p].cursor \in DOMAIN branch
      /\ h[p].pc = "wiping" /\ h[p].todo # <<>>
      /\ h[p].op = "put" =>
           h[p].val \in Value /\ CopyOf(branch, blob, h[p].cursor, h[p].copy)
      /\ \A j \in 1 .. Len(h[p].todo) : h[p].todo[j] \in DOMAIN branch
      /\ CopyOf(branch, blob, n, h[p].spare)
  BY Acting DEF HandleOK, DeleteDataWrite, Deleting
<1>2. n \in DOMAIN branch
  BY <1>1, Acting
<1>3. b \in Branch
  BY Acting DEF Handle, Branch
<1>4. CopyOf(branch, blob, n, b)
  BY <1>1, Acting DEF CopyOf, SoundAt, Handle, Branch
<1>5. c \in Handle
  BY BranchTypes, Acting DEF Handle
<1>6. c.pc = "wiping" /\ c.op = h[p].op /\ c.val = h[p].val /\ c.todo = h[p].todo
      /\ c.cursor = h[p].cursor /\ c.copy = h[p].copy
  BY <1>1, Acting DEF Handle
<1>7. ASSUME Kept(branch, blob, branch', blob')
      PROVE  HandleOK(branch', blob', size', mutex', p, Wiped(c))
  <2>1. c.op = "put" => CopyOf(branch', blob', c.cursor, c.copy)
    BY <1>1, <1>6, <1>7, CopyKept
  <2>2. /\ 0 \in DOMAIN branch' /\ c.cursor \in DOMAIN branch'
        /\ \A j \in 1 .. Len(c.todo) : c.todo[j] \in DOMAIN branch'
    BY <1>1, <1>6, <1>7 DEF Kept
  <2> QED
    BY <1>1, <1>5, <1>6, <2>1, <2>2, WipedOK
<1>8. Wiped(c) \in Handle
  BY <1>1, <1>5, <1>6, WipedOK
<1> QED
  BY <1>2, <1>3, <1>4, <1>7, <1>8, WriteBackKeepsInv DEF DeleteDataWrite, Become

\* The links of a branch b that is in the file, or was, lead into the file.
LEMMA ChildrenOK ==
  ASSUME NEW br, NEW bl, NEW n, NEW b \in Branch, SoundAt(br, bl, n, b)
  PROVE  /\ Children(b) \in Seq(Nat)
         /\ \A j \in 1 .. Len(Children(b)) : Children(b)[j] \in DOMAIN br
<1>1. Children(b) \in Seq(Nat)
  BY DEF Children, Branch
<1>2. \A j \in 1 .. Len(Children(b)) : Children(b)[j] \in DOMAIN br
  BY ChildrenAreLinks DEF SoundAt, ChildOf
<1> QED
  BY <1>1, <1>2

\* Two sequences over a set make one over it.
LEMMA ConcatOK ==
  ASSUME NEW S, NEW s \in Seq(Nat), NEW t \in Seq(Nat),
         \A j \in 1 .. Len(s) : s[j] \in S,
         \A j \in 1 .. Len(t) : t[j] \in S
  PROVE  s \o t \in Seq(Nat) /\ \A j \in 1 .. Len(s \o t) : (s \o t)[j] \in S
<1>1. ASSUME NEW j \in 1 .. Len(s \o t)
      PROVE  (s \o t)[j] \in S
  <2>1. CASE j <= Len(s)
    BY <2>1
  <2>2. CASE j > Len(s)
    <3>1. j - Len(s) \in 1 .. Len(t)
      BY <2>2
    <3>2. (s \o t)[j] = t[j - Len(s)]
      BY <2>2
    <3> QED
      BY <3>1, <3>2
  <2> QED
    BY <2>1, <2>2
<1> QED
  BY <1>1

\* deleteBranch goes on to the links of b, then to the branches it still had to
\* delete.
LEMMA DescendedOK ==
  ASSUME NEW br, NEW bl, NEW sz, NEW mx, NEW p, NEW r \in Handle, NEW n,
         NEW b \in Branch, SoundAt(br, bl, n, b),
         r.op # "put", r.todo # <<>>, 0 \in DOMAIN br, r.cursor \in DOMAIN br,
         \A j \in 1 .. Len(r.todo) : r.todo[j] \in DOMAIN br
  PROVE  Descended(r, b) \in Handle /\ HandleOK(br, bl, sz, mx, p, Descended(r, b))
<1> DEFINE todo == Children(b) \o Tail(r.todo)
           c == [r EXCEPT !.pc = "wipe", !.todo = todo,
                          !.copy = NewBranch(0), !.spare = NewBranch(0)]
<1>1. Descended(r, b) = IF todo = <<>> THEN Idle(r) ELSE c
  BY DEF Descended
<1>2. /\ Tail(r.todo) \in Seq(Nat)
      /\ \A j \in 1 .. Len(Tail(r.todo)) : Tail(r.todo)[j] \in DOMAIN br
  <2>1. r.todo \in Seq(Nat) /\ Len(r.todo) \in Nat \ {0}
    BY DEF Handle
  <2>2. /\ Tail(r.todo) \in Seq(Nat) /\ Len(Tail(r.todo)) = Len(r.todo) - 1
        /\ \A j \in 1 .. Len(Tail(r.todo)) : Tail(r.todo)[j] = r.todo[j + 1]
    BY <2>1
  <2> QED
    BY <2>1, <2>2
<1>3. /\ Children(b) \in Seq(Nat)
      /\ \A j \in 1 .. Len(Children(b)) : Children(b)[j] \in DOMAIN br
  BY ChildrenOK
<1>4. todo \in Seq(Nat) /\ \A j \in 1 .. Len(todo) : todo[j] \in DOMAIN br
  BY <1>2, <1>3, ConcatOK
<1>5. c \in Handle
  BY <1>4, BranchTypes, PCs DEF Handle
<1>6. c.pc = "wipe" /\ c.op = r.op /\ c.val = r.val /\ c.todo = todo
      /\ c.cursor = r.cursor
  BY DEF Handle
<1>7. CASE todo = <<>>
  BY <1>1, <1>7, IdleOK
<1>8. CASE todo # <<>>
  <2>1. HandleOK(br, bl, sz, mx, p, c)
    BY <1>4, <1>6, <1>8 DEF HandleOK, Holding, Copying, Deleting
  <2> QED
    BY <1>1, <1>5, <1>8, <2>1
<1> QED
  BY <1>7, <1>8

\* A handle that is given branches to wipe is a handle.
LEMMA WipeType ==
  ASSUME NEW r \in Handle, NEW todo \in Seq(Nat)
  PROVE  [r EXCEPT !.pc = "wipe", !.todo = todo] \in Handle
  BY PCs DEF Handle

\* A handle that goes one bit on in clear(value) is a handle.
LEMMA TraceType ==
  ASSUME NEW r \in Handle, NEW i \in Nat, NEW pc \in {"trace", "prune"}
  PROVE  [r EXCEPT !.cursor = i, !.pos = @ + 1, !.pc = pc] \in Handle
<1>1. r.pos + 1 \in Nat /\ pc \in PC
  BY DEF Handle, PC
<1> QED
  BY <1>1 DEF Handle

\* Clear finds branches of the file to wipe.
LEMMA ClearStep ==
  ASSUME Inv, NEW p \in Proc, Clear(p)
  PROVE  Inv' /\ RecordsKept
<1> DEFINE n == h[p].cursor
           b == branch[n]
           s == IF b.data # 0 THEN <<n>> ELSE <<>>
           todo == s \o Children(b)
           r == [h[p] EXCEPT !.pc = "wipe", !.todo = todo]
<1>1. /\ 0 \in DOMAIN branch /\ n \in DOMAIN branch /\ h[p].pc = "clear"
      /\ h[p].op # "put"
  BY Acting DEF HandleOK, Clear
<1>2. b \in Branch /\ SoundAt(branch, blob, n, b) /\ n \in Nat
  BY <1>1, Acting DEF Inv, WellFormed
<1>3. Children(b) \in Seq(Nat)
      /\ \A j \in 1 .. Len(Children(b)) : Children(b)[j] \in DOMAIN branch
  BY <1>2, ChildrenOK
<1>4. s \in Seq(Nat) /\ \A j \in 1 .. Len(s) : s[j] \in DOMAIN branch
  BY <1>1, <1>2
<1>5. todo \in Seq(Nat) /\ \A j \in 1 .. Len(todo) : todo[j] \in DOMAIN branch
  BY <1>3, <1>4, ConcatOK
<1>6. CASE todo = <<>>
  <2>1. Idle(h[p]) \in Handle /\ HandleOK(branch, blob, size, mutex, p, Idle(h[p]))
    BY <1>1, Acting, IdleOK
  <2> QED
    BY <1>6, <2>1, ReadKeepsInv DEF Clear, Become
<1>7. CASE todo # <<>>
  <2>1. r \in Handle
    BY <1>5, Acting, WipeType
  <2>2. r.pc = "wipe" /\ r.op = h[p].op /\ r.val = h[p].val /\ r.todo = todo
        /\ r.cursor = n /\ r.copy = h[p].copy
    BY Acting DEF Handle
  <2>3. h[p].op # "put"
    BY <1>1
  <2>4. HandleOK(branch, blob, size, mutex, p, r)
    BY <1>1, <1>5, <1>7, <2>2, <2>3 DEF HandleOK, Holding, Copying, Deleting
  <2> QED
    BY <1>7, <2>1, <2>4, ReadKeepsInv DEF Clear, Become
<1> QED
  BY <1>6, <1>7

\* Where clear(value) stands is a branch of the file: a link that is gone reads as
\* the root.
LEMMA TraceStep ==
  ASSUME Inv, NEW p \in Proc, Trace(p)
  PROVE  Inv' /\ RecordsKept
<1> DEFINE b == branch[h[p].cursor]
           bit == NextBit(h[p])
           r == [h[p] EXCEPT !.cursor = Link(b, bit), !.pos = @ + 1,
                             !.pc = IF h[p].pos + 1 < Len(h[p].key) THEN "trace" ELSE "prune"]
           f == [r EXCEPT !.fork = h[p].cursor, !.side = bit]
<1>1. /\ h[p].pc = "trace" /\ h[p].op = "remove" /\ h[p].pos < Len(h[p].key)
      /\ 0 \in DOMAIN branch /\ h[p].cursor \in DOMAIN branch /\ h[p].fork \in DOMAIN branch
      /\ \A j \in 1 .. Len(h[p].todo) : h[p].todo[j] \in DOMAIN branch
  BY Acting DEF HandleOK, Trace
<1>2. Link(b, bit) \in Nat /\ Link(b, bit) \in DOMAIN branch
  BY <1>1, LinkOK
<1>3. h[p].pos \in Nat /\ h[p].cursor \in Nat /\ bit \in {0, 1}
  <2>1. h[p].key \in Seq({0, 1}) /\ h[p].pos \in Nat /\ h[p].cursor \in Nat
    BY Acting DEF Handle
  <2> QED
    BY <1>1, <2>1 DEF NextBit
<1>4. r \in Handle
  <2> DEFINE pc == IF h[p].pos + 1 < Len(h[p].key) THEN "trace" ELSE "prune"
  <2>1. pc \in {"trace", "prune"} /\ h[p] \in Handle
    BY Acting
  <2> HIDE DEF pc
  <2>2. [h[p] EXCEPT !.cursor = Link(b, bit), !.pos = @ + 1, !.pc = pc] \in Handle
    BY <1>2, <2>1, TraceType
  <2> QED
    BY <2>2 DEF pc
<1>5. f \in Handle
  BY <1>3, <1>4 DEF Handle
<1>6. /\ r.pc \in {"trace", "prune"} /\ (r.pc = "trace" => r.pos < Len(r.key))
      /\ r.op = "remove" /\ r.todo = h[p].todo /\ r.cursor = Link(b, bit)
      /\ r.fork = h[p].fork
  BY <1>1, Acting DEF Handle
<1>7. /\ f.pc = r.pc /\ f.pos = r.pos /\ f.key = r.key /\ f.op = r.op
      /\ f.todo = r.todo /\ f.cursor = r.cursor /\ f.fork = h[p].cursor
  BY <1>4 DEF Handle
<1>8. HandleOK(branch, blob, size, mutex, p, r)
  BY <1>1, <1>2, <1>6 DEF HandleOK, Holding, Copying, Deleting
<1>9. HandleOK(branch, blob, size, mutex, p, f)
  BY <1>1, <1>2, <1>6, <1>7 DEF HandleOK, Holding, Copying, Deleting
<1> QED
  BY <1>4, <1>5, <1>8, <1>9, ReadKeepsInv DEF Trace, Become

\* Prune finds one, be it the root.
LEMMA PruneStep ==
  ASSUME Inv, NEW p \in Proc, Prune(p)
  PROVE  Inv' /\ RecordsKept
<1> DEFINE i == Link(branch[h[p].fork], h[p].side)
           r == [h[p] EXCEPT !.pc = "wipe", !.todo = <<i>>]
<1>1. /\ h[p].pc = "prune" /\ h[p].op = "remove" /\ 0 \in DOMAIN branch
      /\ h[p].cursor \in DOMAIN branch /\ h[p].fork \in DOMAIN branch
  BY Acting DEF HandleOK, Prune
<1>2. i \in Nat /\ i \in DOMAIN branch
  BY <1>1, LinkOK
<1>3. <<i>> \in Seq(Nat) /\ \A j \in 1 .. Len(<<i>>) : <<i>>[j] \in DOMAIN branch
  BY <1>2
<1>4. r \in Handle
  BY <1>3, Acting, PCs DEF Handle
<1>5. r.pc = "wipe" /\ r.op = "remove" /\ r.todo = <<i>> /\ r.cursor = h[p].cursor
  BY <1>1, Acting DEF Handle
<1>6. HandleOK(branch, blob, size, mutex, p, r)
  BY <1>1, <1>3, <1>5 DEF HandleOK, Holding, Copying, Deleting
<1> QED
  BY <1>4, <1>6, ReadKeepsInv DEF Prune, Become

\* DeleteBranchRead copies the branch to be taken out.
LEMMA DeleteBranchReadStep ==
  ASSUME Inv, NEW p \in Proc, DeleteBranchRead(p)
  PROVE  Inv' /\ RecordsKept
<1> DEFINE n == Head(h[p].todo)
           c == [h[p] EXCEPT !.pc = "parent", !.spare = branch[n]]
           d == Descended(h[p], branch[n])
<1>1. /\ h[p].pc = "detach" /\ h[p].todo # <<>> /\ h[p].op # "put"
      /\ 0 \in DOMAIN branch /\ h[p].cursor \in DOMAIN branch
      /\ HandleOK(branch, blob, size, mutex, p, h[p])
      /\ \A j \in 1 .. Len(h[p].todo) : h[p].todo[j] \in DOMAIN branch
  BY Acting DEF HandleOK, DeleteBranchRead, Deleting
<1>2. n \in DOMAIN branch
  BY <1>1, Acting
<1>3. branch[n] \in Branch /\ CopyOf(branch, blob, n, branch[n])
  BY <1>2, Acting DEF Inv, WellFormed, CopyOf
<1>4. c \in Handle
  BY <1>3, Acting, PCs DEF Handle
<1>5. c.pc = "parent" /\ c.op = h[p].op /\ c.val = h[p].val /\ c.todo = h[p].todo
      /\ c.cursor = h[p].cursor /\ c.spare = branch[n]
  BY Acting DEF Handle
<1>6. HandleOK(branch, blob, size, mutex, p, c)
  BY <1>1, <1>3, <1>5 DEF HandleOK, Holding, Copying, Deleting
<1>7. d \in Handle /\ HandleOK(branch, blob, size, mutex, p, d)
  BY <1>1, <1>3, Acting, DescendedOK DEF CopyOf
<1> QED
  BY <1>4, <1>6, <1>7, ReadKeepsInv DEF DeleteBranchRead, Become

\* DeleteBranchParent copies its parent.
LEMMA DeleteBranchParentStep ==
  ASSUME Inv, NEW p \in Proc, DeleteBranchParent(p)
  PROVE  Inv' /\ RecordsKept
<1> DEFINE n == h[p].spare.parent
           c == [h[p] EXCEPT !.pc = "unlink", !.copy = branch[n]]
<1>1. /\ h[p].pc = "parent" /\ h[p].todo # <<>>
      /\ HandleOK(branch, blob, size, mutex, p, h[p])
      /\ \A j \in 1 .. Len(h[p].todo) : h[p].todo[j] \in DOMAIN branch
      /\ CopyOf(branch, blob, Head(h[p].todo), h[p].spare)
  BY Acting DEF HandleOK, DeleteBranchParent, Deleting
<1>2. Head(h[p].todo) \in DOMAIN branch
  BY <1>1, Acting
<1>3. n \in DOMAIN branch
  BY <1>1, <1>2 DEF Inv, CopyOf
<1>4. branch[n] \in Branch /\ CopyOf(branch, blob, n, branch[n])
  BY <1>3, Acting DEF Inv, WellFormed, CopyOf
<1>5. c \in Handle
  BY <1>4, Acting, PCs DEF Handle
<1>6. c.pc = "unlink" /\ c.op = h[p].op /\ c.val = h[p].val /\ c.todo = h[p].todo
      /\ c.cursor = h[p].cursor /\ c.spare = h[p].spare /\ c.copy = branch[n]
  BY Acting DEF Handle
<1>7. HandleOK(branch, blob, size, mutex, p, c)
  BY <1>1, <1>4, <1>6 DEF HandleOK, Holding, Copying, Deleting
<1> QED
  BY <1>5, <1>7, ReadKeepsInv DEF DeleteBranchParent, Become

\* DeleteBranchWrite writes the parent back without a link.
LEMMA DeleteBranchWriteStep ==
  ASSUME Inv, NEW p \in Proc, DeleteBranchWrite(p)
  PROVE  Inv' /\ RecordsKept
<1> DEFINE n == h[p].spare.parent
           i == Head(h[p].todo)
           b == WithoutLink(h[p].copy, i)
           r == Descended(h[p], h[p].spare)
<1>1. /\ 0 \in DOMAIN branch /\ h[p].cursor \in DOMAIN branch
      /\ h[p].pc = "unlink" /\ h[p].todo # <<>> /\ h[p].op # "put"
      /\ \A j \in 1 .. Len(h[p].todo) : h[p].todo[j] \in DOMAIN branch
      /\ CopyOf(branch, blob, i, h[p].spare)
      /\ CopyOf(branch, blob, n, h[p].copy)
  BY Acting DEF HandleOK, DeleteBranchWrite, Deleting
<1>2. i \in DOMAIN branch /\ i \in Nat /\ h[p].copy \in Branch /\ h[p].spare \in Branch
  BY <1>1, Acting DEF Handle
<1>3. n \in DOMAIN branch
  BY <1>1, <1>2 DEF Inv, CopyOf
<1>4. b \in Branch
  BY <1>2, BranchTypes
<1>5. CopyOf(branch, blob, n, b)
  BY <1>1, <1>2 DEF CopyOf, SoundAt, WithoutLink, Branch
<1>6. r \in Handle
  BY <1>1, <1>2, Acting, DescendedOK DEF CopyOf
<1>7. ASSUME Kept(branch, blob, branch', blob')
      PROVE  HandleOK(branch', blob', size', mutex', p, r)
  <2>1. /\ 0 \in DOMAIN branch' /\ h[p].cursor \in DOMAIN branch'
        /\ \A j \in 1 .. Len(h[p].todo) : h[p].todo[j] \in DOMAIN branch'
    BY <1>1, <1>7 DEF Kept
  <2>2. SoundAt(branch', blob', i, h[p].spare)
    BY <1>1, <1>7, SoundKept DEF CopyOf
  <2> QED
    BY <1>1, <1>2, <2>1, <2>2, Acting, DescendedOK
<1> QED
  BY <1>3, <1>4, <1>5, <1>6, <1>7, WriteBackKeepsInv DEF DeleteBranchWrite, Become

-----------------------------------------------------------------------------
(* contains, getData, crashes. *)

\* Reading changes nothing but the cursor and a copy.
LEMMA ReadStep ==
  ASSUME Inv, NEW p \in Proc, Read(p)
  PROVE  Inv' /\ RecordsKept
<1> DEFINE n == h[p].cursor
           i == Link(branch[n], NextBit(h[p]))
           c == [h[p] EXCEPT !.pc = "read", !.copy = branch[n]]
<1>1. h[p].pc \in {"seek", "fetch", "read"}
  BY DEF Read, ContainsBit, GetBranch, GetData
<1>2. /\ 0 \in DOMAIN branch /\ n \in DOMAIN branch
      /\ h[p].op = "put" => h[p].val \in Value
      /\ \A j \in 1 .. Len(h[p].todo) : h[p].todo[j] \in DOMAIN branch
  BY <1>1, Acting DEF HandleOK
<1>3. Idle(h[p]) \in Handle /\ HandleOK(branch, blob, size, mutex, p, Idle(h[p]))
  BY <1>2, Acting, IdleOK
<1>4. CASE h' = [h EXCEPT ![p] = Idle(h[p])]
  BY <1>3, <1>4, ReadKeepsInv DEF Read, ContainsBit, GetBranch, GetData
<1>5. CASE ContainsBit(p) /\ i # 0
  <2>1. h[p].pc = "seek" /\ h[p].pos < Len(h[p].key)
    BY <1>5, Acting DEF ContainsBit, HandleOK
  <2>2. Moved(h[p], i) \in Handle /\ HandleOK(branch, blob, size, mutex, p, Moved(h[p], i))
    BY <1>2, <1>5, <2>1, LinkOK, MovedOK, Acting
  <2> QED
    BY <1>5, <2>2, ReadKeepsInv DEF ContainsBit, Become
<1>6. CASE GetBranch(p) /\ branch[n].data # 0
  <2>1. branch[n] \in Branch /\ CopyOf(branch, blob, n, branch[n])
    BY <1>2, Acting DEF Inv, WellFormed, CopyOf
  <2>2. c \in Handle
    BY <2>1, Acting, PCs DEF Handle
  <2>3. c.pc = "read" /\ c.op = h[p].op /\ c.val = h[p].val /\ c.todo = h[p].todo
        /\ c.cursor = n /\ c.copy = branch[n]
    BY Acting DEF Handle
  <2>4. HandleOK(branch, blob, size, mutex, p, c)
    BY <1>2, <2>1, <2>3 DEF HandleOK, Holding, Copying, Deleting
  <2> QED
    BY <1>6, <2>2, <2>4, ReadKeepsInv DEF GetBranch, Become
<1> QED
  BY <1>4, <1>5, <1>6 DEF Read, ContainsBit, GetBranch, GetData, Become

\* A crash leaves the file, and nothing in any hand.
LEMMA CrashStep ==
  ASSUME Inv, Crash
  PROVE  Inv' /\ RecordsKept
<1>1. TypeOK'
  <2>1. \A p \in Proc : Closed(h[p].left) \in Handle
    BY Acting, IdleOK
  <2>2. h' \in [Proc -> Handle]
    BY <2>1 DEF Crash
  <2> QED
    BY <2>2 DEF Crash, Inv, TypeOK
<1>2. WellFormed' /\ RecordsKept
  BY DEF Crash, Inv, WellFormed, RecordsKept
<1>3. ASSUME NEW p \in Proc
      PROVE  HandleOK(branch', blob', size', mutex', p, h'[p])
  BY Acting, IdleOK DEF Crash
<1> QED
  BY <1>1, <1>2, <1>3 DEF Crash, Inv

-----------------------------------------------------------------------------

\* The empty file has no record and no handle is open.
LEMMA InitInv == Init => Inv
<1> SUFFICES ASSUME Init PROVE Inv
  OBVIOUS
<1> DEFINE none == [pc |-> "closed", op |-> "insert", key |-> <<>>, val |-> NoValue,
                    pos |-> 0, cursor |-> 0, copy |-> NewBranch(0),
                    spare |-> NewBranch(0), fresh |-> 0, fork |-> 0, side |-> 1,
                    todo |-> <<>>, locked |-> FALSE, left |-> MaxOps]
<1>1. none \in Handle /\ Closed(MaxOps) = none
  <2>1. NewBranch(0) \in Branch
    BY DEF NewBranch, Branch
  <2>2. <<>> \in Seq(Nat) /\ <<>> \in Seq({0, 1})
    OBVIOUS
  <2>3. "insert" \in AllOps /\ "closed" \in PC
    BY PCs DEF AllOps
  <2> QED
    BY <2>1, <2>2, <2>3, BoundAssumption DEF Handle, Closed
<1>2. DOMAIN branch = {} /\ DOMAIN blob = {}
  BY DEF Init
<1>3. TypeOK
  BY <1>1, <1>2 DEF Init, TypeOK
<1>4. WellFormed
  <2>1. 0 .. (size - 1) = {}
    BY DEF Init
  <2> QED
    BY <1>2, <2>1 DEF WellFormed
<1>5. ASSUME NEW p \in Proc
      PROVE  HandleOK(branch, blob, size, mutex, p, h[p])
  <2>1. none.left = MaxOps /\ h[p] = Closed(none.left)
    BY DEF Init
  <2> HIDE DEF none
  <2>2. HandleOK(branch, blob, size, mutex, p, Closed(none.left))
    BY <1>1, IdleOK
  <2> QED
    BY <2>1, <2>2
<1> QED
  BY <1>2, <1>3, <1>4, <1>5 DEF Init, Inv

\* Every step keeps the invariant.
LEMMA NextInv == Inv /\ [Next]_vars => Inv' /\ (RecordsKept \/ UNCHANGED vars)
<1> SUFFICES ASSUME Inv, [Next]_vars PROVE Inv' /\ (RecordsKept \/ UNCHANGED vars)
  OBVIOUS
<1>1. CASE UNCHANGED vars
  BY <1>1 DEF vars, Inv, TypeOK, WellFormed
<1>2. ASSUME NEW p \in Proc, Step(p)
      PROVE  Inv' /\ RecordsKept
  <2>1. CASE Open(p) \/ Create(p) \/ Start(p)
    BY <2>1, OpenStep, CreateStep, StartStep
  <2>2. CASE Walk(p)
    BY <2>2, GoStep, ClaimStep, GetNextIndexStep, SetLinkStep DEF Walk
  <2>3. CASE SetData(p)
    BY <2>3, LoadStep, AllocateStep, WriteHeaderStep, WritePayloadStep,
       SetBranchStep, RewriteStep DEF SetData
  <2>4. CASE Delete(p)
    BY <2>4, ClearStep, TraceStep, PruneStep, DeleteDataReadStep, DeleteDataWriteStep,
       DeleteBranchReadStep, DeleteBranchParentStep, DeleteBranchWriteStep DEF Delete
  <2>5. CASE Read(p)
    BY <2>5, ReadStep
  <2> QED
    BY <1>2, <2>1, <2>2, <2>3, <2>4, <2>5 DEF Step, Work
<1>3. CASE Crash
  BY <1>3, CrashStep
<1>4. CASE Finished
  BY <1>1, <1>4 DEF Finished
<1> QED
  BY <1>1, <1>2, <1>3, <1>4 DEF Next

\* The inductive invariant holds in every behaviour.
THEOREM InvCorrect == Spec => []Inv
<1>1. Inv /\ [Next]_vars => Inv'
  BY NextInv
<1> QED
  BY <1>1, InitInv, PTL DEF Spec

\* Every variable keeps its type.
THEOREM TypeCorrect == Spec => []TypeOK
<1>1. Inv => TypeOK
  BY DEF Inv
<1> QED
  BY <1>1, InvCorrect, PTL

\* The branch file is a well-formed forest whatever the handles do and wherever
\* they crash.
THEOREM ForestCorrect == Spec => []WellFormed
<1>1. Inv => WellFormed
  BY DEF Inv
<1> QED
  BY <1>1, InvCorrect, PTL

\* No write lands on a record it does not belong to.
THEOREM ExtentsCorrect == Spec => ExtentsFixed
<1>1. Inv /\ [Next]_vars => [RecordsKept]_vars
  BY NextInv
<1> QED
  BY <1>1, InvCorrect, PTL DEF Spec, ExtentsFixed

-----------------------------------------------------------------------------
(* A data record belongs to one branch for ever.  The argument: a step     *)
(* takes a data index from a branch only into a copy of that branch, and   *)
(* from a copy only into the branch it is a copy of; the one index that    *)
(* comes new, in allocate, is the end of the file, which nothing leads to. *)

\* A handle in state r is about to use or to write d as the data index of n.
Has(r, n, d) ==
  \/ /\ r.pc \in Copying \/ (r.pc \in {"wipe", "wiping"} /\ r.op = "put")
     /\ n = r.cursor /\ d = r.copy.data
  \/ r.pc \in {"payload", "store"} /\ n = r.cursor /\ d = r.fresh
  \/ r.pc = "unlink" /\ n = r.spare.parent /\ d = r.copy.data

\* The file or a handle leads from branch n to data record d.
Leads(n, d) ==
  \/ n \in DOMAIN branch /\ branch[n].data = d
  \/ \E p \in Proc : Has(h[p], n, d)

Private == \A n, m, d : d # 0 /\ Leads(n, d) /\ Leads(m, d) => n = m

-----------------------------------------------------------------------------
(* Helpers. *)

\* A step of p that leads nowhere new.
LEMMA NothingNew ==
  ASSUME Inv, Private, NEW p \in Proc, NEW r, h' = [h EXCEPT ![p] = r],
         \A n \in DOMAIN branch' : branch'[n].data # 0 => Leads(n, branch'[n].data),
         \A n, d : d # 0 /\ Has(r, n, d) => Leads(n, d)
  PROVE  Private'
<1>1. \A q \in Proc : h'[q] = IF q = p THEN r ELSE h[q]
  BY DEF Inv, TypeOK
<1>2. \A n, d : d # 0 /\ Leads(n, d)' => Leads(n, d)
  BY <1>1 DEF Leads
<1> QED
  BY <1>2 DEF Private

\* The same, of a step that does not write a branch.
LEMMA NothingWritten ==
  ASSUME Inv, Private, NEW p \in Proc, NEW r, h' = [h EXCEPT ![p] = r],
         branch' = branch,
         \A n, d : d # 0 /\ Has(r, n, d) => Leads(n, d)
  PROVE  Private'
<1>1. \A n \in DOMAIN branch' : branch'[n].data # 0 => Leads(n, branch'[n].data)
  BY DEF Leads
<1> QED
  BY <1>1, NothingNew

\* The same, of a step that writes b, which is as good as a copy of branch n.
LEMMA WrittenBack ==
  ASSUME Inv, Private, NEW p \in Proc, NEW r, h' = [h EXCEPT ![p] = r],
         NEW n \in DOMAIN branch, NEW b, branch' = [branch EXCEPT ![n] = b],
         b.data # 0 => Leads(n, b.data),
         \A m, d : d # 0 /\ Has(r, m, d) => Leads(m, d)
  PROVE  Private'
<1>1. branch \in [DOMAIN branch -> Branch]
  BY DEF Inv, TypeOK
<1>2. \A m \in DOMAIN branch' : m \in DOMAIN branch /\ branch'[m] = IF m = n THEN b ELSE branch[m]
  BY <1>1
<1>3. \A m \in DOMAIN branch' : branch'[m].data # 0 => Leads(m, branch'[m].data)
  BY <1>2 DEF Leads
<1> QED
  BY <1>3, NothingNew

\* What is led to is a data record of the file.
LEMMA LeadsToData ==
  ASSUME Inv, NEW n, NEW d, d # 0, Leads(n, d)
  PROVE  d \in DOMAIN blob
<1>1. CASE n \in DOMAIN branch /\ branch[n].data = d
  BY <1>1 DEF Inv, WellFormed, SoundAt
<1>2. CASE \E p \in Proc : Has(h[p], n, d)
  <2>1. PICK p \in Proc : Has(h[p], n, d)
    BY <1>2
  <2>2. HandleOK(branch, blob, size, mutex, p, h[p])
    BY Acting
  <2> QED
    BY <2>1, <2>2 DEF Has, HandleOK, CopyOf, SoundAt
<1> QED
  BY <1>1, <1>2 DEF Leads

\* A handle between operations has nothing in hand.
LEMMA IdleHasNothing ==
  ASSUME NEW r \in Handle, NEW n, NEW d
  PROVE  ~ Has(Idle(r), n, d) /\ ~ Has(Closed(r.left), n, d)
BY DEF Idle, Closed, Has, Copying

\* Nor has one that walks.
LEMMA MovedHasNothing ==
  ASSUME NEW r \in Handle, r.pc \in {"walk", "seek"}, NEW i, NEW n, NEW d
  PROVE  ~ Has(Moved(r, i), n, d)
<1>1. ~ Has([r EXCEPT !.cursor = i, !.pos = @ + 1], n, d)
  BY DEF Has, Copying, Handle
<1>2. ~ Has([Idle(r) EXCEPT !.pc = "trace", !.op = r.op, !.key = r.key], n, d)
  BY DEF Has, Copying, Idle, Closed
<1>3. r.op \in {"put", "clear", "get"} => ~ Has([r EXCEPT !.cursor = i, !.pos = @ + 1, !.pc = AtKey(r.op)], n, d)
  BY DEF Has, Copying, Handle, AtKey
<1> QED
  BY <1>1, <1>2, <1>3, IdleHasNothing DEF Moved, Handle, AllOps

\* deleteData is done: setData still has its copy, and nobody else has anything.
LEMMA WipedHasLess ==
  ASSUME NEW r \in Handle, r.pc \in {"wipe", "wiping"}, NEW n, NEW d, Has(Wiped(r), n, d)
  PROVE  Has(r, n, d)
<1>1. CASE r.op = "put"
  BY <1>1 DEF Wiped, Has, Copying, Handle
<1>2. CASE r.op # "put"
  <2>1. ~ Has([r EXCEPT !.pc = "detach"], n, d) /\ ~ Has([r EXCEPT !.pc = "wipe", !.todo = Tail(@)], n, d)
    BY <1>2 DEF Has, Copying, Handle
  <2> QED
    BY <1>2, <2>1, IdleHasNothing DEF Wiped
<1> QED
  BY <1>1, <1>2

\* deleteBranch goes on with nothing.
LEMMA DescendedHasNothing ==
  ASSUME NEW r \in Handle, r.op # "put", NEW b, NEW n, NEW d
  PROVE  ~ Has(Descended(r, b), n, d)
<1> DEFINE t == Children(b) \o Tail(r.todo)
           s == [r EXCEPT !.pc = "wipe", !.todo = t, !.copy = NewBranch(0), !.spare = NewBranch(0)]
<1> HIDE DEF t
<1>1. ~ Has(s, n, d)
  BY DEF Has, Copying, Handle
<1> QED
  BY <1>1, IdleHasNothing DEF Descended, t

-----------------------------------------------------------------------------
(* The actions. *)

\* Opening writes at most the root, which has no data.
LEMMA OpenPrivate ==
  ASSUME Inv, Private, NEW p \in Proc, Open(p) \/ Create(p) \/ Start(p)
  PROVE  Private'
<1>1. h[p] \in Handle
  BY Acting
<1>2. CASE Open(p) \/ Start(p)
  <2>1. PICK r : h' = [h EXCEPT ![p] = r] /\ branch' = branch /\ \A n, d : ~ Has(r, n, d)
    <3>1. CASE Open(p)
      <4>1. \A n, d : ~ Has([h[p] EXCEPT !.pc = "create"], n, d)
        BY <1>1 DEF Has, Copying, Handle
      <4> QED
        BY <1>1, <3>1, <4>1, IdleHasNothing DEF Open, Become
    <3>2. CASE Start(p)
      <4>1. PICK o, k, v : h' = [h EXCEPT ![p] =
                [h[p] EXCEPT !.pc = IF o \in {"get", "remove"} THEN "seek" ELSE "walk",
                             !.op = o, !.key = k, !.val = v, !.left = @ - 1]]
        BY <3>2 DEF Start, Become
      <4>2. \A n, d : ~ Has([h[p] EXCEPT !.pc = IF o \in {"get", "remove"} THEN "seek" ELSE "walk",
                                         !.op = o, !.key = k, !.val = v, !.left = @ - 1], n, d)
        BY <1>1 DEF Has, Copying, Handle
      <4> QED
        BY <3>2, <4>1, <4>2 DEF Start
    <3> QED
      BY <1>2, <3>1, <3>2
  <2> QED
    BY <2>1, NothingWritten
<1>3. CASE Create(p)
  <2>1. \A n \in DOMAIN branch' : branch'[n].data # 0 => n \in DOMAIN branch /\ branch[n] = branch'[n]
    BY <1>3 DEF Create, Written, NewBranch
  <2>2. \A n \in DOMAIN branch' : branch'[n].data # 0 => Leads(n, branch'[n].data)
    BY <2>1 DEF Leads
  <2>3. h' = [h EXCEPT ![p] = Idle(h[p])]
    BY <1>3 DEF Create, Become
  <2> QED
    BY <1>1, <2>2, <2>3, IdleHasNothing, NothingNew
<1> QED
  BY <1>2, <1>3

\* goLeft and goRight copy the branch with its data index, and write both back.
LEMMA WalkPrivate ==
  ASSUME Inv, Private, NEW p \in Proc, Walk(p)
  PROVE  Private'
<1>1. /\ h[p] \in Handle /\ HandleOK(branch, blob, size, mutex, p, h[p])
      /\ \A i, n, d : h[p].pc \in {"walk", "seek"} => ~ Has(Moved(h[p], i), n, d)
      /\ \A i, n, d : ~ Has(Moved([h[p] EXCEPT !.pc = "walk"], i), n, d)
  <2>1. h[p] \in Handle /\ [h[p] EXCEPT !.pc = "walk"] \in Handle
        /\ [h[p] EXCEPT !.pc = "walk"].pc = "walk"
    BY Acting, PCs DEF Handle
  <2> QED
    BY <2>1, Acting, MovedHasNothing
<1>2. CASE Go(p)
  <2>1. \A n, d : ~ Has([h[p] EXCEPT !.pc = "claim"], n, d)
    BY <1>1 DEF Has, Copying, Handle
  <2>2. PICK r : h' = [h EXCEPT ![p] = r] /\ \A n, d : ~ Has(r, n, d)
    <3>1. h[p].pc = "walk"
      BY <1>2 DEF Go
    <3>2. \/ \E i : h' = [h EXCEPT ![p] = Moved(h[p], i)]
          \/ h' = [h EXCEPT ![p] = [h[p] EXCEPT !.pc = "claim"]]
      BY <1>2 DEF Go, Become
    <3> QED
      BY <1>1, <2>1, <3>1, <3>2
  <2> QED
    BY <1>2, <2>2, NothingWritten DEF Go
<1>3. CASE Claim(p)
  <2> DEFINE r == [h[p] EXCEPT !.pc = "append", !.copy = branch[h[p].cursor], !.fresh = size]
  <2>1. \A n, d : Has(r, n, d) => n = h[p].cursor /\ d = branch[h[p].cursor].data
    BY <1>1 DEF Has, Copying, Handle
  <2>2. h[p].cursor \in DOMAIN branch
    BY <1>1, <1>3 DEF Claim, HandleOK
  <2>3. \A n, d : Has(r, n, d) => Leads(n, d)
    BY <2>1, <2>2 DEF Leads
  <2>4. PICK s : h' = [h EXCEPT ![p] = s] /\ \A n, d : Has(s, n, d) => Leads(n, d)
    <3> HIDE DEF r
    <3>1. \/ \E i : h' = [h EXCEPT ![p] = Moved([h[p] EXCEPT !.pc = "walk"], i)]
          \/ h' = [h EXCEPT ![p] = r]
      BY <1>3 DEF Claim, Become, r
    <3> QED
      BY <1>1, <2>3, <3>1
  <2> QED
    BY <1>3, <2>4, NothingWritten DEF Claim
<1>4. CASE GetNextIndex(p)
  <2>1. \A n, d : Has([h[p] EXCEPT !.pc = "link"], n, d) => Has(h[p], n, d)
    BY <1>1, <1>4 DEF GetNextIndex, Has, Copying, Handle
  <2>2. \A n, d : Has([h[p] EXCEPT !.pc = "link"], n, d) => Leads(n, d)
    BY <2>1 DEF Leads
  <2>3. \A n \in DOMAIN branch' : branch'[n].data # 0 => n \in DOMAIN branch /\ branch[n] = branch'[n]
    BY <1>4 DEF GetNextIndex, Written, NewBranch
  <2>4. \A n \in DOMAIN branch' : branch'[n].data # 0 => Leads(n, branch'[n].data)
    BY <2>3 DEF Leads
  <2> QED
    BY <1>4, <2>2, <2>4, NothingNew DEF GetNextIndex, Become
<1>5. CASE SetLink(p)
  <2> DEFINE b == WithLink(h[p].copy, NextBit(h[p]), h[p].fresh)
             s == [h[p] EXCEPT !.pc = "walk", !.copy = NewBranch(0), !.fresh = 0]
  <2>1. b.data = h[p].copy.data
    BY <1>1 DEF WithLink, Handle, Branch
  <2>2. h[p].pc = "link" /\ h[p].cursor \in DOMAIN branch /\ Has(h[p], h[p].cursor, h[p].copy.data)
    BY <1>1, <1>5 DEF SetLink, HandleOK, Has, Copying
  <2>3. Leads(h[p].cursor, b.data)
    BY <2>1, <2>2 DEF Leads
  <2>4. s \in Handle /\ s.pc = "walk"
    BY <1>1, PCs, BranchTypes DEF Handle
  <2>5. \A n, d : ~ Has(Moved(s, h[p].fresh), n, d)
    BY <2>4, MovedHasNothing
  <2>6. branch' = [branch EXCEPT ![h[p].cursor] = b] /\ h' = [h EXCEPT ![p] = Moved(s, h[p].fresh)]
    BY <1>5 DEF SetLink, Become
  <2> HIDE DEF b, s
  <2> QED
    BY <2>2, <2>3, <2>5, <2>6, WrittenBack
<1> QED
  BY <1>2, <1>3, <1>4, <1>5 DEF Walk

\* The end of the file, where allocate puts a new record, is led to by nothing.
LEMMA WriteHeaderPrivate ==
  ASSUME Inv, Private, NEW p \in Proc, WriteHeader(p)
  PROVE  Private'
<1>1. /\ h[p] \in Handle /\ h[p].pc = "header" /\ h[p].fresh = size
      /\ branch' = branch
      /\ h' = [h EXCEPT ![p] = [h[p] EXCEPT !.pc = "payload"]]
  BY Acting DEF WriteHeader, HandleOK, Become
<1>2. \A n, d : Has([h[p] EXCEPT !.pc = "payload"], n, d) =>
                  Has(h[p], n, d) \/ (n = h[p].cursor /\ d = size)
  BY <1>1 DEF Has, Copying, Handle
<1>3. \A n, d : Leads(n, d)' => Leads(n, d) \/ (n = h[p].cursor /\ d = size)
  <2>1. \A q \in Proc \ {p} : h'[q] = h[q]
    BY <1>1 DEF Inv, TypeOK
  <2>2. h'[p] = [h[p] EXCEPT !.pc = "payload"]
    BY <1>1 DEF Inv, TypeOK
  <2> QED
    BY <1>1, <1>2, <2>1, <2>2 DEF Leads
<1>4. size \notin DOMAIN blob
  BY DEF Inv, TypeOK, WellFormed
<1>5. \A n : size # 0 => ~ Leads(n, size)
  BY <1>4, LeadsToData
<1> QED
  BY <1>3, <1>5 DEF Private

\* setData reads its branch, writes data it alone leads to, and leads its branch to it.
LEMMA SetDataPrivate ==
  ASSUME Inv, Private, NEW p \in Proc, SetData(p)
  PROVE  Private'
<1>1. h[p] \in Handle /\ HandleOK(branch, blob, size, mutex, p, h[p])
  BY Acting
<1>2. CASE Load(p)
  <2>1. h[p].cursor \in DOMAIN branch
    BY <1>1, <1>2 DEF Load, HandleOK
  <2>2. PICK r : h' = [h EXCEPT ![p] = r]
                 /\ \A n, d : Has(r, n, d) => n = h[p].cursor /\ d \in {0, branch[h[p].cursor].data}
    <3> DEFINE b == branch[h[p].cursor]
               s == [h[p] EXCEPT !.copy = b, !.locked = TRUE]
               w == [s EXCEPT !.pc = "wipe", !.todo = <<s.cursor>>, !.copy.data = 0]
    <3>1. b \in Branch
      BY <2>1 DEF Inv, TypeOK
    <3>2. s \in Handle /\ s.copy = b /\ s.cursor = h[p].cursor
      BY <1>1, <3>1 DEF Handle
    <3>3. \A n, d : Has([s EXCEPT !.pc = "allocate"], n, d) \/ Has([s EXCEPT !.pc = "rewrite"], n, d)
                      => n = s.cursor /\ d = s.copy.data
      BY <3>2 DEF Has, Copying, Handle
    <3>4. \A n, d : Has(w, n, d) => n = s.cursor /\ d = 0
      BY <3>2 DEF Has, Copying, Handle, Branch
    <3>5. \A n, d : ~ Has(Idle(s), n, d)
      BY <3>2, IdleHasNothing
    <3>6. \/ h' = [h EXCEPT ![p] = [s EXCEPT !.pc = "allocate"]]
          \/ h' = [h EXCEPT ![p] = [s EXCEPT !.pc = "rewrite"]]
          \/ h' = [h EXCEPT ![p] = w]
          \/ h' = [h EXCEPT ![p] = Idle(s)]
      BY <1>2 DEF Load, Become
    <3> HIDE DEF w, s
    <3> QED
      BY <3>2, <3>3, <3>4, <3>5, <3>6
  <2>3. \A n, d : d # 0 /\ Has(r, n, d) => Leads(n, d)
    BY <2>1, <2>2 DEF Leads
  <2> QED
    BY <1>2, <2>2, <2>3, NothingWritten DEF Load
<1>3. CASE Allocate(p)
  <2>1. \A n, d : Has([h[p] EXCEPT !.pc = "header", !.fresh = size], n, d) => Has(h[p], n, d)
    BY <1>1, <1>3 DEF Allocate, Has, Copying, Handle
  <2>2. \A n, d : Has([h[p] EXCEPT !.pc = "header", !.fresh = size], n, d) => Leads(n, d)
    BY <2>1 DEF Leads
  <2> QED
    BY <1>3, <2>2, NothingWritten DEF Allocate, Become
<1>4. CASE WritePayload(p)
  <2>1. \A n, d : Has([h[p] EXCEPT !.pc = "store"], n, d) => Has(h[p], n, d)
    BY <1>1, <1>4 DEF WritePayload, Has, Copying, Handle
  <2>2. \A n, d : Has([h[p] EXCEPT !.pc = "store"], n, d) => Leads(n, d)
    BY <2>1 DEF Leads
  <2> QED
    BY <1>4, <2>2, NothingWritten DEF WritePayload, Become
<1>5. CASE SetBranch(p)
  <2>1. /\ h[p].cursor \in DOMAIN branch /\ Has(h[p], h[p].cursor, h[p].fresh)
        /\ [h[p].copy EXCEPT !.data = h[p].fresh].data = h[p].fresh
    BY <1>1, <1>5 DEF SetBranch, HandleOK, Has, Handle, Branch
  <2>2. Leads(h[p].cursor, h[p].fresh)
    BY <2>1 DEF Leads
  <2> QED
    BY <1>1, <1>5, <2>1, <2>2, IdleHasNothing, WrittenBack DEF SetBranch, Become
<1>6. CASE Rewrite(p)
  BY <1>1, <1>6, IdleHasNothing, NothingWritten DEF Rewrite, Become
<1> QED
  BY <1>2, <1>3, <1>4, <1>5, <1>6, WriteHeaderPrivate DEF SetData

\* Deletion writes back what it read, with less.
LEMMA DeletePrivate ==
  ASSUME Inv, Private, NEW p \in Proc, Delete(p)
  PROVE  Private'
<1>1. h[p] \in Handle /\ HandleOK(branch, blob, size, mutex, p, h[p])
  BY Acting
<1>2. CASE Clear(p) \/ Trace(p) \/ Prune(p)
  <2>1. PICK r : h' = [h EXCEPT ![p] = r] /\ \A n, d : ~ Has(r, n, d)
    <3>1. CASE Clear(p)
      <4>1. h[p].op # "put"
        BY <1>1, <3>1 DEF Clear, HandleOK
      <4>2. \A t, n, d : ~ Has([h[p] EXCEPT !.pc = "wipe", !.todo = t], n, d)
        BY <1>1, <4>1 DEF Has, Copying, Handle
      <4> QED
        BY <1>1, <3>1, <4>2, IdleHasNothing DEF Clear, Become
    <3>2. CASE Trace(p)
      <4> DEFINE s == [h[p] EXCEPT !.cursor = Link(branch[h[p].cursor], NextBit(h[p])), !.pos = @ + 1,
                           !.pc = IF h[p].pos + 1 < Len(h[p].key) THEN "trace" ELSE "prune"]
                 f == [s EXCEPT !.fork = h[p].cursor, !.side = NextBit(h[p])]
      <4>1. s.pc \in {"trace", "prune"} /\ f.pc \in {"trace", "prune"}
        BY <1>1 DEF Handle
      <4>2. h' = [h EXCEPT ![p] = f] \/ h' = [h EXCEPT ![p] = s]
        BY <3>2 DEF Trace, Become
      <4> HIDE DEF s, f
      <4>3. \A n, d : ~ Has(s, n, d) /\ ~ Has(f, n, d)
        BY <4>1 DEF Has, Copying
      <4> QED
        BY <4>2, <4>3
    <3>3. CASE Prune(p)
      <4>1. h[p].op # "put"
        BY <1>1, <3>3 DEF Prune, HandleOK
      <4>2. \A t, n, d : ~ Has([h[p] EXCEPT !.pc = "wipe", !.todo = t], n, d)
        BY <1>1, <4>1 DEF Has, Copying, Handle
      <4> QED
        BY <3>3, <4>2 DEF Prune, Become
    <3> QED
      BY <1>2, <3>1, <3>2, <3>3
  <2> QED
    BY <1>2, <2>1, NothingWritten DEF Clear, Trace, Prune
<1>3. CASE DeleteDataRead(p)
  <2>1. h[p].pc = "wipe"
    BY <1>3 DEF DeleteDataRead
  <2>2. \A b, n, d : Has([h[p] EXCEPT !.pc = "wiping", !.spare = b], n, d) => Has(h[p], n, d)
    BY <1>1, <2>1 DEF Has, Copying, Handle
  <2>3. \A n, d : Has(Wiped(h[p]), n, d) => Has(h[p], n, d)
    BY <1>1, <2>1, WipedHasLess
  <2>4. PICK r : h' = [h EXCEPT ![p] = r] /\ \A n, d : Has(r, n, d) => Has(h[p], n, d)
    BY <1>3, <2>2, <2>3 DEF DeleteDataRead, Become
  <2>5. \A n, d : Has(r, n, d) => Leads(n, d)
    BY <2>4 DEF Leads
  <2> QED
    BY <1>3, <2>4, <2>5, NothingWritten DEF DeleteDataRead
<1>4. CASE DeleteDataWrite(p)
  <2> DEFINE c == [h[p] EXCEPT !.spare = NewBranch(0)]
             b == [h[p].spare EXCEPT !.data = 0]
  <2>1. h[p].pc = "wiping" /\ Head(h[p].todo) \in DOMAIN branch
    BY <1>1, <1>4, Acting DEF DeleteDataWrite, HandleOK, Deleting
  <2>2. c \in Handle /\ c.pc = "wiping" /\ b.data = 0
    BY <1>1, <2>1, BranchTypes DEF Handle, Branch
  <2>3. \A n, d : Has(Wiped(c), n, d) => Has(c, n, d)
    BY <2>2, WipedHasLess
  <2>4. \A n, d : Has(c, n, d) => Has(h[p], n, d)
    BY <1>1, <2>1 DEF Has, Copying, Handle
  <2>5. \A n, d : Has(Wiped(c), n, d) => Leads(n, d)
    BY <2>3, <2>4 DEF Leads
  <2>6. branch' = [branch EXCEPT ![Head(h[p].todo)] = b] /\ h' = [h EXCEPT ![p] = Wiped(c)]
    BY <1>4 DEF DeleteDataWrite, Become
  <2> HIDE DEF b, c
  <2> QED
    BY <2>1, <2>2, <2>5, <2>6, WrittenBack
<1>5. CASE DeleteBranchRead(p)
  <2>1. h[p].pc = "detach" /\ h[p].op # "put"
    BY <1>1, <1>5 DEF DeleteBranchRead, HandleOK
  <2>2. \A b, n, d : ~ Has([h[p] EXCEPT !.pc = "parent", !.spare = b], n, d)
    BY <1>1, <2>1 DEF Has, Copying, Handle
  <2>3. PICK r : h' = [h EXCEPT ![p] = r] /\ \A n, d : ~ Has(r, n, d)
    BY <1>1, <1>5, <2>1, <2>2, DescendedHasNothing DEF DeleteBranchRead, Become
  <2> QED
    BY <1>5, <2>3, NothingWritten DEF DeleteBranchRead
<1>6. CASE DeleteBranchParent(p)
  <2> DEFINE r == [h[p] EXCEPT !.pc = "unlink", !.copy = branch[h[p].spare.parent]]
  <2>1. h[p].pc = "parent" /\ h[p].spare.parent \in DOMAIN branch
    <3>1. h[p].pc = "parent"
      BY <1>6 DEF DeleteBranchParent
    <3>2. h[p].op # "put" /\ h[p].todo # <<>> /\ h[p].spare.parent = branch[Head(h[p].todo)].parent
      BY <1>1, <3>1 DEF HandleOK, Deleting, CopyOf
    <3>3. h[p].todo \in Seq(Nat) /\ 1 \in 1 .. Len(h[p].todo) /\ Head(h[p].todo) = h[p].todo[1]
      BY <1>1, <3>2 DEF Handle
    <3>4. Head(h[p].todo) \in DOMAIN branch
      BY <1>1, <3>3 DEF HandleOK
    <3> QED
      BY <3>1, <3>2, <3>4 DEF Inv
  <2>2. \A n, d : Has(r, n, d) => n = h[p].spare.parent /\ d = branch[h[p].spare.parent].data
    BY <1>1 DEF Has, Copying, Handle
  <2>3. \A n, d : Has(r, n, d) => Leads(n, d)
    BY <2>1, <2>2 DEF Leads
  <2> QED
    BY <1>6, <2>3, NothingWritten DEF DeleteBranchParent, Become
<1>7. CASE DeleteBranchWrite(p)
  <2> DEFINE n == h[p].spare.parent
             b == WithoutLink(h[p].copy, Head(h[p].todo))
  <2>1. h[p].pc = "unlink" /\ h[p].op # "put" /\ n \in DOMAIN branch
    <3>1. h[p].pc = "unlink"
      BY <1>7 DEF DeleteBranchWrite
    <3>2. h[p].op # "put" /\ h[p].todo # <<>> /\ h[p].spare.parent = branch[Head(h[p].todo)].parent
      BY <1>1, <3>1 DEF HandleOK, Deleting, CopyOf
    <3>3. h[p].todo \in Seq(Nat) /\ 1 \in 1 .. Len(h[p].todo) /\ Head(h[p].todo) = h[p].todo[1]
      BY <1>1, <3>2 DEF Handle
    <3>4. Head(h[p].todo) \in DOMAIN branch
      BY <1>1, <3>3 DEF HandleOK
    <3> QED
      BY <3>1, <3>2, <3>4 DEF Inv
  <2>2. b.data = h[p].copy.data
    BY <1>1 DEF WithoutLink, Handle, Branch
  <2>3. Has(h[p], n, h[p].copy.data)
    BY <2>1 DEF Has
  <2>4. Leads(n, b.data)
    BY <2>2, <2>3 DEF Leads
  <2>5. \A m, d : ~ Has(Descended(h[p], h[p].spare), m, d)
    BY <1>1, <2>1, DescendedHasNothing
  <2>6. branch' = [branch EXCEPT ![n] = b] /\ h' = [h EXCEPT ![p] = Descended(h[p], h[p].spare)]
    BY <1>7 DEF DeleteBranchWrite, Become
  <2> HIDE DEF b, n
  <2> QED
    BY <2>1, <2>4, <2>5, <2>6, WrittenBack
<1> QED
  BY <1>2, <1>3, <1>4, <1>5, <1>6, <1>7 DEF Delete

\* Reading keeps the copy of its branch at most.
LEMMA ReadPrivate ==
  ASSUME Inv, Private, NEW p \in Proc, Read(p)
  PROVE  Private'
<1>1. h[p] \in Handle /\ HandleOK(branch, blob, size, mutex, p, h[p])
  BY Acting
<1>2. CASE ContainsBit(p)
  <2>1. h[p].pc = "seek"
    BY <1>2 DEF ContainsBit
  <2>2. PICK r : h' = [h EXCEPT ![p] = r] /\ \A n, d : ~ Has(r, n, d)
    <3>1. \/ \E i : h' = [h EXCEPT ![p] = Moved(h[p], i)]
          \/ h' = [h EXCEPT ![p] = Idle(h[p])]
      BY <1>2 DEF ContainsBit, Become
    <3>2. \A i, n, d : ~ Has(Moved(h[p], i), n, d)
      BY <1>1, <2>1, MovedHasNothing
    <3> QED
      BY <1>1, <3>1, <3>2, IdleHasNothing
  <2> QED
    BY <1>2, <2>2, NothingWritten DEF ContainsBit
<1>3. CASE GetBranch(p)
  <2> DEFINE r == [h[p] EXCEPT !.pc = "read", !.copy = branch[h[p].cursor]]
  <2>1. h[p].cursor \in DOMAIN branch
    BY <1>1, <1>3 DEF GetBranch, HandleOK
  <2>2. \A n, d : Has(r, n, d) => n = h[p].cursor /\ d = branch[h[p].cursor].data
    BY <1>1 DEF Has, Copying, Handle
  <2>3. \A n, d : Has(r, n, d) => Leads(n, d)
    BY <2>1, <2>2 DEF Leads
  <2>4. h' = [h EXCEPT ![p] = Idle(h[p])] \/ h' = [h EXCEPT ![p] = r]
    BY <1>3 DEF GetBranch, Become
  <2> HIDE DEF r
  <2> QED
    BY <1>1, <1>3, <2>3, <2>4, IdleHasNothing, NothingWritten DEF GetBranch
<1>4. CASE GetData(p)
  BY <1>1, <1>4, IdleHasNothing, NothingWritten DEF GetData, Become
<1> QED
  BY <1>2, <1>3, <1>4 DEF Read

\* A crash leaves the file, and nothing in any hand.
LEMMA CrashPrivate ==
  ASSUME Inv, Private, Crash
  PROVE  Private'
<1>1. branch' = branch /\ \A q \in Proc : h'[q] = Closed(h[q].left)
  BY DEF Crash
<1>2. \A q \in Proc : \A n, d : ~ Has(h'[q], n, d)
  BY <1>1, Acting, IdleHasNothing
<1>3. \A n, d : Leads(n, d)' => Leads(n, d)
  BY <1>1, <1>2 DEF Leads
<1> QED
  BY <1>3 DEF Private

-----------------------------------------------------------------------------
(* The theorem. *)

\* In an empty file nothing leads anywhere.
LEMMA InitPrivate == Init => Private
<1> SUFFICES ASSUME Init PROVE Private
  OBVIOUS
<1>1. \A p \in Proc : h[p].pc = "closed"
  BY DEF Init, Closed
<1>2. \A n, d : ~ Leads(n, d)
  BY <1>1 DEF Init, Leads, Has, Copying
<1> QED
  BY <1>2 DEF Private

\* Every step keeps it, with the invariant of DatabaseProofs.
LEMMA NextPrivate == Inv /\ Private /\ [Next]_vars => Private'
<1> SUFFICES ASSUME Inv, Private, [Next]_vars PROVE Private'
  OBVIOUS
<1>1. CASE UNCHANGED vars
  BY <1>1 DEF vars, Private, Leads
<1>2. ASSUME NEW p \in Proc, Step(p) PROVE Private'
  BY <1>2, OpenPrivate, WalkPrivate, SetDataPrivate, DeletePrivate, ReadPrivate DEF Step, Work
<1> QED
  BY <1>1, <1>2, CrashPrivate DEF Next, Finished

\* Neither the file nor a stale copy leads from two branches to one data record:
\* what setData overwrites in place, and what getData returns, is of its key.
THEOREM DataCorrect == Spec => []DataPrivate
<1>1. Inv /\ [Next]_vars => Inv'
  BY NextInv
<1>2. Private => DataPrivate
  <2> SUFFICES ASSUME Private, NEW r1 \in DataRefs, NEW r2 \in DataRefs, r1[2] = r2[2], r1[2] # 0
               PROVE  r1[1] = r2[1]
    BY DEF DataPrivate
  <2>1. \A r \in DataRefs : Leads(r[1], r[2])
    BY DEF DataRefs, Leads, Has, Copying
  <2> QED
    BY <2>1 DEF Private
<1> QED
  BY <1>1, <1>2, InitInv, InitPrivate, NextPrivate, PTL DEF Spec
=============================================================================
