------------------------------ MODULE Database ------------------------------
(***************************************************************************)
(* The branch file of src/code/Database: one file shared by every thread   *)
(* and process that opens it, holding a binary tree of Branch records and  *)
(* the data records the branches point to.  A handle (one Database object  *)
(* of one thread) opens the file, walks a key bit by bit (goLeft/goRight), *)
(* stores data at the key's branch (setData), reads it (contains, getData) *)
(* clears the subtree (clear()) or removes the key (clear(value)).         *)
(*                                                                         *)
(* A step is one access to the file.  Two accesses are one step only where *)
(* nobody else can tell the difference: taking a mutex goes with the first *)
(* read done under it, releasing it with the last write.  File offsets are *)
(* record numbers: record i is the i-th append.  A key is the sequence of  *)
(* bits its encoding writes.                                               *)
(***************************************************************************)
EXTENDS Naturals, Sequences

CONSTANTS
  Proc,        \* handles: a thread with its own Database object
  NoProc,      \* owner of a free mutex
  Key,         \* keys, as non-empty sequences of bits
  Value,       \* values handed to setData
  SizeOf,      \* SizeOf[v]: the number of bytes of v
  NoValue,     \* no value; body of a data record before its payload is written
  Ops,         \* the operations in use: a subset of AllOps
  MaxOps,      \* bound: operations a handle performs
  MaxCrashes   \* bound: crashes of the whole system

AllOps == {"insert", "put", "get", "clear", "remove"}

ASSUME ProcAssumption == NoProc \notin Proc
ASSUME KeyAssumption == \A k \in Key : k \in Seq({0, 1}) /\ k # <<>>
ASSUME ValueAssumption == NoValue \notin Value /\ \A v \in Value : SizeOf[v] \in Nat
ASSUME BoundAssumption ==
  Ops \subseteq AllOps /\ MaxOps \in Nat /\ MaxCrashes \in Nat

VARIABLES
  branch,   \* index -> Branch: the branch records in the file
  blob,     \* index -> Blob: the data records in the file
  size,     \* File::size(): where the next record is appended
  mutex,    \* owner of the shared memory mutex (LockFile::ScopedLock)
  h,        \* the state of each handle
  crashes   \* number of crashes so far

vars == <<branch, blob, size, mutex, h, crashes>>

-----------------------------------------------------------------------------
(* Records of the file. *)

Branch == [parent : Nat, left : Nat, right : Nat, data : Nat]
Blob   == [size : Nat, body : Value \cup {NoValue}]

\* Mutant: a Branch whose data index is not initialised.
UninitialisedBranch(p) == [parent |-> p, left |-> 0, right |-> 0, data |-> NoValue]

NewBranch(p) == [parent |-> p, left |-> 0, right |-> 0, data |-> 0]

Link(b, bit) == IF bit = 0 THEN b.left ELSE b.right

WithLink(b, bit, i) ==
  IF bit = 0 THEN [b EXCEPT !.left = i] ELSE [b EXCEPT !.right = i]

\* What deleteBranch does to the parent of i: the first link that names i.
WithoutLink(b, i) ==
  IF b.left = i THEN [b EXCEPT !.left = 0]
  ELSE IF b.right = i THEN [b EXCEPT !.right = 0]
  ELSE b

\* The links deleteBranch and clear() follow, left before right.
Children(b) ==
  (IF b.left # 0 THEN <<b.left>> ELSE <<>>) \o
  (IF b.right # 0 THEN <<b.right>> ELSE <<>>)

\* f after a write of v at index i, at its end or over an older record.
Written(f, i, v) ==
  [j \in DOMAIN f \cup {i} |-> IF j = i THEN v ELSE f[j]]

SizeAfter(i) == IF i = size THEN size + 1 ELSE size

-----------------------------------------------------------------------------
(* Handles.  `copy' is the local variable `branch' of goLeft, setData and  *)
(* clear (and `parent' of deleteBranch), `spare' the Branch that           *)
(* deleteData and deleteBranch read, `fresh' the index at the end of the   *)
(* file found by getNextIndex or allocate, `todo' the branches still to    *)
(* be wiped, `fork' and `side' are lastIndex and lastBit of clear(value),  *)
(* `locked' says that the handle holds Path::ScopedLock on its cursor, and *)
(* `left' counts the operations it may still start.                        *)

PC == {"closed", "create", "idle", "walk", "claim", "append", "link",
       "load", "wipe", "wiping", "allocate", "header", "payload", "store",
       "rewrite", "seek", "fetch", "read", "clear", "trace", "prune",
       "detach", "parent", "unlink"}

Handle ==
  [pc : PC, op : AllOps, key : Seq({0, 1}), val : Value \cup {NoValue},
   pos : Nat, cursor : Nat, copy : Branch, spare : Branch, fresh : Nat,
   fork : Nat, side : {0, 1}, todo : Seq(Nat), locked : BOOLEAN, left : Nat]

Closed(n) ==
  [pc |-> "closed", op |-> "insert", key |-> <<>>, val |-> NoValue,
   pos |-> 0, cursor |-> 0, copy |-> NewBranch(0), spare |-> NewBranch(0),
   fresh |-> 0, fork |-> 0, side |-> 1, todo |-> <<>>, locked |-> FALSE, left |-> n]

Idle(r) == [Closed(r.left) EXCEPT !.pc = "idle"]

\* Where an operation continues once the cursor stands at its key.
AtKey(op) ==
  CASE op = "put" -> "load" [] op = "clear" -> "clear" [] op = "get" -> "fetch"

\* r after `_index = i': one more bit of the key is written (or, for
\* contains, followed).  clear(value) starts again from the root.
Moved(r, i) ==
  IF r.pos + 1 < Len(r.key) THEN [r EXCEPT !.cursor = i, !.pos = @ + 1]
  ELSE IF r.op = "insert" THEN Idle(r)
  ELSE IF r.op = "remove" THEN [Idle(r) EXCEPT !.pc = "trace", !.op = r.op, !.key = r.key]
  ELSE [r EXCEPT !.cursor = i, !.pos = @ + 1, !.pc = AtKey(r.op)]

NextBit(r) == r.key[r.pos + 1]

\* Somebody other than p holds Path::ScopedLock on branch i.
PathLocked(p, i) == \E q \in Proc \ {p} : h[q].locked /\ h[q].cursor = i

Become(p, r) == h' = [h EXCEPT ![p] = r]

-----------------------------------------------------------------------------
(* Opening: the root branch is written by the first handle that finds an   *)
(* empty file, which it checks again under the mutex.                      *)

Init ==
  /\ branch = [i \in {} |-> NewBranch(0)]
  /\ blob = [i \in {} |-> [size |-> 0, body |-> NoValue]]
  /\ size = 0
  /\ mutex = NoProc
  /\ h = [p \in Proc |-> Closed(MaxOps)]
  /\ crashes = 0

Open(p) ==
  /\ h[p].pc = "closed"
  /\ Become(p, IF size = 0 THEN [h[p] EXCEPT !.pc = "create"] ELSE Idle(h[p]))
  /\ UNCHANGED <<branch, blob, size, mutex, crashes>>

Create(p) ==
  /\ h[p].pc = "create"
  /\ mutex = NoProc
  /\ IF size = 0
     THEN branch' = Written(branch, 0, NewBranch(0)) /\ size' = SizeAfter(0)
     ELSE UNCHANGED <<branch, size>>
  /\ Become(p, Idle(h[p]))
  /\ UNCHANGED <<blob, mutex, crashes>>

\* path[key] (insert), path[key].setData(v) (put), path.contains(key) and
\* getData (get), path[key].clear() (clear) and path.clear(key) (remove), each
\* from the root.
Start(p) ==
  /\ h[p].pc = "idle"
  /\ h[p].left > 0
  /\ \E o \in Ops, k \in Key, v \in Value \cup {NoValue} :
       /\ (o = "put") <=> (v # NoValue)
       /\ Become(p, [h[p] EXCEPT !.pc = IF o \in {"get", "remove"} THEN "seek" ELSE "walk",
                                 !.op = o, !.key = k, !.val = v,
                                 !.left = @ - 1])
  /\ UNCHANGED <<branch, blob, size, mutex, crashes>>

-----------------------------------------------------------------------------
(* goLeft / goRight. *)

\* The unlocked look at the link.
Go(p) ==
  /\ h[p].pc = "walk"
  /\ LET i == Link(branch[h[p].cursor], NextBit(h[p])) IN
       Become(p, IF i # 0 THEN Moved(h[p], i) ELSE [h[p] EXCEPT !.pc = "claim"])
  /\ UNCHANGED <<branch, blob, size, mutex, crashes>>

\* Mutant: the second look and the append are not under the mutex.
ClaimUnlocked(p) ==
  /\ h[p].pc = "claim"
  /\ LET b == branch[h[p].cursor] IN
       Become(p, IF Link(b, NextBit(h[p])) # 0
                 THEN Moved([h[p] EXCEPT !.pc = "walk"], Link(b, NextBit(h[p])))
                 ELSE [h[p] EXCEPT !.pc = "append", !.copy = b, !.fresh = size])
  /\ UNCHANGED <<branch, blob, size, mutex, crashes>>

\* Mutant: no second look once the mutex is held.
ClaimBlind(p) ==
  /\ h[p].pc = "claim"
  /\ mutex = NoProc
  /\ mutex' = p
  /\ Become(p, [h[p] EXCEPT !.pc = "append", !.copy = branch[h[p].cursor],
                            !.fresh = size])
  /\ UNCHANGED <<branch, blob, size, crashes>>

\* The second look, under the mutex: the link may be there by now.  If not,
\* getNextIndex starts, and finds the end of the file.
Claim(p) ==
  /\ h[p].pc = "claim"
  /\ mutex = NoProc
  /\ LET b == branch[h[p].cursor]
         i == Link(b, NextBit(h[p])) IN
       IF i # 0
       THEN /\ Become(p, Moved([h[p] EXCEPT !.pc = "walk"], i))
            /\ UNCHANGED mutex
       ELSE /\ Become(p, [h[p] EXCEPT !.pc = "append", !.copy = b, !.fresh = size])
            /\ mutex' = p
  /\ UNCHANGED <<branch, blob, size, crashes>>

\* getNextIndex writes the new branch.
GetNextIndex(p) ==
  /\ h[p].pc = "append"
  /\ branch' = Written(branch, h[p].fresh, NewBranch(h[p].cursor))
  /\ size' = SizeAfter(h[p].fresh)
  /\ Become(p, [h[p] EXCEPT !.pc = "link"])
  /\ UNCHANGED <<blob, mutex, crashes>>

\* Mutant: goRight stores the left link.
SetLinkLeft(p) ==
  /\ h[p].pc = "link"
  /\ branch' = [branch EXCEPT ![h[p].cursor] = WithLink(h[p].copy, 0, h[p].fresh)]
  /\ mutex' = NoProc
  /\ Become(p, Moved([h[p] EXCEPT !.pc = "walk", !.copy = NewBranch(0), !.fresh = 0],
                     h[p].fresh))
  /\ UNCHANGED <<blob, size, crashes>>

\* Mutant: the mutex is not released.
SetLinkNoUnlock(p) ==
  /\ h[p].pc = "link"
  /\ branch' = [branch EXCEPT ![h[p].cursor] =
                  WithLink(h[p].copy, NextBit(h[p]), h[p].fresh)]
  /\ Become(p, Moved([h[p] EXCEPT !.pc = "walk", !.copy = NewBranch(0), !.fresh = 0],
                     h[p].fresh))
  /\ UNCHANGED <<blob, size, mutex, crashes>>

\* setBranch writes the copy read in Claim with the new link, and the lock
\* goes out of scope.
SetLink(p) ==
  /\ h[p].pc = "link"
  /\ branch' = [branch EXCEPT ![h[p].cursor] =
                  WithLink(h[p].copy, NextBit(h[p]), h[p].fresh)]
  /\ mutex' = NoProc
  /\ Become(p, Moved([h[p] EXCEPT !.pc = "walk", !.copy = NewBranch(0), !.fresh = 0],
                     h[p].fresh))
  /\ UNCHANGED <<blob, size, crashes>>

-----------------------------------------------------------------------------
(* setData. *)

\* Mutant: setData without Path::ScopedLock.
LoadUnlocked(p) ==
  /\ h[p].pc = "load"
  /\ LET b == branch[h[p].cursor]
         r == [h[p] EXCEPT !.copy = b, !.locked = TRUE] IN
       Become(p, IF b.data = 0 THEN [r EXCEPT !.pc = "allocate"]
                 ELSE IF blob[b.data].size = SizeOf[r.val] THEN [r EXCEPT !.pc = "rewrite"]
                 ELSE [r EXCEPT !.pc = "wipe", !.todo = <<r.cursor>>, !.copy.data = 0])
  /\ UNCHANGED <<branch, blob, size, mutex, crashes>>

\* Mutant: data is overwritten in place whatever its size.
LoadAnySize(p) ==
  /\ h[p].pc = "load"
  /\ ~PathLocked(p, h[p].cursor)
  /\ LET b == branch[h[p].cursor] IN
       Become(p, [h[p] EXCEPT !.copy = b, !.locked = TRUE,
                              !.pc = IF b.data = 0 THEN "allocate" ELSE "rewrite"])
  /\ UNCHANGED <<branch, blob, size, mutex, crashes>>

\* Path::ScopedLock, getBranch and the look at the current data.  Nothing
\* is written when the data is already there.
Load(p) ==
  /\ h[p].pc = "load"
  /\ ~PathLocked(p, h[p].cursor)
  /\ LET b == branch[h[p].cursor]
         r == [h[p] EXCEPT !.copy = b, !.locked = TRUE] IN
       \/ /\ b.data = 0
          /\ Become(p, [r EXCEPT !.pc = "allocate"])
       \/ /\ b.data # 0
          /\ blob[b.data].size # SizeOf[r.val]
          /\ Become(p, [r EXCEPT !.pc = "wipe", !.todo = <<r.cursor>>, !.copy.data = 0])
       \/ /\ b.data # 0
          /\ blob[b.data].size = SizeOf[r.val]
          /\ blob[b.data].body # r.val
          /\ Become(p, [r EXCEPT !.pc = "rewrite"])
       \/ /\ b.data # 0
          /\ blob[b.data].size = SizeOf[r.val]
          /\ blob[b.data].body = r.val
          /\ Become(p, Idle(r))
  /\ UNCHANGED <<branch, blob, size, mutex, crashes>>

\* Mutant: allocate does not take the mutex.
AllocateUnlocked(p) ==
  /\ h[p].pc = "allocate"
  /\ Become(p, [h[p] EXCEPT !.pc = "header", !.fresh = size])
  /\ UNCHANGED <<branch, blob, size, mutex, crashes>>

\* allocate takes the mutex and finds the end of the file.
Allocate(p) ==
  /\ h[p].pc = "allocate"
  /\ mutex = NoProc
  /\ mutex' = p
  /\ Become(p, [h[p] EXCEPT !.pc = "header", !.fresh = size])
  /\ UNCHANGED <<branch, blob, size, crashes>>

\* Its first write, the size.
WriteHeader(p) ==
  /\ h[p].pc = "header"
  /\ blob' = Written(blob, h[p].fresh, [size |-> SizeOf[h[p].val], body |-> NoValue])
  /\ size' = SizeAfter(h[p].fresh)
  /\ Become(p, [h[p] EXCEPT !.pc = "payload"])
  /\ UNCHANGED <<branch, mutex, crashes>>

\* Its second write, the bytes; then the mutex is released.
WritePayload(p) ==
  /\ h[p].pc = "payload"
  /\ blob' = [blob EXCEPT ![h[p].fresh].body = h[p].val]
  /\ mutex' = NoProc
  /\ Become(p, [h[p] EXCEPT !.pc = "store"])
  /\ UNCHANGED <<branch, size, crashes>>

\* setBranch writes the copy read in Load back, whole.
SetBranch(p) ==
  /\ h[p].pc = "store"
  /\ branch' = [branch EXCEPT ![h[p].cursor] = [h[p].copy EXCEPT !.data = h[p].fresh]]
  /\ Become(p, Idle(h[p]))
  /\ UNCHANGED <<blob, size, mutex, crashes>>

\* Data of the same size is overwritten in place.
Rewrite(p) ==
  /\ h[p].pc = "rewrite"
  /\ blob' = [blob EXCEPT ![h[p].copy.data] =
                [size |-> SizeOf[h[p].val], body |-> h[p].val]]
  /\ Become(p, Idle(h[p]))
  /\ UNCHANGED <<branch, size, mutex, crashes>>

-----------------------------------------------------------------------------
(* deleteData and deleteBranch: reads and writes without any lock.  The    *)
(* branch at the head of todo is the one being deleted.                    *)

\* What follows once the data of the branch at the head of todo is gone:
\* setData goes on to allocate; clear() goes on to the children of its own
\* branch; deleteBranch goes on to unlink the branch.
Wiped(r) ==
  IF r.op = "put" THEN [r EXCEPT !.pc = "allocate", !.todo = <<>>]
  ELSE IF r.op = "remove" \/ Head(r.todo) # r.cursor THEN [r EXCEPT !.pc = "detach"]
  ELSE IF Tail(r.todo) = <<>> THEN Idle(r)
  ELSE [r EXCEPT !.pc = "wipe", !.todo = Tail(@)]

DeleteDataRead(p) ==
  /\ h[p].pc = "wipe"
  /\ LET b == branch[Head(h[p].todo)] IN
       Become(p, IF b.data = 0 THEN Wiped(h[p])
                 ELSE [h[p] EXCEPT !.pc = "wiping", !.spare = b])
  /\ UNCHANGED <<branch, blob, size, mutex, crashes>>

DeleteDataWrite(p) ==
  /\ h[p].pc = "wiping"
  /\ branch' = [branch EXCEPT ![Head(h[p].todo)] = [h[p].spare EXCEPT !.data = 0]]
  /\ Become(p, Wiped([h[p] EXCEPT !.spare = NewBranch(0)]))
  /\ UNCHANGED <<blob, size, mutex, crashes>>

\* Path::clear(): the branches to delete are chosen from one read.
Clear(p) ==
  /\ h[p].pc = "clear"
  /\ LET b == branch[h[p].cursor]
         todo == (IF b.data # 0 THEN <<h[p].cursor>> ELSE <<>>) \o Children(b) IN
       Become(p, IF todo = <<>> THEN Idle(h[p])
                 ELSE [h[p] EXCEPT !.pc = "wipe", !.todo = todo])
  /\ UNCHANGED <<branch, blob, size, mutex, crashes>>

\* Mutant: lastBit is not taken at the last branch with two links.
TraceNoSide(p) ==
  /\ h[p].pc = "trace"
  /\ LET b == branch[h[p].cursor]
         r == [h[p] EXCEPT !.cursor = Link(b, NextBit(h[p])), !.pos = @ + 1,
                           !.pc = IF h[p].pos + 1 < Len(h[p].key) THEN "trace" ELSE "prune"] IN
       Become(p, IF b.left # 0 /\ b.right # 0 THEN [r EXCEPT !.fork = h[p].cursor] ELSE r)
  /\ UNCHANGED <<branch, blob, size, mutex, crashes>>

\* Mutant: clear(value) deletes from the first branch on, not from the last one
\* with two links.
TraceNoFork(p) ==
  /\ h[p].pc = "trace"
  /\ Become(p, [h[p] EXCEPT !.cursor = Link(branch[h[p].cursor], NextBit(h[p])),
                            !.pos = @ + 1,
                            !.pc = IF h[p].pos + 1 < Len(h[p].key) THEN "trace" ELSE "prune"])
  /\ UNCHANGED <<branch, blob, size, mutex, crashes>>

\* clear(value) walks the key again, to find the last branch with two links
\* and the side the key takes there.  A link gone since contains saw it reads
\* as 0, which is the root.
Trace(p) ==
  /\ h[p].pc = "trace"
  /\ LET b == branch[h[p].cursor]
         r == [h[p] EXCEPT !.cursor = Link(b, NextBit(h[p])), !.pos = @ + 1,
                           !.pc = IF h[p].pos + 1 < Len(h[p].key) THEN "trace" ELSE "prune"] IN
       Become(p, IF b.left # 0 /\ b.right # 0
                 THEN [r EXCEPT !.fork = h[p].cursor, !.side = NextBit(h[p])]
                 ELSE r)
  /\ UNCHANGED <<branch, blob, size, mutex, crashes>>

\* The branch on that side is deleted, whatever it is by now.
Prune(p) ==
  /\ h[p].pc = "prune"
  /\ Become(p, [h[p] EXCEPT !.pc = "wipe",
                            !.todo = <<Link(branch[h[p].fork], h[p].side)>>])
  /\ UNCHANGED <<branch, blob, size, mutex, crashes>>

\* The recursion of deleteBranch, with b its local variable `branch'.
Descended(r, b) ==
  LET todo == Children(b) \o Tail(r.todo) IN
    IF todo = <<>> THEN Idle(r)
    ELSE [r EXCEPT !.pc = "wipe", !.todo = todo,
                   !.copy = NewBranch(0), !.spare = NewBranch(0)]

\* deleteBranch reads the branch again; the root has no parent to unlink it
\* from ...
DeleteBranchRead(p) ==
  /\ h[p].pc = "detach"
  /\ LET b == branch[Head(h[p].todo)] IN
       Become(p, IF Head(h[p].todo) = 0 THEN Descended(h[p], b)
                 ELSE [h[p] EXCEPT !.pc = "parent", !.spare = b])
  /\ UNCHANGED <<branch, blob, size, mutex, crashes>>

\* ... reads its parent, ...
DeleteBranchParent(p) ==
  /\ h[p].pc = "parent"
  /\ Become(p, [h[p] EXCEPT !.pc = "unlink", !.copy = branch[h[p].spare.parent]])
  /\ UNCHANGED <<branch, blob, size, mutex, crashes>>

\* Mutant: the deleted branch, not its parent, is written at the parent.
DeleteBranchOver(p) ==
  /\ h[p].pc = "unlink"
  /\ branch' = [branch EXCEPT ![h[p].spare.parent] =
                  WithoutLink(h[p].spare, Head(h[p].todo))]
  /\ Become(p, Descended(h[p], h[p].spare))
  /\ UNCHANGED <<blob, size, mutex, crashes>>

\* ... writes the parent back without the link, and recurses.
DeleteBranchWrite(p) ==
  /\ h[p].pc = "unlink"
  /\ branch' = [branch EXCEPT ![h[p].spare.parent] =
                  WithoutLink(h[p].copy, Head(h[p].todo))]
  /\ Become(p, Descended(h[p], h[p].spare))
  /\ UNCHANGED <<blob, size, mutex, crashes>>

-----------------------------------------------------------------------------
(* contains and getData: reads without any lock. *)

ContainsBit(p) ==
  /\ h[p].pc = "seek"
  /\ LET i == Link(branch[h[p].cursor], NextBit(h[p])) IN
       Become(p, IF i = 0 THEN Idle(h[p]) ELSE Moved(h[p], i))
  /\ UNCHANGED <<branch, blob, size, mutex, crashes>>

GetBranch(p) ==
  /\ h[p].pc = "fetch"
  /\ LET b == branch[h[p].cursor] IN
       Become(p, IF b.data = 0 THEN Idle(h[p])
                 ELSE [h[p] EXCEPT !.pc = "read", !.copy = b])
  /\ UNCHANGED <<branch, blob, size, mutex, crashes>>

GetData(p) ==
  /\ h[p].pc = "read"
  /\ Become(p, Idle(h[p]))
  /\ UNCHANGED <<branch, blob, size, mutex, crashes>>

-----------------------------------------------------------------------------
(* A crash of every process, or of the machine, between any two accesses:  *)
(* what was written stays, the handles and the shared memory that holds    *)
(* the mutexes are gone (removed by a reboot or by the -reset option).     *)
Crash ==
  /\ crashes < MaxCrashes
  /\ crashes' = crashes + 1
  /\ mutex' = NoProc
  /\ h' = [p \in Proc |-> Closed(h[p].left)]
  /\ UNCHANGED <<branch, blob, size>>

\* Every handle has done its work.
Finished ==
  /\ \A p \in Proc : h[p].pc = "idle" /\ h[p].left = 0
  /\ UNCHANGED vars

Walk(p) == Go(p) \/ Claim(p) \/ GetNextIndex(p) \/ SetLink(p)

SetData(p) ==
  \/ Load(p) \/ Allocate(p) \/ WriteHeader(p) \/ WritePayload(p)
  \/ SetBranch(p) \/ Rewrite(p)

Delete(p) ==
  \/ Clear(p) \/ Trace(p) \/ Prune(p) \/ DeleteDataRead(p) \/ DeleteDataWrite(p)
  \/ DeleteBranchRead(p) \/ DeleteBranchParent(p) \/ DeleteBranchWrite(p)

Read(p) == ContainsBit(p) \/ GetBranch(p) \/ GetData(p)

Work(p) == Walk(p) \/ SetData(p) \/ Delete(p) \/ Read(p)

Step(p) == Open(p) \/ Create(p) \/ Start(p) \/ Work(p)

Next == (\E p \in Proc : Step(p)) \/ Crash \/ Finished

Spec == Init /\ [][Next]_vars

\* A thread that is in the middle of something is scheduled again.
FairSpec == Spec /\ \A p \in Proc : WF_vars(Open(p) \/ Create(p) \/ Work(p))

-----------------------------------------------------------------------------
(* Properties. *)

\* Type correctness.
TypeOK ==
  /\ DOMAIN branch \subseteq Nat /\ branch \in [DOMAIN branch -> Branch]
  /\ DOMAIN blob \subseteq Nat /\ blob \in [DOMAIN blob -> Blob]
  /\ size \in Nat
  /\ mutex \in Proc \cup {NoProc}
  /\ h \in [Proc -> Handle]
  /\ crashes \in Nat

\* i is a branch of br whose parent is n, written after n.
ChildOf(br, n, i) == i \in DOMAIN br /\ br[i].parent = n /\ n < i

\* b can stand in the file as branch n: its links lead to two different
\* children of n, its data index to a data record that is complete.
SoundAt(br, bl, n, b) ==
  /\ b.left # 0 => ChildOf(br, n, b.left)
  /\ b.right # 0 => ChildOf(br, n, b.right)
  /\ b.left = b.right => b.left = 0
  /\ b.data # 0 => b.data \in DOMAIN bl /\ bl[b.data].body # NoValue

\* Whatever the interleaving of the handles, their unlocked reads and their
\* writes of stale copies, and wherever a crash strikes, the file is a forest:
\* records do not overlap, every link leads to a branch that names the branch
\* it was reached from as its parent, no two links lead to the same branch, no
\* walk down returns, and no data index leads to a record half written.
WellFormed ==
  /\ DOMAIN branch \cup DOMAIN blob = 0 .. (size - 1)
  /\ DOMAIN branch \cap DOMAIN blob = {}
  /\ \A n \in DOMAIN branch : SoundAt(branch, blob, n, branch[n])

\* b can have been read from branch n of br, bl, or be about to become it.
CopyOf(br, bl, n, b) == SoundAt(br, bl, n, b) /\ b.parent = br[n].parent

Holding   == {"append", "link", "header", "payload"}
Copying   == {"append", "link", "allocate", "header", "payload", "store",
              "rewrite", "read"}
Deleting  == {"wipe", "wiping", "detach", "parent", "unlink"}

\* What handle p, in state r, has in hand while the file is br, bl, sz and the
\* mutex mx: it stands on a branch of the file, its copies are what some branch
\* could be, the record it is appending is its own because it holds the mutex.
HandleOK(br, bl, sz, mx, p, r) ==
  /\ r.pc \notin {"closed", "create"} => 0 \in DOMAIN br /\ r.cursor \in DOMAIN br
  /\ r.pc \in {"closed", "create", "idle"} => r.pos = 0
  /\ r.pc \in {"walk", "claim", "append", "link", "seek", "trace"} => r.pos < Len(r.key)
  /\ r.pc \in {"load", "allocate", "header", "payload", "store", "rewrite"} =>
       r.op = "put"
  /\ r.pc \in {"clear", "detach", "parent", "unlink"} => r.op # "put"
  /\ r.pc \in {"trace", "prune"} => r.op = "remove" /\ r.fork \in DOMAIN br
  /\ r.op = "put" => r.val \in Value
  /\ r.pc \in Holding => mx = p
  /\ r.pc \in Copying \/ (r.pc \in {"wipe", "wiping"} /\ r.op = "put") =>
       CopyOf(br, bl, r.cursor, r.copy)
  /\ r.pc \in {"append", "header"} => r.fresh = sz
  /\ r.pc = "link" => /\ ChildOf(br, r.cursor, r.fresh)
                      /\ r.fresh \notin {r.copy.left, r.copy.right}
  /\ r.pc = "payload" => r.fresh \in DOMAIN bl
  /\ r.pc = "store" => r.fresh \in DOMAIN bl /\ bl[r.fresh].body # NoValue
  /\ r.pc = "rewrite" => r.copy.data # 0 /\ bl[r.copy.data].size = SizeOf[r.val]
  /\ r.pc \in Deleting => r.todo # <<>>
  /\ \A i \in 1 .. Len(r.todo) : r.todo[i] \in DOMAIN br
  /\ r.pc \in {"wiping", "parent", "unlink"} => CopyOf(br, bl, Head(r.todo), r.spare)
  /\ r.pc = "unlink" => CopyOf(br, bl, r.spare.parent, r.copy)

\* The inductive invariant behind WellFormed and ExtentsFixed.
Inv ==
  /\ TypeOK
  /\ WellFormed
  /\ size > 0 => 0 \in DOMAIN branch
  /\ \A n \in DOMAIN branch : branch[n].parent \in DOMAIN branch
  /\ \A p \in Proc : HandleOK(branch, blob, size, mutex, p, h[p])

\* No write moves a record, changes the parent of a branch or the length of a
\* data record, or leaves a complete data record incomplete.
RecordsKept ==
  /\ \A i \in DOMAIN branch :
       i \in DOMAIN branch' /\ branch'[i].parent = branch[i].parent
  /\ \A i \in DOMAIN blob :
       /\ i \in DOMAIN blob'
       /\ blob'[i].size = blob[i].size
       /\ blob[i].body # NoValue => blob'[i].body # NoValue

\* A write never lands on a record it does not belong to: an append on a record
\* another handle has appended, a branch written back from a stale copy on
\* another branch, data written in place past the end of its record.
ExtentsFixed == [][RecordsKept]_vars

\* The copies of branches in the file and in the local variables of handles,
\* each as <<the branch it is a copy of, its data index>>.
DataRefs ==
  {<<n, branch[n].data>> : n \in DOMAIN branch} \cup
  {<<h[p].cursor, h[p].copy.data>> :
     p \in {q \in Proc : h[q].pc \in {"allocate", "header", "payload", "store",
                                      "rewrite", "read", "append", "link"}}} \cup
  {<<h[p].spare.parent, h[p].copy.data>> :
     p \in {q \in Proc : h[q].pc = "unlink"}}

\* A data record belongs to one branch for ever: neither the file nor a stale
\* copy a handle is about to use or to write back leads from two branches to
\* one record, so setData's overwriting in place never changes the data of
\* another key and getData never returns it.
DataPrivate ==
  \A r1, r2 \in DataRefs : r1[2] = r2[2] /\ r1[2] # 0 => r1[1] = r2[1]

\* The branch a walk of the bits k from the root reaches: f[i] after i bits,
\* 0 (never the target of a link) once a link is missing.
NodeAt(k) ==
  LET f[i \in 0 .. Len(k)] ==
        IF i = 0 THEN 0
        ELSE IF f[i-1] \notin DOMAIN branch \/ (i > 1 /\ f[i-1] = 0) THEN 0
        ELSE Link(branch[f[i-1]], k[i])
  IN f[Len(k)]

\* Two handles that write the same bits stand on the same branch: every handle
\* stands where a walk of its bits from the root leads now, whatever the others
\* inserted since it passed.
CursorAtKey ==
  \A p \in Proc : h[p].pos > 0 =>
    h[p].cursor = NodeAt(SubSeq(h[p].key, 1, h[p].pos))

\* "A zero is stored if the branch hasnt been visited yet": as long as nothing
\* is deleted, a link once stored stays.
LinksStay ==
  [][\A n \in DOMAIN branch :
       /\ branch[n].left # 0 => branch'[n].left = branch[n].left
       /\ branch[n].right # 0 => branch'[n].right = branch[n].right]_vars

\* The data found under key k, and the value a handle that holds the path lock
\* is putting there.
DataAt(k) ==
  LET n == NodeAt(k) IN
    IF n = 0 THEN NoValue
    ELSE IF branch[n].data = 0 THEN NoValue
    ELSE blob[branch[n].data].body

PendingAt(k) ==
  LET writers == {p \in Proc : h[p].locked /\ h[p].key = k} IN
    IF writers = {} THEN NoValue ELSE h[CHOOSE p \in writers : TRUE].val

\* "Key 1 cleared": once clear(value) has run, its key is gone.
KeyCleared ==
  [][\A p \in Proc, k \in Key :
       h[p].op = "remove" /\ h[p].key = k /\ h[p].pc # "idle" /\ h'[p].pc = "idle" =>
         NodeAt(k)' = 0]_vars

\* "Key 2 remains": clear(value) of one key takes no other key out of the tree.
OthersRemain ==
  [][\A k \in Key : NodeAt(k) # 0 /\ NodeAt(k)' = 0 =>
       \E p \in Proc : h[p].key = k /\ h[p].op = "remove"]_vars

Store == INSTANCE KeyValue WITH
           store <- [k \in Key |-> DataAt(k)],
           pending <- [k \in Key |-> PendingAt(k)]

\* With keys none of which extends another (what the encodings produce) the
\* branch file implements the store of KeyValue: puts under one key take
\* effect one after the other, and no insertion, put or crash elsewhere in the
\* tree takes a value away.
ImplementsStore == Store!Spec

\* Every operation a handle starts comes to its end: no wait for the mutex or
\* for a path lock lasts for ever.
OperationsEnd ==
  \A p \in Proc : h[p].pc \notin {"closed", "idle"} ~> h[p].pc = "idle"
=============================================================================
