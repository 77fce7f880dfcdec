------------------------------ MODULE Document ------------------------------
(***************************************************************************)
(* JSON documents in the tree of keys (src/code/Database/JSONPath.hpp) and *)
(* the parser that writes them (JSONPathParser.hpp).  A document is a node *)
(* with a type and, under it, its children by position, its properties and *)
(* their positions, and the pages of a string.  Three indexes go with      *)
(* them: the objects below each node, the owners of each property, and the *)
(* words.                                                                  *)
(*                                                                         *)
(* A call is a frame on its thread's stack; a step runs the top frame and  *)
(* puts the frames of the calls it makes in its place.  A step reads and   *)
(* writes at most one key that another thread may write, and whatever only *)
(* the holder of the node's lock may.  The keys themselves, and the lock,  *)
(* are those of Database and LockFile.                                     *)
(***************************************************************************)
EXTENDS Integers, FiniteSets, Sequences, SequencesExt

CONSTANTS
  Proc,       \* the threads
  NoProc,     \* the holder of a free lock
  MaxNode,    \* bound: the last node
  Operations, \* what may be written: [start, value, group]; two operations run at
              \* once only if they are of one group, and not "alone"
  MaxOps,     \* bound: operations
  Early,      \* bound: two run at once only among the first
  UserId      \* the user "my" stands for

ASSUME DocumentAssumption == MaxNode \in Nat /\ MaxOps \in Nat /\ Early \in Nat /\ NoProc \notin Proc

Blank == "_"   \* what separates words

Node == 0 .. MaxNode

VARIABLES
  doc,      \* node -> what is stored at it
  size,     \* nodes in use
  objects,  \* objects(): <<ancestor, node>>
  owners,   \* properties(): <<property, node>>
  words,    \* words(): <<word, node>> -> count
  held,     \* node -> [by, depth]: its lock
  stack,    \* thread -> frames
  reg,      \* thread -> [start, got, count, part, kept, paths, indexes, keys, types]
  left,     \* operations that may still start
  busy,     \* thread -> "idle", or the group of its operation
  log,      \* what was started since the documents were last at rest
  before,   \* what was to be read when the documents were last at rest
  astray    \* the <<word, node>> whose count may be too low: see Meet and Across

store == <<doc, size, objects, owners, words>>
course == <<left, busy, log, before>>
history == <<course, astray>>
vars == <<store, held, stack, reg, history>>

-----------------------------------------------------------------------------
(* Nodes. *)

None == [x \in {} |-> 0]

NewNode(up, at) ==
  [up |-> up, at |-> at, type |-> "undefined", names |-> None, slots |-> None,
   count |-> 0, kids |-> None, pages |-> <<>>, indexed |-> FALSE, cascaded |-> FALSE]

Put(f, k, v) == [x \in DOMAIN f \cup {k} |-> IF x = k THEN v ELSE f[x]]
Drop(f, k) == [x \in DOMAIN f \ {k} |-> f[x]]

IsRoot(n) == n = 0

\* parent()
Up(n) == doc[n].up

\* isUserRoot()
IsUserRoot(n) == IsRoot(n) \/ IsRoot(Up(n)) \/ IsRoot(Up(Up(n)))

\* The nodes from n up whose words are counted: not the root, not an origin.
Chain(n) ==
  LET f[k \in Nat] == IF IsRoot(k) \/ IsRoot(Up(k)) THEN <<>> ELSE <<k>> \o f[Up(k)]
  IN f[n]

\* The property a node has in its parent, when that is an object.
KeyOf(n) == doc[Up(n)].slots[doc[n].at]
IsProperty(n) == doc[Up(n)].type = "object"

\* The words of the properties above n, up to the user's root.
KeyWords(n) ==
  LET f[k \in Nat] == IF IsUserRoot(k) THEN <<>>
                      ELSE (IF IsProperty(k) THEN << <<KeyOf(k)>> >> ELSE <<>>) \o f[Up(k)]
  IN f[n]

\* contains(property)
HasProperty(n, x) ==
  /\ doc[n].type = "object"
  /\ \E m \in Node : <<x, m>> \in owners
  /\ x \in DOMAIN doc[n].names

-----------------------------------------------------------------------------
(* Words. *)

\* The words of a text, in order.
Split(text) ==
  LET f[i \in 0 .. Len(text)] ==   \* <<words before, word under way>>
        IF i = 0 THEN << <<>>, <<>> >>
        ELSE LET s == f[i - 1] IN
             IF text[i] # Blank THEN <<s[1], Append(s[2], text[i])>>
             ELSE IF s[2] = <<>> THEN s ELSE <<Append(s[1], s[2]), <<>> >>
      s == f[Len(text)]
  IN IF s[2] = <<>> THEN s[1] ELSE Append(s[1], s[2])

\* Mutant: a word that goes on in the next page is cut.
TokeniseCut(part, page, final) ==
  [words |-> SetToSeq(Range(Split(part \o page))), part |-> <<>>]

\* tokenise(partWord, isFinalWord): the words of a page, without duplicates,
\* and the word left over for the next page.
Tokenise(part, page, final) ==
  LET all == Split(part \o page)
      keep == final \/ all = <<>>
  IN [words |-> SetToSeq(Range(IF keep THEN all ELSE Front(all))),
      part  |-> IF keep THEN <<>> ELSE Last(all)]

\* The counts a list of words touches.
WordFirst(n, ws) ==
  FlattenSeq([i \in 1 .. Len(ws) |-> [j \in 1 .. Len(Chain(n)) |-> <<ws[i], Chain(n)[j]>>]])
NodeFirst(n, ws) ==
  FlattenSeq([j \in 1 .. Len(Chain(n)) |-> [i \in 1 .. Len(ws) |-> <<ws[i], Chain(n)[j]>>]])

\* The words of the pages of a string from page k on, read after part.
PageWords(pages, k, part) ==
  LET f[i \in (k - 1) .. Len(pages)] ==
        IF i = k - 1 THEN [words |-> <<>>, part |-> part]
        ELSE LET t == Tokenise(f[i - 1].part, pages[i], i = Len(pages))
             IN [words |-> f[i - 1].words \o t.words, part |-> t.part]
  IN f[Max({k - 1, Len(pages)})].words

-----------------------------------------------------------------------------
(* Frames. *)

F(do, n, arg) == [do |-> do, n |-> n, arg |-> arg]

At(p, do) == stack[p] # <<>> /\ Head(stack[p]).do = do
Top(p) == Head(stack[p])

\* The top frame is replaced by the calls it makes.
Call(p, frames) == stack' = [stack EXCEPT ![p] = frames \o Tail(@)]

\* A step that only calls, and one that writes to the documents and returns.
Calls(p, frames) == Call(p, frames) /\ UNCHANGED <<store, held, reg, history>>
Sets(p, d) ==
  doc' = d /\ Call(p, <<>>) /\ UNCHANGED <<size, objects, owners, words, held, reg, history>>

\* Path::ScopedLock around some calls.
Locked(n, frames) == <<F("lock", n, 0)>> \o frames \o <<F("unlock", n, 0)>>

SetType(n, t) == Locked(n, <<F("retype", n, t)>>)
Property(n, x) == SetType(n, "object") \o <<F("find", n, x)>>
AddWords(n, ws) == <<F("add", n, NodeFirst(n, ws))>>
RemoveWords(n, ws) == <<F("take", n, WordFirst(n, ws))>>

Lock(p) ==
  /\ At(p, "lock")
  /\ held[Top(p).n].by \in {NoProc, p}
  /\ held' = [held EXCEPT ![Top(p).n] = [by |-> p, depth |-> @.depth + 1]]
  /\ Call(p, <<>>)
  /\ UNCHANGED <<store, reg, history>>

\* Mutant: the lock stays with the thread that gave it back.
UnlockKept(p) ==
  /\ At(p, "unlock")
  /\ held' = [held EXCEPT ![Top(p).n].depth = @ - 1]
  /\ Call(p, <<>>)
  /\ UNCHANGED <<store, reg, history>>

Unlock(p) ==
  /\ At(p, "unlock")
  /\ held' = [held EXCEPT ![Top(p).n] =
                IF @.depth = 1 THEN [by |-> NoProc, depth |-> 0] ELSE [@ EXCEPT !.depth = @ - 1]]
  /\ Call(p, <<>>)
  /\ UNCHANGED <<store, reg, history>>

\* An exception unwinds the thread's calls: its locks are released.
Throw(p) ==
  /\ stack' = [stack EXCEPT ![p] = <<>>]
  /\ held' = [n \in Node |-> IF held[n].by = p THEN [by |-> NoProc, depth |-> 0] ELSE held[n]]

-----------------------------------------------------------------------------
(* Types and the index of objects. *)

\* setType, under the lock.
Retype(p) ==
  /\ At(p, "retype")
  /\ LET n == Top(p).n
         t == Top(p).arg IN
     \/ /\ doc[n].type = "undefined"
        /\ doc' = [doc EXCEPT ![n].type = t]
        /\ Call(p, <<F("addObject", n, n)>>)
     \/ /\ doc[n].type \notin {"undefined", t}
        /\ Call(p, <<F("clear", n, 0), Top(p)>>)
        /\ UNCHANGED doc
     \/ /\ doc[n].type = t
        /\ Call(p, <<>>)
        /\ UNCHANGED doc
  /\ UNCHANGED <<size, objects, owners, words, held, reg, history>>

\* Mutant: each ancestor is locked for it.
AddObjectLocked(p) ==
  /\ At(p, "addObject")
  /\ LET n == Top(p).n
         a == Top(p).arg IN
     IF IsRoot(a)
     THEN Call(p, <<>>) /\ UNCHANGED objects
     ELSE /\ objects' = objects \cup {<<a, n>>}
          /\ Call(p, Locked(Up(a), <<F("addObject", n, Up(a))>>))
  /\ UNCHANGED <<doc, size, owners, words, held, reg, history>>

\* addObject: one ancestor after the other.
AddObject(p) ==
  /\ At(p, "addObject")
  /\ LET n == Top(p).n
         a == Top(p).arg IN
     IF IsRoot(a)
     THEN Call(p, <<>>) /\ UNCHANGED objects
     ELSE /\ objects' = objects \cup {<<a, n>>}
          /\ Call(p, <<F("addObject", n, Up(a))>>)
  /\ UNCHANGED <<doc, size, owners, words, held, reg, history>>

\* Mutant: the node stays in the index below its ancestors.
RemoveObjectOnly(p) ==
  /\ At(p, "removeObject")
  /\ objects' = {o \in objects : o # <<Top(p).n, Top(p).n>>}
  /\ Call(p, <<>>)
  /\ UNCHANGED <<doc, size, owners, words, held, reg, history>>

\* removeObject: one ancestor after the other, then what is below the node.
RemoveObject(p) ==
  /\ At(p, "removeObject")
  /\ LET n == Top(p).n
         a == Top(p).arg IN
     IF IsRoot(a)
     THEN /\ objects' = {o \in objects : o[1] # n}
          /\ Call(p, <<>>)
     ELSE /\ objects' = objects \ {<<a, n>>}
          /\ Call(p, <<F("removeObject", n, Up(a))>>)
  /\ UNCHANGED <<doc, size, owners, words, held, reg, history>>

-----------------------------------------------------------------------------
(* The word index: counts read and written without a lock. *)

\* An entry is written over what another thread has made of it since p read it.
Meet(p, e) ==
  astray' = IF (IF e \in DOMAIN words THEN words[e] ELSE 0) = reg[p].count THEN astray
            ELSE astray \cup {e}

\* addWords: ++ of a count, read ...
AddRead(p) ==
  /\ At(p, "add")
  /\ LET todo == Top(p).arg IN
     IF todo = <<>>
     THEN Call(p, <<>>) /\ UNCHANGED reg
     ELSE /\ reg' = [reg EXCEPT ![p].count = IF todo[1] \in DOMAIN words THEN words[todo[1]] ELSE 0]
          /\ Call(p, <<F("added", Top(p).n, todo)>>)
  /\ UNCHANGED <<store, held, history>>

\* ... and written.
AddWrite(p) ==
  /\ At(p, "added")
  /\ LET todo == Top(p).arg IN
     /\ words' = Put(words, todo[1], reg[p].count + 1)
     /\ Meet(p, todo[1])
     /\ Call(p, <<F("add", Top(p).n, Tail(todo))>>)
  /\ UNCHANGED <<doc, size, objects, owners, held, reg, course>>

\* removeWords: -- of a count that is there, read ...
TakeRead(p) ==
  /\ At(p, "take")
  /\ LET todo == Top(p).arg IN
     \/ /\ todo = <<>> /\ Call(p, <<>>) /\ UNCHANGED reg
     \/ /\ todo # <<>> /\ todo[1] \notin DOMAIN words
        /\ Call(p, <<F("take", Top(p).n, Tail(todo))>>) /\ UNCHANGED reg
     \/ /\ todo # <<>> /\ todo[1] \in DOMAIN words
        /\ reg' = [reg EXCEPT ![p].count = words[todo[1]]]
        /\ Call(p, <<F("taken", Top(p).n, todo)>>)
  /\ UNCHANGED <<store, held, history>>

\* ... written, and cleared when it is zero.
TakeWrite(p) ==
  /\ At(p, "taken")
  /\ LET todo == Top(p).arg
         rest == <<F("take", Top(p).n, Tail(todo))>> IN
     /\ Meet(p, todo[1])
     /\ \/ /\ reg[p].count > 1
           /\ words' = Put(words, todo[1], reg[p].count - 1)
           /\ Call(p, rest) /\ UNCHANGED reg
        \/ /\ reg[p].count <= 1
           /\ words' = Put(words, todo[1], 0)
           /\ reg' = [reg EXCEPT ![p].count = 0]
           /\ Call(p, <<F("drop", Top(p).n, todo[1])>> \o rest)
  /\ UNCHANGED <<doc, size, objects, owners, held, course>>

TakeClear(p) ==
  /\ At(p, "drop")
  /\ words' = Drop(words, Top(p).arg)
  /\ Meet(p, Top(p).arg)
  /\ Call(p, <<>>)
  /\ UNCHANGED <<doc, size, objects, owners, held, reg, course>>

-----------------------------------------------------------------------------
(* Properties of objects. *)

\* Mutant: the property is not looked up again under the lock.
InsertUnchecked(n, x) == TRUE

\* The look under the lock: the property is still missing.
Missing(n, x) == x \notin DOMAIN doc[n].names \/ doc[n].names[x] = 0

\* getObjectPropertyPosition: the look without the lock.
Find(p) ==
  /\ At(p, "find")
  /\ LET n == Top(p).n
         x == Top(p).arg
         there == x \in DOMAIN doc[n].names /\ doc[n].names[x] # 0 IN
     /\ doc' = IF x \in DOMAIN doc[n].names THEN doc ELSE [doc EXCEPT ![n].names = Put(@, x, 0)]
     /\ Call(p, (IF there THEN <<>> ELSE Locked(n, <<F("insert", n, x)>>)) \o <<F("child", n, x)>>)
  /\ UNCHANGED <<size, objects, owners, words, held, reg, history>>

\* The owner, the counter of children and the position, under the lock.
Insert(p) ==
  /\ At(p, "insert")
  /\ LET n == Top(p).n
         x == Top(p).arg
         position == doc[n].count + 1 IN
     IF Missing(n, x)
     THEN /\ owners' = owners \cup {<<x, n>>}
          /\ doc' = [doc EXCEPT ![n].count = position, ![n].slots = Put(@, position, x)]
          /\ Call(p, <<F("name", n, <<x, position>>), F("reach", n, position), F("index", n, 0)>>)
     ELSE Call(p, <<>>) /\ UNCHANGED <<doc, owners>>
  /\ UNCHANGED <<size, objects, words, held, reg, history>>

\* The position of the property, which the first look reads.
Name(p) ==
  /\ At(p, "name")
  /\ Sets(p, [doc EXCEPT ![Top(p).n].names = Put(@, Top(p).arg[1], Top(p).arg[2])])

\* The position read again, and the child there.
Child(p) ==
  /\ At(p, "child")
  /\ Calls(p, <<F("reach", Top(p).n, doc[Top(p).n].names[Top(p).arg])>>)

\* getChildren()[position]: a path leads to the child, new or not.
Reach(p) ==
  /\ At(p, "reach")
  /\ LET n == Top(p).n
         i == Top(p).arg IN
     \/ /\ i \in DOMAIN doc[n].kids
        /\ reg' = [reg EXCEPT ![p].got = doc[n].kids[i]]
        /\ UNCHANGED <<doc, size>>
     \/ /\ i \notin DOMAIN doc[n].kids /\ size <= MaxNode
        /\ doc' = [doc EXCEPT ![n].kids = Put(@, i, size), ![size] = NewNode(n, i)]
        /\ size' = size + 1
        /\ reg' = [reg EXCEPT ![p].got = size]
  /\ Call(p, <<>>)
  /\ UNCHANGED <<objects, owners, words, held, history>>

\* indexProperties of the child just reached.
Index(p) ==
  /\ At(p, "index")
  /\ LET c == reg[p].got IN
     Calls(p, IF doc[c].cascaded THEN <<>> ELSE Locked(c, <<F("cascade", c, 0)>>))

\* Under the lock: the words of the properties above it, once.
Cascade(p) ==
  /\ At(p, "cascade")
  /\ LET n == Top(p).n IN
     Calls(p, IF doc[n].cascaded THEN <<>>
             ELSE FlattenSeq([i \in DOMAIN KeyWords(n) |-> AddWords(n, <<KeyWords(n)[i]>>)])
                  \o <<F("cascaded", n, 0)>>)

Cascaded(p) ==
  /\ At(p, "cascaded")
  /\ Sets(p, [doc EXCEPT ![Top(p).n].cascaded = TRUE])

-----------------------------------------------------------------------------
(* Items of arrays. *)

\* operator [](index): the count is read without the lock.
Item(p) ==
  /\ At(p, "item")
  /\ LET n == Top(p).n
         i == Top(p).arg IN
     IF doc[n].type = "undefined"
     THEN Calls(p, SetType(n, "array") \o <<Top(p)>>)
     ELSE Calls(p, (IF i > doc[n].count THEN Locked(n, <<F("grow", n, i)>>) ELSE <<>>)
                  \o <<F("reach", n, i)>>)

\* Under the lock: the items up to i are made.
Grow(p) ==
  /\ At(p, "grow")
  /\ LET n == Top(p).n
         i == Top(p).arg
         made == [k \in 1 .. 2 * (i - doc[n].count) |->
                    IF k % 2 = 1 THEN F("reach", n, doc[n].count + (k + 1) \div 2)
                                 ELSE F("index", n, 0)] IN
     \/ /\ i <= doc[n].count
        /\ Call(p, <<>>) /\ UNCHANGED held
     \/ /\ i > doc[n].count /\ doc[n].type = "array"
        /\ Call(p, made \o <<F("counted", n, i)>>) /\ UNCHANGED held
     \/ /\ i > doc[n].count /\ doc[n].type # "array"
        /\ Throw(p)
  /\ UNCHANGED <<store, reg, history>>

\* children.setData(count), by operator [] and by truncateArray.
Counted(p) ==
  /\ At(p, "counted")
  /\ Sets(p, [doc EXCEPT ![Top(p).n].count = Top(p).arg])

\* truncateArray(size): the items beyond it are cleared.
Truncate(p) ==
  /\ At(p, "truncate")
  /\ LET n == Top(p).n
         beyond == {k \in DOMAIN doc[n].kids : k > Top(p).arg} IN
     IF beyond = {} THEN Calls(p, <<F("counted", n, Top(p).arg)>>)
     ELSE Calls(p, <<F("clear", doc[n].kids[Min(beyond)], 0), F("detach", n, Min(beyond)), Top(p)>>)

-----------------------------------------------------------------------------
(* Strings, a page at a time; the lock is kept until endString. *)

Page(n, k, text) == (IF k = 1 THEN SetType(n, "string") ELSE <<>>) \o <<F("page", n, <<k, text>>)>>

\* setString(value, pages): lock, pages, endString.
String(n, pages) ==
  Locked(n, FlattenSeq([k \in 1 .. Len(pages) |-> Page(n, k, pages[k])])
            \o SetType(n, "string") \o <<F("end", n, Len(pages))>>)

\* The word that goes on from page k to the next, and that neither the pages up to
\* k nor those after it have alone; and the word the latter begin with.
Across(pages, k) ==
  Range(Split(FlattenSeq(pages)))
  \ (Range(SubSeq(Split(FlattenSeq(SubSeq(pages, 1, k))), 1,
                  Len(Split(FlattenSeq(SubSeq(pages, 1, k)))) - 1))
     \cup Range(Split(FlattenSeq(SubSeq(pages, k + 1, Len(pages))))))

Fragment(pages, k) == Range(SubSeq(Split(FlattenSeq(SubSeq(pages, k + 1, Len(pages)))), 1, 1))

\* A page was kept, whose last word is not in partWord now, and the next was not.
Cut(pages, k) == k > 0 /\ Last(pages[k]) # Blank

\* setString of a page: a page that changed takes the words of the old pages
\* from there on out, and puts its own in.
SetPage(p) ==
  /\ At(p, "page")
  /\ LET n == Top(p).n
         k == Top(p).arg[1]
         text == Top(p).arg[2]
         old == doc[n].pages
         changed == k > Len(old) \/ old[k] # text
         new == Tokenise(reg[p].part, text, FALSE)
         gone == k <= Len(old) /\ changed /\ doc[n].indexed IN
     /\ Call(p, (IF gone THEN RemoveWords(n, PageWords(old, k, reg[p].part)) ELSE <<>>)
                \o <<F("write", n, <<k, text, gone>>)>>
                \o (IF changed THEN AddWords(n, new.words) ELSE <<>>))
     /\ reg' = [reg EXCEPT ![p].part = IF changed THEN new.part ELSE @,
                           ![p].kept = IF changed THEN @ ELSE k]
     /\ astray' = IF gone /\ reg[p].kept = k - 1 /\ Cut(old, k - 1)
                  THEN astray \cup (Fragment(old, k - 1) \X Range(Chain(n)))
                  ELSE astray
  /\ UNCHANGED <<store, held, course>>

\* The page itself; the old pages after it went with their words.
WritePage(p) ==
  /\ At(p, "write")
  /\ LET k == Top(p).arg[1] IN
     doc' = [doc EXCEPT ![Top(p).n].pages =
               SubSeq(@, 1, k - 1) \o <<Top(p).arg[2]>>
               \o (IF Top(p).arg[3] THEN <<>> ELSE SubSeq(@, k + 1, Len(@)))]
  /\ Call(p, <<>>)
  /\ UNCHANGED <<size, objects, owners, words, held, reg, history>>

\* endString: the word left over is one, and the pages beyond the last go.
EndString(p) ==
  /\ At(p, "end")
  /\ LET n == Top(p).n
         k == Top(p).arg
         old == doc[n].pages
         kept == reg[p].kept
         beyond == IF kept = k THEN Fragment(old, k) ELSE {} IN
     /\ Call(p, AddWords(n, Tokenise(reg[p].part, <<>>, TRUE).words)
                \o (IF doc[n].indexed /\ Len(old) > k
                    THEN RemoveWords(n, PageWords(old, k + 1, <<>>)) ELSE <<>>)
                \o <<F("ended", n, k)>>)
     /\ astray' = IF Cut(old, kept) /\ kept < Len(old)
                  THEN astray \cup ((Across(SubSeq(old, 1, k), kept) \cup beyond) \X Range(Chain(n)))
                  ELSE astray
  /\ reg' = [reg EXCEPT ![p].part = <<>>, ![p].kept = 0]
  /\ UNCHANGED <<store, held, course>>

Ended(p) ==
  /\ At(p, "ended")
  /\ Sets(p, [doc EXCEPT ![Top(p).n].pages = SubSeq(@, 1, Min({Top(p).arg, Len(@)})),
                        ![Top(p).n].indexed = TRUE])

-----------------------------------------------------------------------------
(* Clearing. *)

\* clear(), by type.
Clear(p) ==
  /\ At(p, "clear")
  /\ LET n == Top(p).n
         end == <<F("removeObject", n, n), F("wipe", n, 0)>> IN
     \/ /\ doc[n].type = "string"
        /\ Calls(p, (IF doc[n].indexed THEN RemoveWords(n, PageWords(doc[n].pages, 1, <<>>)) ELSE <<>>)
                   \o end)
     \/ /\ doc[n].type \in {"array", "object"}
        /\ Calls(p, <<F("clearNext", n, 0)>> \o end)
     \/ /\ doc[n].type \in {"undefined", "null"}
        /\ Calls(p, end)

\* The iteration over the children: an item is cleared, a property deleted.
ClearNext(p) ==
  /\ At(p, "clearNext")
  /\ LET n == Top(p).n
         after == {k \in DOMAIN doc[n].kids : k > Top(p).arg}
         k == Min(after)
         next == <<F("clearNext", n, k)>> IN
     \/ /\ after = {} /\ Calls(p, <<>>)
     \/ /\ after # {} /\ doc[n].type = "array"
        /\ Calls(p, <<F("item", n, k), F("clearGot", n, 0), F("detach", n, k)>> \o next)
     \/ /\ after # {} /\ doc[n].type = "object"
        /\ Calls(p, <<F("delete", n, doc[n].slots[k])>> \o next)

ClearGot(p) ==
  /\ At(p, "clearGot")
  /\ Calls(p, <<F("clear", reg[p].got, 0)>>)

\* getChildren().clear(position)
Detach(p) ==
  /\ At(p, "detach")
  /\ Sets(p, [doc EXCEPT ![Top(p).n].kids = Drop(@, Top(p).arg)])

\* Path::clear(): everything below the node.
Wipe(p) ==
  /\ At(p, "wipe")
  /\ Sets(p, [doc EXCEPT ![Top(p).n] = NewNode(@.up, @.at)])

\* deleteProperty: nothing unless the object has it.
Delete(p) ==
  /\ At(p, "delete")
  /\ LET n == Top(p).n
         x == Top(p).arg IN
     Calls(p, IF HasProperty(n, x) THEN Property(n, x) \o <<F("deleteGot", n, x)>> ELSE <<>>)

\* The words of the properties above the child, its position, the child, and
\* then the property's owner, its position and its child.
DeleteGot(p) ==
  /\ At(p, "deleteGot")
  /\ LET n == Top(p).n
         x == Top(p).arg
         c == reg[p].got IN
     Calls(p, FlattenSeq([i \in DOMAIN KeyWords(c) |-> RemoveWords(c, <<KeyWords(c)[i]>>)])
             \o <<F("clear", c, 0), F("forget", n, <<x, doc[n].names[x]>>)>>)

Forget(p) ==
  /\ At(p, "forget")
  /\ LET n == Top(p).n
         x == Top(p).arg[1] IN
     /\ owners' = owners \ {<<x, n>>}
     /\ doc' = [doc EXCEPT ![n].names = Drop(@, x), ![n].kids = Drop(@, Top(p).arg[2])]
  /\ Call(p, <<>>)
  /\ UNCHANGED <<size, objects, words, held, reg, history>>

\* setUndefined, under the lock of the node.
Undefine(p) ==
  /\ At(p, "undefine")
  /\ LET n == Top(p).n
         above == doc[Up(n)].type IN
     Calls(p, IF doc[n].type = "undefined" \/ IsRoot(n) THEN <<>>
             ELSE IF above = "object" THEN <<F("delete", Up(n), KeyOf(n))>>
             ELSE SetType(n, IF above = "array" THEN "null" ELSE "undefined"))

-----------------------------------------------------------------------------
(* JSONPathParser: what the parser calls while it reads a value.  A value is *)
(* <<type, of>>: the pages of a string, the items of an array, the members   *)
(* <<key, value>> of an object.                                              *)

RECURSIVE Events(_)
Events(v) ==
  LET E(do, arg) == <<F(do, 0, arg)>> IN
  CASE v[1] = "object" ->
         E("beginObject", 0)
         \o FlattenSeq([i \in DOMAIN v[2] |->
              E("objectKey", v[2][i][1]) \o Events(v[2][i][2])
              \o (IF v[2][i][2][1] = "string" THEN <<>>
                  ELSE E("objectValue", <<v[2][i][1], v[2][i][2][1]>>))])
         \o E("endObject", 0)
    [] v[1] = "array" ->
         E("beginArray", 0)
         \o FlattenSeq([i \in DOMAIN v[2] |->
              Events(v[2][i])
              \o (IF v[2][i][1] = "string" THEN <<>> ELSE E("arrayValue", v[2][i][1]))])
         \o E("endArray", 0)
    [] v[1] = "string" -> E("beginString", v[2])
    [] OTHER -> <<>>

TopPath(p) == Last(reg[p].paths)
TopIndex(p) == Last(reg[p].indexes)
InObject(p) == Last(reg[p].types) = "object"

\* The member the parser is at: path[topKey()] or path[topIndex() + 1].
Member(p) ==
  IF InObject(p) THEN Property(TopPath(p), Last(reg[p].keys))
  ELSE <<F("item", TopPath(p), TopIndex(p) + 1)>>

\* Mutant: the next item is written over the last one.
SameIndex(r) == r

NextIndex(r) == [r EXCEPT !.indexes = Append(Front(@), Last(@) + 1)]

\* onbeginobject and onbeginarray: push_back_path.
Begin(p) ==
  /\ At(p, "beginObject") \/ At(p, "beginArray")
  /\ LET push == <<F("push", 0, IF At(p, "beginObject") THEN "object" ELSE "array")>> IN
     IF reg[p].paths = <<>>
     THEN /\ reg' = [reg EXCEPT ![p].got = reg[p].start]
          /\ Call(p, push)
     ELSE Call(p, Member(p) \o push) /\ UNCHANGED reg
  /\ UNCHANGED <<store, held, history>>

Push(p) ==
  /\ At(p, "push")
  /\ LET n == reg[p].got
         t == Top(p).arg IN
     /\ Call(p, Locked(n, SetType(n, t)))
     /\ reg' = [reg EXCEPT ![p].paths = Append(@, n), ![p].types = Append(@, t),
                           ![p].indexes = IF t = "array" THEN Append(@, 0) ELSE @]
  /\ UNCHANGED <<store, held, history>>

\* onobjectkey: push_back_key.
ObjectKey(p) ==
  /\ At(p, "objectKey")
  /\ reg' = [reg EXCEPT ![p].keys = Append(@, IF Top(p).arg = "my" THEN UserId ELSE Top(p).arg)]
  /\ Call(p, <<>>)
  /\ UNCHANGED <<store, held, history>>

\* onobjectvalue, for all but strings.
ObjectValue(p) ==
  /\ At(p, "objectValue")
  /\ Call(p, Property(TopPath(p), Top(p).arg[1]) \o <<F("assign", 0, Top(p).arg[2])>>)
  /\ reg' = [reg EXCEPT ![p].keys = Front(@)]
  /\ UNCHANGED <<store, held, history>>

\* onarrayvalue, for all but strings.
ArrayValue(p) ==
  /\ At(p, "arrayValue")
  /\ Call(p, <<F("item", TopPath(p), TopIndex(p) + 1), F("assign", 0, Top(p).arg)>>)
  /\ reg' = [reg EXCEPT ![p] = NextIndex(@)]
  /\ UNCHANGED <<store, held, history>>

\* setVariable: setUndefined, setNull, setArray, setObject.
Assign(p) ==
  /\ At(p, "assign")
  /\ LET n == reg[p].got
         t == Top(p).arg IN
     Calls(p, Locked(n, IF t = "undefined" THEN <<F("undefine", n, 0)>> ELSE SetType(n, t)))

\* onbeginstring, onpartstring, onendstring.
BeginString(p) ==
  /\ At(p, "beginString")
  /\ LET text == <<F("text", 0, Top(p).arg)>> IN
     IF reg[p].paths = <<>>
     THEN /\ reg' = [reg EXCEPT ![p].got = reg[p].start]
          /\ Call(p, text)
     ELSE /\ reg' = [reg EXCEPT ![p] = IF InObject(p) THEN [@ EXCEPT !.keys = Front(@)]
                                       ELSE NextIndex(@)]
          /\ Call(p, Member(p) \o text)
  /\ UNCHANGED <<store, held, history>>

Text(p) ==
  /\ At(p, "text")
  /\ Calls(p, String(reg[p].got, Top(p).arg))

\* onendobject and onendarray: an array ends at its last item; pop_back_path.
EndObject(p) ==
  /\ At(p, "endObject")
  /\ Calls(p, <<F("pop", 0, 0)>>)

EndArray(p) ==
  /\ At(p, "endArray")
  /\ Calls(p, <<F("truncate", TopPath(p), TopIndex(p)), F("pop", 0, 0)>>)

Pop(p) ==
  /\ At(p, "pop")
  /\ reg' = [reg EXCEPT ![p].paths = Front(@), ![p].types = Front(@),
                        ![p].indexes = IF InObject(p) THEN @ ELSE Front(@)]
  /\ Call(p, <<>>)
  /\ UNCHANGED <<store, held, history>>

\* onvalue of the outermost value.
Outermost(p) ==
  /\ At(p, "value")
  /\ reg' = [reg EXCEPT ![p].got = reg[p].start]
  /\ Call(p, <<F("assign", 0, Top(p).arg)>>)
  /\ UNCHANGED <<store, held, history>>

-----------------------------------------------------------------------------
(* What is read back. *)

\* write: what a reader of the document gets.
RECURSIVE Read(_)
Read(n) ==
  LET d == doc[n] IN
  CASE d.type = "object" ->
         <<"object", [x \in {d.slots[k] : k \in DOMAIN d.kids} |-> Read(d.kids[d.names[x]])]>>
    [] d.type = "array" ->
         <<"array", [i \in 1 .. Cardinality(DOMAIN d.kids) |->
                       Read(d.kids[SetToSortSeq(DOMAIN d.kids, <)[i]])]>>
    [] d.type = "string" -> <<"string", FlattenSeq(d.pages)>>
    [] OTHER -> <<d.type, <<>>>>

\* What a document that was old becomes when v is written to it.
RECURSIVE Written(_, _)
Written(old, v) ==
  CASE v[1] = "object" ->
         <<"object",
           FoldLeft(LAMBDA f, m :
                      LET was == IF m[1] \in DOMAIN f THEN f[m[1]] ELSE <<"undefined", <<>>>> IN
                      IF m[2][1] = "undefined" /\ was[1] # "undefined" THEN Drop(f, m[1])
                      ELSE Put(f, m[1], Written(was, m[2])),
                    IF old[1] = "object" THEN old[2] ELSE None, v[2])>>
    [] v[1] = "array" ->
         <<"array", [i \in DOMAIN v[2] |->
             LET was == IF old[1] = "array" /\ i \in DOMAIN old[2] THEN old[2][i]
                        ELSE <<"undefined", <<>>>> IN
             IF v[2][i][1] = "undefined" /\ was[1] # "undefined" THEN <<"null", <<>>>>
             ELSE Written(was, v[2][i])]>>
    [] v[1] = "string" -> <<"string", FlattenSeq(v[2])>>
    [] v[1] = "at" ->
         LET items == IF old[1] = "array" THEN old[2] ELSE <<>> IN
         IF old[1] \notin {"array", "undefined"}
         THEN old   \* out of bounds
         ELSE <<"array", [i \in 1 .. Max({v[2], Len(items)}) |->
                 IF i = v[2] THEN <<"string", FlattenSeq(v[3])>>
                 ELSE IF i <= Len(items) THEN items[i] ELSE <<"undefined", <<>>>>]>>
    [] OTHER -> v

-----------------------------------------------------------------------------
(* The threads. *)

\* An operation is a value the parser reads, or <<"at", i, pages>>: the caller
\* itself puts a string at an index of the document.
CallsOf(o) ==
  CASE o.value[1] = "at" -> <<F("item", o.start, o.value[2]), F("text", 0, o.value[3])>>
    [] o.value[1] = "string" -> Events(o.value)
    [] OTHER -> Events(o.value) \o <<F("value", 0, o.value[1])>>

\* The document at rest and what may be written to it: node 0 is the root,
\* 1 an origin, 2 a user's root, where the operations start.
Start(p) ==
  /\ busy[p] = "idle" /\ left > 0
  /\ \E o \in Operations :
       /\ \A q \in Proc :
            busy[q] = "idle" \/ (busy[q] = o.group /\ o.group # "alone" /\ MaxOps - left < Early)
       /\ busy' = [busy EXCEPT ![p] = o.group]
       /\ stack' = [stack EXCEPT ![p] = CallsOf(o)]
       /\ reg' = [reg EXCEPT ![p].start = o.start]
       /\ IF \A q \in Proc : busy[q] = "idle"
          THEN log' = <<o>> /\ before' = Read(2)
          ELSE log' = Append(log, o) /\ UNCHANGED before
  /\ left' = left - 1
  /\ UNCHANGED <<store, held, astray>>

NewReg ==
  [start |-> 0, got |-> 0, count |-> 0, part |-> <<>>, kept |-> 0,
   paths |-> <<>>, indexes |-> <<>>, keys |-> <<>>, types |-> <<>>]

End(p) ==
  /\ busy[p] # "idle" /\ stack[p] = <<>>
  /\ busy' = [busy EXCEPT ![p] = "idle"]
  /\ reg' = [reg EXCEPT ![p] = NewReg]
  /\ UNCHANGED <<store, held, stack, left, log, before, astray>>

Step(p) ==
  \/ Lock(p) \/ Unlock(p) \/ Retype(p) \/ AddObject(p) \/ RemoveObject(p)
  \/ AddRead(p) \/ AddWrite(p) \/ TakeRead(p) \/ TakeWrite(p) \/ TakeClear(p)
  \/ Find(p) \/ Insert(p) \/ Name(p) \/ Child(p) \/ Reach(p)
  \/ Index(p) \/ Cascade(p) \/ Cascaded(p)
  \/ Item(p) \/ Grow(p) \/ Counted(p) \/ Truncate(p)
  \/ SetPage(p) \/ WritePage(p) \/ EndString(p) \/ Ended(p)
  \/ Clear(p) \/ ClearNext(p) \/ ClearGot(p) \/ Detach(p) \/ Wipe(p)
  \/ Delete(p) \/ DeleteGot(p) \/ Forget(p) \/ Undefine(p)
  \/ Begin(p) \/ Push(p) \/ ObjectKey(p) \/ ObjectValue(p) \/ ArrayValue(p) \/ Assign(p)
  \/ BeginString(p) \/ Text(p) \/ EndObject(p) \/ EndArray(p) \/ Pop(p) \/ Outermost(p)
  \/ End(p)

\* The root with an origin, and in it a user's root.
Init ==
  /\ doc = [n \in Node |->
              CASE n = 0 -> [NewNode(0, 0) EXCEPT !.type = "object", !.count = 1, !.cascaded = TRUE,
                               !.names = [x \in {"origin"} |-> 1], !.slots = [i \in {1} |-> "origin"],
                               !.kids = [i \in {1} |-> 1]]
                [] n = 1 -> [NewNode(0, 1) EXCEPT !.type = "object", !.count = 1, !.cascaded = TRUE,
                               !.names = [x \in {"public"} |-> 1], !.slots = [i \in {1} |-> "public"],
                               !.kids = [i \in {1} |-> 2]]
                [] n = 2 -> [NewNode(1, 1) EXCEPT !.cascaded = TRUE]
                [] OTHER -> NewNode(0, 0)]
  /\ size = 3
  /\ objects = {<<1, 1>>}
  /\ owners = {<<"origin", 0>>, <<"public", 1>>}
  /\ words = None
  /\ held = [n \in Node |-> [by |-> NoProc, depth |-> 0]]
  /\ stack = [p \in Proc |-> <<>>]
  /\ reg = [p \in Proc |-> NewReg]
  /\ left = MaxOps
  /\ busy = [p \in Proc |-> "idle"]
  /\ log = <<>> /\ before = <<"undefined", <<>>>> /\ astray = {}

Done == left = 0 /\ (\A p \in Proc : busy[p] = "idle") /\ UNCHANGED vars

Next == (\E p \in Proc : Start(p) \/ Step(p)) \/ Done

Spec == Init /\ [][Next]_vars

-----------------------------------------------------------------------------
(* Properties. *)

AtRest == \A p \in Proc : busy[p] = "idle"

\* The nodes a path from the root leads to.
Live ==
  LET f[n \in Node] ==
        \/ IsRoot(n)
        \/ doc[n].at \in DOMAIN doc[Up(n)].kids /\ doc[Up(n)].kids[doc[n].at] = n /\ f[Up(n)]
  IN {n \in 0 .. (size - 1) : f[n]}

Above(n) == LET f[k \in Nat] == IF IsRoot(k) THEN {} ELSE {k} \cup f[Up(k)] IN f[n]

\* Type correctness.
TypeOK ==
  /\ size \in Nat /\ size <= MaxNode + 1
  /\ \A n \in Node : doc[n].type \in {"undefined", "null", "string", "array", "object"}
  /\ objects \subseteq Node \X Node
  /\ \A e \in DOMAIN words : e[2] \in Node /\ words[e] \in Nat
  /\ \A n \in Node : held[n].by \in Proc \cup {NoProc} /\ (held[n].depth = 0 <=> held[n].by = NoProc)

\* getObjectPropertyPosition and deleteProperty: each property of an object has one position, which has its name, and no
\* two have the same: two threads that create a property get one child.
OnePosition ==
  \A n \in Live : doc[n].type = "object" =>
    \A x \in DOMAIN doc[n].names : doc[n].names[x] # 0 =>
      /\ doc[n].names[x] \in DOMAIN doc[n].slots
      /\ doc[n].slots[doc[n].names[x]] = x
      /\ \A i \in DOMAIN doc[n].kids : doc[n].slots[i] = x => i = doc[n].names[x]

\* JSONPathParser and write: what is read at rest is what was read before with the values written to
\* it since, in some order.
ReadsBack ==
  AtRest =>
    \E s \in SetToAllKPermutations(1 .. Len(log)) :
      /\ Len(s) = Len(log)
      /\ Read(2) = FoldLeft(LAMBDA old, i : Written(old, log[i].value), before, s)

\* setType, addObject, removeObject and clear: at rest the index of objects has each document
\* that has a value, below itself and each node above it, and nothing else.
ObjectsExact ==
  AtRest => objects = UNION {Above(n) \X {n} : n \in {m \in Live : doc[m].type # "undefined"}}

\* p is in deleteProperty of n for the property whose child m is.
Deleting(p, n, m) ==
  /\ Up(m) = n
  /\ \E f \in Range(stack[p]) : f = F("deleteGot", n, KeyOf(m))

\* Path::ScopedLock in operator [], setType, indexProperties and setString: a node is
\* locked after those above it and never before, so that threads that write do not
\* wait for one another in a circle.  But setUndefined has the child when
\* deleteProperty locks its parent: beside an operation that goes down it may wait
\* for ever.
LocksDown ==
  [][\A p \in Proc, n \in Node :
       held[n].by # p /\ held'[n].by = p =>
         \A m \in Node : held[m].by = p => m \in Above(n) \/ Deleting(p, n, m)]_vars

\* The words of a document: of its string and of the properties that lead to it.
WordsOf(n) ==
  Range(KeyWords(n)) \cup
  (IF doc[n].type = "string" THEN Range(Split(FlattenSeq(doc[n].pages))) ELSE {})

\* addWords, removeWords and indexProperties: at rest a word of a document is found
\* below the document and each node above it, but for the words two threads counted
\* at once at that node, and the one at the end of a page a string kept when the
\* next was not.
WordsFound ==
  AtRest =>
    \A n \in Live : \A w \in WordsOf(n) : \A a \in Range(Chain(n)) :
      <<w, a>> \in astray \/ (<<w, a>> \in DOMAIN words /\ words[<<w, a>>] > 0)
=============================================================================
