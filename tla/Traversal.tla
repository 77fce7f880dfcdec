----------------------------- MODULE Traversal -----------------------------
(***************************************************************************)
(* Walks over trees of keys: Path, Iterable and PathBase of                *)
(* src/code/Database, Stack of src/code/Miscellaneous, and the paths of    *)
(* src/code/query that walk two trees at once.  A tree is the set of keys  *)
(* in it; a path stands at the bits it has gone down.                      *)
(***************************************************************************)
EXTENDS PowerEncoding, FiniteSets

CONSTANT Keys  \* the keys in the trees, each by its number

-----------------------------------------------------------------------------
(* Stack: the bits gone down, and their count. *)

EmptyStack == [bits |-> <<>>, count |-> 0]

PushBack(stack, bit) == [bits |-> Append(stack.bits, bit), count |-> CountBit(stack.count, bit)]

PopBack(stack) ==
  [bits |-> Front(stack.bits),
   count |-> IF Last(stack.bits) = 0 THEN stack.count + 1
             ELSE IF stack.count > 0 THEN stack.count - 1 ELSE 0]

-----------------------------------------------------------------------------
(* Paths. *)

\* Where a path stands: the keys still below it, after those of each place above.
KeyPath(keys) == [op |-> "path", trail |-> <<keys>>]
On(key, depth, bit) == depth <= Len(Keys[key]) /\ Keys[key][depth] = bit

\* WordPath: nowhere to go when the word is not there.
WordPath(words, word) == KeyPath(IF word \in DOMAIN words THEN words[word] ELSE {})

AndPath(a, b) == [op |-> "and", a |-> a, b |-> b]
OrPath(a, b) == [op |-> "or", a |-> a, b |-> b, aDepth |-> 0, bDepth |-> 0]
NotPath(path, bounds) == [op |-> "not", path |-> path, bounds |-> bounds, stack |-> EmptyStack, depth |-> 0]

RECURSIVE CanGo(_, _), Go(_, _), GoUp(_)

\* canGoLeft and canGoRight.
OrCan(p, bit) ==
  \/ p.aDepth >= p.bDepth /\ CanGo(p.a, bit)
  \/ p.bDepth >= p.aDepth /\ CanGo(p.b, bit)

\* A key that is in the path ends with a left: only that one is refused.
NotCan(p, bit) ==
  /\ CanGo(p.bounds, bit)
  /\ ~ (bit = 0 /\ p.depth = 0 /\ p.stack.count = 1 /\ CanGo(p.path, 0))

CanGo(p, bit) ==
  CASE p.op = "path" -> \E key \in Last(p.trail) : On(key, Len(p.trail), bit)
    [] p.op = "and" -> CanGo(p.a, bit) /\ CanGo(p.b, bit)
    [] p.op = "or" -> OrCan(p, bit)
    [] p.op = "not" -> NotCan(p, bit)

\* goLeft and goRight.
GoOr(p, bit) ==
  LET a == p.aDepth >= p.bDepth /\ CanGo(p.a, bit)
      b == p.bDepth >= p.aDepth /\ CanGo(p.b, bit)
  IN [p EXCEPT !.a = IF a THEN Go(@, bit) ELSE @, !.aDepth = IF a THEN @ + 1 ELSE @,
               !.b = IF b THEN Go(@, bit) ELSE @, !.bDepth = IF b THEN @ + 1 ELSE @]

GoNot(p, bit) ==
  LET along == p.depth = 0 /\ CanGo(p.path, bit)
  IN [p EXCEPT !.path = IF along THEN Go(@, bit) ELSE @, !.depth = IF along THEN @ ELSE @ + 1,
               !.stack = PushBack(@, bit), !.bounds = Go(@, bit)]

Go(p, bit) ==
  CASE p.op = "path" -> [p EXCEPT !.trail = Append(@, {key \in Last(@) : On(key, Len(p.trail), bit)})]
    [] p.op = "and" -> [p EXCEPT !.a = Go(@, bit), !.b = Go(@, bit)]
    [] p.op = "or" -> GoOr(p, bit)
    [] p.op = "not" -> GoNot(p, bit)

GoUpOr(p) ==
  [p EXCEPT !.a = IF p.aDepth >= p.bDepth THEN GoUp(@) ELSE @,
            !.b = IF p.bDepth >= p.aDepth THEN GoUp(@) ELSE @,
            !.aDepth = IF p.aDepth >= p.bDepth THEN @ - 1 ELSE @,
            !.bDepth = IF p.bDepth >= p.aDepth THEN @ - 1 ELSE @]

GoUpNot(p) ==
  [p EXCEPT !.path = IF p.depth = 0 THEN GoUp(@) ELSE @,
            !.depth = IF p.depth = 0 THEN @ ELSE @ - 1,
            !.bounds = GoUp(@), !.stack = PopBack(@)]

GoUp(p) ==
  CASE p.op = "path" -> [p EXCEPT !.trail = Front(@)]
    [] p.op = "and" -> [p EXCEPT !.a = GoUp(@), !.b = GoUp(@)]
    [] p.op = "or" -> GoUpOr(p)
    [] p.op = "not" -> GoUpNot(p)

IsDeadEnd(p) == ~ CanGo(p, 0) /\ ~ CanGo(p, 1)

-----------------------------------------------------------------------------
(* PathBase: an iterator is a path and its stack. *)

At(path) == [path |-> path, stack |-> EmptyStack, found |-> FALSE]

Down(it, bit) == [it EXCEPT !.path = Go(@, bit), !.stack = PushBack(@, bit)]
Up(it) == [it EXCEPT !.path = GoUp(@), !.stack = PopBack(@)]

\* The side to go on, the one first if it can be gone.
Side(it, first) == IF CanGo(it.path, first) THEN first ELSE 1 - first

RECURSIVE Follow(_, _), Turn(_, _)

\* Down the first side as far as a key goes, or to a dead end.
FollowOn(below, first) ==
  IF below.stack.count = 0 THEN [below EXCEPT !.found = TRUE] ELSE Follow(below, first)
Follow(it, first) ==
  IF IsDeadEnd(it.path) THEN it ELSE FollowOn(Down(it, Side(it, first)), first)

\* Mutant: a dead end on the way down is the end.
FirstBelowOnly(end, first) == end

\* goToMin and goToMax: from a dead end on the way to the next key.
FirstBelow(end, first) == IF end.found THEN end ELSE Turn(end, first)
GoTo(it, first) == FirstBelow(Follow(it, first), first)

\* Up to the first other side not gone yet, and from there down.
TurnAt(above, bit, first) ==
  IF bit = first /\ CanGo(above.path, 1 - first) THEN GoTo(Down(above, 1 - first), first)
  ELSE Turn(above, first)
Turn(it, first) ==
  IF it.stack.bits = <<>> THEN it ELSE TurnAt(Up(it), Last(it.stack.bits), first)

\* next and previous.
Step(it, first) ==
  LET from == [it EXCEPT !.found = FALSE] IN
  IF from.stack.bits = <<>>
  THEN IF IsDeadEnd(from.path) THEN from ELSE GoTo(from, first)
  ELSE Turn(from, first)

Next(it) == Step(it, 0)
Previous(it) == Step(it, 1)
=============================================================================
