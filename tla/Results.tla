------------------------------ MODULE Results ------------------------------
(***************************************************************************)
(* The walk over what a query finds (src/code/query/Iterable.hpp): a       *)
(* document is left out when one inside it is found too.                   *)
(***************************************************************************)
EXTENDS QueryText, Links

\* The id an iterator is at.
Id(it) == it.stack.bits

\* It is passed over: the next one is inside it.
Inside(it, next) == next.found /\ StartsWith(Id(it), Id(next))

RECURSIVE SetValue(_), CountFrom(_, _)

\* setValue(): on to the first that is not passed over.
SetOn(it, next) == IF Inside(it, next) THEN SetValue(next) ELSE it
SetValue(it) == IF it.found THEN SetOn(it, Tree!Next(it)) ELSE it

\* operator++; and the constructors, from where they begin.
Advance(it) == SetValue(Tree!Next(it))

\* Iterator(iterable) begins before all ids.
Begin(path) == Tree!At(path)

\* Iterator(iterable, from) begins where the id of a document leads in the path,
\* nowhere when it is not in it.
Places(path, id) ==
  FoldLeft(LAMBDA places, bit :
             {Tree!Down(it, bit) : it \in {at \in places : Tree!CanGo(at.path, bit)}},
           {Begin(path)}, id)

\* count(): next is what comes behind it.
CountOn(it, next, count) ==
  LET now == IF ~ it.found \/ Inside(it, next) THEN count ELSE count + 1
  IN IF next.found THEN CountFrom(next, now) ELSE now
CountFrom(it, count) == CountOn(it, Tree!Next(it), count)

CountAll(path) == CountFrom(Begin(path), 0)

\* ReverseIterator: all ids from the last one.
RAdvance(it) == Tree!Previous(it)
=============================================================================
