------------------------------ MODULE Matcher ------------------------------
(***************************************************************************)
(* The matchers a grammar is built of (src/code/parser).  A matcher is a   *)
(* record with its kind, its result so far and its parts; Parser feeds it  *)
(* characters.  A character is whatever the grammar tells apart.           *)
(***************************************************************************)
EXTENDS Integers, Sequences, SequencesExt

(* An Or of Characters or Ranges is the set of what it takes. *)
OneOf(characters) == [op |-> "character", result |-> "none", characters |-> characters]
Character(c) == OneOf({c})

Word(word) == [op |-> "word", result |-> "none", left |-> word]

And(items) == [op |-> "and", result |-> "none", items |-> items, at |-> 1]

\* item is the one that matched, zero before.
Or(items) == [op |-> "or", result |-> "none", items |-> items, item |-> 0, ordered |-> FALSE]
OrderOfPrecedence(items) == [Or(items) EXCEPT !.ordered = TRUE]

Not(match) == [op |-> "not", result |-> "none", match |-> match]
Optional(match) == [op |-> "optional", result |-> "none", match |-> match]

\* item is empty before the first character; maximum is zero for any number.
Repeat(of, minimum, maximum) ==
  [op |-> "repeat", result |-> "none", of |-> of, item |-> <<>>, count |-> 0,
   minimum |-> minimum, maximum |-> maximum]

Capture(match) == [op |-> "capture", result |-> "none", match |-> match, value |-> <<>>]

\* Tells on when it succeeds.
Invoke(match, on) == [op |-> "invoke", result |-> "none", match |-> match, on |-> on]

\* A matcher that is made at the first character it gets.
LoadOnDemand(name) == [op |-> "demand", result |-> "none", name |-> name, match |-> <<>>]

\* A Match of its own class, with members: own when they are its value.
Class(name, match, members, own) ==
  [op |-> "class", result |-> "none", name |-> name, match |-> match, members |-> members, own |-> own]

RECURSIVE Result(_), Value(_)

Opposite(result) == CASE result = "yes" -> "no" [] result = "no" -> "yes" [] OTHER -> "none"

\* result()
Result(m) ==
  CASE m.result # "none" -> m.result
    [] m.op = "or" -> IF m.item # 0 THEN "yes" ELSE "none"
    [] m.op = "not" -> Opposite(Result(m.match))
    [] m.op = "repeat" -> IF m.item = <<>> THEN "none" ELSE Result(m.item[1])
    [] m.op = "demand" -> IF m.match = <<>> THEN "none" ELSE Result(m.match[1])
    [] m.op \in {"optional", "capture", "invoke", "class"} -> Result(m.match)
    [] OTHER -> "none"

\* value()
Value(m) ==
  CASE m.op = "capture" -> m.value
    [] m.op = "or" -> IF m.item # 0 THEN Value(m.items[m.item]) ELSE <<>>
    [] m.op = "demand" -> IF m.match = <<>> THEN <<>> ELSE Value(m.match[1])
    [] m.op = "class" -> IF m.own THEN m.members ELSE Value(m.match)
    [] m.op \in {"not", "optional", "invoke"} -> Value(m.match)
    [] OTHER -> <<>>

\* setResult(result): the first one stays.
SetResult(m, result) == [m EXCEPT !.result = IF @ = "none" THEN result ELSE @]

\* confirm(item): of an order of precedence, none before it can still match.
Confirmed(m, i) == m.ordered => \A before \in 1 .. i - 1 : Result(m.items[before]) = "no"
=============================================================================
