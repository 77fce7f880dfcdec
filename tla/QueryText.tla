----------------------------- MODULE QueryText -----------------------------
(***************************************************************************)
(* The grammar of queries (src/code/query/Query.hpp): the expression a     *)
(* text is read into, the stack it keeps, and the path it ends with.       *)
(***************************************************************************)
EXTENDS Matcher

CONSTANTS Keys,   \* the keys of documents, each by its number
          Words,  \* the words of the database, each with the keys it is in
          Bounds  \* the keys of all that is asked about

Tree == INSTANCE Traversal

Spaces == {" "}
Seperators == Spaces \cup {"+", "|", "!", "(", ")", "$"}

Blankspaces(minimum) == Repeat(OneOf(Spaces), minimum, 0)

Operator(word, letter) == Or(<<Word(word), Character(letter)>>)
AndOperator == Operator(<<"a", "nd">>, "+")
OrOperator == Operator(<<"o", "r">>, "|")
NotOperator == Operator(<<"n", "ot">>, "!")

QueryWord == Class("word", Capture(Repeat(Not(OneOf(Seperators)), 1, 0)), <<>>, FALSE)

\* Word::success: an operator is no word.
IsWord(value) == value \notin {<<"a", "nd">>, <<"o", "r">>, <<"n", "ot">>}

Token ==
  Or(<<Invoke(QueryWord, "word"), Invoke(NotOperator, "not"),
       Invoke(AndOperator, "and"), Invoke(OrOperator, "or"),
       Invoke(And(<<Character("("), LoadOnDemand("expression"), Character(")")>>), "brackets")>>)

\* members: the stack of operators and of what can be walked over.
Expression ==
  Class("expression",
        And(<<Blankspaces(0), Repeat(And(<<Token, Blankspaces(0)>>), 1, 0), Optional(Character("$"))>>),
        <<>>, TRUE)

\* Expression::success.
IsWhole(stack) == Len(stack) = 1 /\ stack[1].item = "iterable"

-----------------------------------------------------------------------------
(* The stack. *)

Iterable(path) == [item |-> "iterable", path |-> path]

\* What is left when an operator is used as a path: nothing is known of it.
Wild == <<[item |-> "wild"]>>

Top(stack) == IF stack = <<>> THEN "none" ELSE Last(stack).item

\* push_back(item): an and or an or takes the place of the one before it.
PushOperator(stack, name) ==
  Append(IF Top(stack) \in {"and", "or"} THEN Front(stack) ELSE stack, [item |-> name])

\* NotItem: two of them are none.
PushNot(stack) == IF Top(stack) = "not" THEN Front(stack) ELSE Append(stack, [item |-> "not"])

\* The path on the left with the one on the right.
Combine(stack, name, right) ==
  IF Top(stack) # "iterable" THEN Wild
  ELSE Append(Front(stack),
              Iterable(IF name = "or" THEN Tree!OrPath(Last(stack).path, right)
                       ELSE Tree!AndPath(Last(stack).path, right)))

\* Mutant: an operator that is there is not asked for.
PushOn(stack, right) ==
  IF stack = <<>> THEN <<Iterable(right)>>
  ELSE Combine(IF Len(stack) = 1 THEN stack ELSE Front(stack), "and", right)

\* What is pushed on a stack without a not on top: paths side by side are both asked for.
PushRight(stack, right) ==
  CASE stack = <<>> -> <<Iterable(right)>>
    [] Len(stack) > 1 /\ Top(stack) \notin {"and", "or"} -> Wild
    [] OTHER -> Combine(IF Len(stack) = 1 THEN stack ELSE Front(stack),
                        IF Len(stack) = 1 THEN "and" ELSE Top(stack), right)

\* push_back(iterable)
PushIterable(stack, right) ==
  PushRight(IF Top(stack) = "not" THEN Front(stack) ELSE stack,
            IF Top(stack) = "not" THEN Tree!NotPath(right, Tree!KeyPath(Bounds)) ELSE right)

\* WordItem, NotItem, AndItem, OrItem and ExpressionItem.
PushEvent(stack, event) ==
  CASE event.on = "not" -> PushNot(stack)
    [] event.on \in {"and", "or"} -> PushOperator(stack, event.on)
    [] event.on = "wild" \/ (event.on = "brackets" /\ Value(event.from.items[2]) = Wild) -> Wild
    [] OTHER -> PushIterable(stack, IF event.on = "word" THEN Tree!WordPath(Words, Value(event.from))
                                    ELSE Value(event.from.items[2])[1].path)

Pushed(m, stack) ==
  [m |-> [m EXCEPT !.members = stack], out |-> IF stack = Wild THEN <<[on |-> "wild"]>> ELSE <<>>]

HearExpression(m, event) ==
  Pushed(m, IF m.members = Wild THEN Wild ELSE PushEvent(m.members, event))

\* getPath()
GetPath(m) == Tree!AndPath(m.members[1].path, Tree!KeyPath(Bounds))
=============================================================================
