----------------------------- MODULE JSONText -----------------------------
(***************************************************************************)
(* The grammar of JSON (src/code/json): the matchers it is built of, and   *)
(* what they tell the JSONParser while the text comes in.                  *)
(***************************************************************************)
EXTENDS Matcher

CONSTANT PageSize  \* bound: characters in the buffer of a string

ASSUME PageSizeAssumption == PageSize \in Nat \ {0}

Blanks == {" ", "\n"}
Digits == {"0", "1", "4"}
HexDigits == {"0", "4"}

\* What may be escaped with one letter, and the character it stands for.
Escapes == [c \in {"\"", "\\", "n"} |-> IF c = "n" THEN "\n" ELSE c]

\* The character with this code, of two hexadecimal digits.
CharacterOf(pair) ==
  CASE pair = <<"4", "0">> -> "@" [] pair = <<"4", "4">> -> "D" [] pair = <<"0", "4">> -> "^D" [] OTHER -> "^@"

Told(on, what) == [on |-> on, from |-> what]

-----------------------------------------------------------------------------
(* Blanks, words and numbers. *)

BlankSpace(minimum) == Repeat(OneOf(Blanks), minimum, 0)

Undefined == Word(<<"u", "nd">>)
Null == Word(<<"n", "ul">>)
Boolean == Class("boolean", Capture(Or(<<Word(<<"t", "r">>), Word(<<"f", "a">>)>>)), <<>>, FALSE)

Integer == Class("integer", Capture(Repeat(OneOf(Digits), 1, 0)), <<>>, FALSE)

Fraction == And(<<Character("."), Integer>>)
Exponent == And(<<Character("e"), Optional(Capture(OneOf({"+", "-"}))), Integer>>)

Number ==
  Class("number",
        Capture(And(<<Optional(Character("-")), Integer, Optional(Fraction), Optional(Exponent)>>)),
        <<>>, FALSE)

\* invokeNumber: what makes a number no integer.
NumberType(value) ==
  IF \E i \in DOMAIN value : value[i] \in {"-", "+", "e", "."} THEN "number" ELSE "integer"

-----------------------------------------------------------------------------
(* Strings. *)

Quote == Character("\"")

PlainCharacter == Capture(Not(OneOf({"\\", "\"", "\n"})))

Hex == Class("hex", Capture(Repeat(OneOf(HexDigits), 2, 4)), <<>>, FALSE)

\* Hex::success: two zeros at the front are left out.
HexValue(hex) ==
  LET from == CASE hex[1] # "0" -> 0 [] hex[2] # "0" -> 1 [] OTHER -> 2
      pairs == (Len(hex) - from + 1) \div 2
  IN [k \in 1 .. pairs |->
        CharacterOf(SubSeq(hex, from + 2 * k - 1, IF from + 2 * k > Len(hex) THEN Len(hex) ELSE from + 2 * k))]

\* members: the character it stands for.
EscapedCharacter ==
  Class("escaped",
        And(<<Character("\\"),
              Or([i \in 1 .. 3 |-> Invoke(Character(<<"\"", "\\", "n">>[i]), "escape")]
                 \o <<And(<<PlainCharacter, Not(Hex)>>),
                      And(<<Character("u"), Invoke(Hex, "hex")>>)>>)>>),
        <<>>, TRUE)

HearEscaped(m, event) ==
  CASE event.on = "escape" ->
         [m |-> [m EXCEPT !.members = <<Escapes[CHOOSE c \in event.from.characters : TRUE]>>], out |-> <<>>]
    [] event.on = "hex" -> [m |-> [m EXCEPT !.members = HexValue(Value(event.from))], out |-> <<>>]

StringCharacter == Or(<<PlainCharacter, EscapedCharacter>>)

\* members: the characters so far, and those in the buffer.
StringCharacters ==
  Class("characters", Repeat(Invoke(StringCharacter, "character"), 0, 0),
        [value |-> <<>>, buffer |-> <<>>], FALSE)

\* Mutant: the buffer is not emptied when it is full.
HearCharacterKept(m, event) ==
  LET in == Value(event.from)
      buffer == m.members.buffer \o in
      full == Len(buffer) >= PageSize
  IN [m |-> [m EXCEPT !.members = [value |-> @.value \o in, buffer |-> buffer]],
      out |-> IF full THEN <<Told("part string", buffer)>> ELSE <<>>]

\* matchedItem: the buffer is handed on when it is full.
HearCharacter(m, event) ==
  LET in == Value(event.from)
      buffer == m.members.buffer \o in
      full == Len(buffer) >= PageSize
  IN [m |-> [m EXCEPT !.members = [value |-> @.value \o in, buffer |-> IF full THEN <<>> ELSE buffer]],
      out |-> IF full THEN <<Told("part string", buffer)>> ELSE <<>>]

StringOf(name) ==
  Class(name, And(<<Invoke(Quote, "open quote"), StringCharacters, Invoke(Quote, "close quote")>>), <<>>, TRUE)

String == StringOf("string")
ObjectKey == StringOf("key")

\* The value is what had come when the buffer was last handed on.
HearString(m, event) ==
  LET characters == m.match.items[2].members
      valued == [m EXCEPT !.members = characters.value]
  IN CASE event.on = "open quote" -> [m |-> m, out |-> <<Told("begin string", <<>>)>>]
       [] event.on = "part string" -> [m |-> valued, out |-> <<event>>]
       [] event.on = "close quote" ->
            IF characters.buffer = <<>>
            THEN [m |-> m, out |-> <<Told("end string", <<>>)>>]
            ELSE [m |-> valued,
                  out |-> <<Told("part string", characters.buffer), Told("end string", <<>>)>>]

\* A key tells nothing while it is read.
HearKey(m, event) == [HearString(m, event) EXCEPT !.out = <<>>]

-----------------------------------------------------------------------------
(* Sets: arrays and objects. *)

SetSeperator(separator) == And(<<Optional(BlankSpace(1)), separator, Optional(BlankSpace(1))>>)

SubsequentItems(separator, item) ==
  Repeat(And(<<SetSeperator(separator), Invoke(item, "item")>>), 0, 0)

SetOf(open, item, separator, close) ==
  And(<<Invoke(open, "begin"),
        Optional(And(<<Invoke(item, "item"), Optional(SubsequentItems(separator, item))>>)),
        Invoke(close, "end")>>)

Between(c) == And(<<BlankSpace(0), Character(c), BlankSpace(0)>>)

Array ==
  Class("array",
        SetOf(And(<<Character("["), BlankSpace(0)>>), LoadOnDemand("json"), Between(","),
              And(<<BlankSpace(0), Character("]")>>)),
        <<>>, FALSE)

\* The key when it is whole, the value when it is.
Member ==
  Class("member",
        And(<<Invoke(ObjectKey, "key"), Between(":"), Invoke(LoadOnDemand("json"), "value of key")>>),
        <<>>, FALSE)

Object ==
  Class("object",
        SetOf(Between("{"), Member, Between(","), And(<<BlankSpace(0), Character("}")>>)),
        <<>>, FALSE)

\* Mutant: the end of a value is handed on as it is.
HearMemberPlain(m, event) ==
  [m |-> m, out |-> IF event.on = "key" THEN <<Told("object key", Value(event.from))>> ELSE <<event>>]

HearMember(m, event) ==
  [m |-> m,
   out |-> CASE event.on = "key" -> <<Told("object key", Value(event.from))>>
             [] event.on = "value of key" -> <<Told("object value", Value(m.match.items[1].match))>>
             [] OTHER -> <<event>>]

HearSet(m, event) ==
  [m |-> m,
   out |-> CASE event.on = "begin" -> <<Told("begin " \o m.name, <<>>)>>
             [] event.on = "end" -> <<Told("end " \o m.name, <<>>)>>
             [] event.on = "item" -> IF m.name = "array" THEN <<Told("array value", <<>>)>> ELSE <<>>
             [] OTHER -> <<event>>]

-----------------------------------------------------------------------------
(* JSON: members is the type. *)

Types == <<"undefined", "null", "boolean", "number", "string", "array", "object">>

JSON ==
  Class("json",
        And(<<BlankSpace(0),
              Or([i \in 1 .. 7 |->
                    Invoke(<<Undefined, Null, Boolean, Number, String, Array, Object>>[i], Types[i])])>>),
        "undefined", FALSE)

HearJSON(m, event) ==
  IF event.on \in {Types[i] : i \in 1 .. 7}
  THEN [m |-> [m EXCEPT !.members =
                 IF event.on = "number" THEN NumberType(Value(event.from)) ELSE event.on],
        out |-> <<>>]
  ELSE [m |-> m, out |-> <<event>>]

\* JSON::success: the value when it is whole, with its type.
Valued(m) == Told("value", <<m.members>>)
=============================================================================
