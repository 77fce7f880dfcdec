------------------------------ MODULE Request ------------------------------
(***************************************************************************)
(* The grammar of a web request (src/code/web-request): first line, URL,   *)
(* headers and body.  The body is JSON, or bytes that are counted.         *)
(***************************************************************************)
EXTENDS JSONText, Functions, TLC

NewLine == Or(<<And(<<Character("\r"), Character("\n")>>), Character("\n")>>)
BlankCharacters(minimum) == Repeat(OneOf({" ", "\t"}), minimum, 0)

\* Any number of characters but these, one at least.
Until(characters) == Capture(Repeat(Not(OneOf(characters)), 1, 0))

-----------------------------------------------------------------------------
(* URL. *)

Protocol == Capture(OrderOfPrecedence(<<Word(<<"http", "s">>), Word(<<"http">>)>>))

Origin ==
  Capture(And(<<Optional(And(<<Protocol, Word(<<":", "//">>)>>)),
                Until({" ", "/", "?", ":"}),
                Optional(And(<<Character(":"), Capture(Repeat(OneOf(Digits), 1, 0))>>))>>))

KeyValuePair ==
  And(<<Until({"=", "&", " "}), Optional(Character("=")),
        Optional(Until({"&", " "})), Optional(Character("&"))>>)

\* decodeURI
Decoded(value) == [i \in DOMAIN value |-> IF value[i] = "%61" THEN "a" ELSE value[i]]

KeyValues == Class("pairs", Repeat(Invoke(KeyValuePair, "pair"), 1, 0), <<>>, FALSE)

\* Mutant: the first value of a key stays.
HearPairFirst(m, event) ==
  [m |-> [m EXCEPT !.members =
            @ @@ (Decoded(Value(event.from.items[1])) :> Decoded(Value(event.from.items[3])))],
   out |-> <<>>]

\* matchedItem: the last value of a key stays.
HearPair(m, event) ==
  [m |-> [m EXCEPT !.members =
            (Decoded(Value(event.from.items[1])) :> Decoded(Value(event.from.items[3]))) @@ @],
   out |-> <<>>]

Search == Capture(And(<<Character("?"), KeyValues>>))

URL == Class("url", And(<<Optional(Origin), Optional(Until({" ", "?"})), Optional(Search)>>), <<>>, FALSE)

\* path(): one character at most is the root.
Path(url) ==
  LET path == Value(url.match.items[2]) IN IF Len(path) > 1 THEN path ELSE <<"/">>

\* search().items()
Items(url) == url.match.items[3].match.match.items[2].members

-----------------------------------------------------------------------------
(* Headers and body. *)

Lower(value) == [i \in DOMAIN value |-> IF value[i] = "Length" THEN "length" ELSE value[i]]

\* The name of a header ends before a new line too.
Header ==
  Class("header",
        And(<<Capture(Repeat(Not(Or(<<Character(":"), NewLine>>)), 1, 0)),
              And(<<BlankCharacters(0), Character(":"), BlankCharacters(0)>>),
              Until({"\r", "\n"}), NewLine>>),
        <<>>, FALSE)

Headers == Class("headers", Repeat(Invoke(Header, "header"), 1, 0), <<>>, FALSE)

\* matchedItem: the first header of a name stays.
HearHeader(m, event) ==
  LET items == event.from.match.items
  IN [m |-> [m EXCEPT !.members = @ @@ (Lower(Value(items[1])) :> Value(items[3]))], out |-> <<>>]

\* Without JSON the body has no match: it takes what it gets.
Body(parseJSON) ==
  IF parseJSON THEN Class("body", JSON, [count |-> 0, length |-> 0], FALSE)
  ELSE [Class("body", <<>>, [count |-> 0, length |-> 0], FALSE) EXCEPT !.op = "bytes"]

\* match(byte): the last byte is the end of it.
Byte(m) ==
  LET count == m.members.count + 1
  IN [SetResult(m, IF count = m.members.length THEN "yes" ELSE "none") EXCEPT !.members.count = count]

-----------------------------------------------------------------------------
(* The request. *)

FirstLine ==
  Class("first line",
        And(<<Invoke(Capture(Or([i \in 1 .. 3 |-> Word(<<<<"GET", "POST", "OPTIONS">>[i]>>)])), "method"),
              BlankCharacters(1), URL, BlankCharacters(1),
              Capture(And(<<Word(<<"HTTP/1.">>), OneOf(Digits)>>)), NewLine>>),
        <<>>, FALSE)

WebRequest(parseJSON) ==
  Class("request",
        And(<<FirstLine, Optional(Invoke(Headers, "headers")), NewLine, Optional(Body(parseJSON))>>),
        <<>>, FALSE)

MethodOf(m) == Value(m.match.items[1].match.items[1])
URLOf(m) == m.match.items[1].match.items[3]
HeadersOf(m) == m.match.items[2].match.match
BodyOf(m) == m.match.items[4].match
ParsesJSON(m) == BodyOf(m).op = "class"

DigitValue == "0" :> 0 @@ "1" :> 1 @@ "4" :> 4

\* atol: the digits at the front.
Number10(value) ==
  LET digits == SelectInSeq(value, LAMBDA c : c \notin Digits)
      front == IF digits = 0 THEN value ELSE SubSeq(value, 1, digits - 1)
  IN FoldLeft(LAMBDA n, c : 10 * n + DigitValue[c], 0, front)

\* getContentLength()
ContentLength(m) ==
  LET headers == HeadersOf(m).members
  IN IF <<"length">> \in DOMAIN headers THEN Number10(headers[<<"length">>]) ELSE 0

\* onheaders: a GET ends here; the body of a POST is told its length.
HearRequest(m, event) ==
  LET length == ContentLength(m)
      told == [m EXCEPT !.match.items[4].match.members.length = length]
  IN CASE event.on # "headers" -> [m |-> m, out |-> <<>>]
       [] MethodOf(m) = <<"GET">> -> [m |-> SetResult(m, "yes"), out |-> <<>>]
       [] MethodOf(m) = <<"OPTIONS">> -> [m |-> m, out |-> <<>>]
       [] ParsesJSON(m) -> [m |-> told, out |-> <<>>]
       [] length = 0 -> [m |-> SetResult(told, "yes"), out |-> <<>>]
       [] OTHER -> [m |-> told, out |-> <<Told("data", <<>>)>>]

\* hasJSON()
HasJSON(m) == ParsesJSON(m) /\ Result(BodyOf(m)) = "yes" /\ Result(BodyOf(m).match) = "yes"
=============================================================================
