------------------------------- MODULE Parser -------------------------------
(***************************************************************************)
(* How matchers take characters (src/code/parser): Feed gives the matcher  *)
(* after a character, whether it took it, and what it told.                *)
(***************************************************************************)
EXTENDS QueryText, Request

\* What is made on demand.
Grammar(name) == IF name = "json" THEN JSON ELSE Expression

\* What a class does with what is told inside it.
Hear(m, event) ==
  CASE m.name = "json" -> HearJSON(m, event)
    [] m.name = "escaped" -> HearEscaped(m, event)
    [] m.name = "characters" -> HearCharacter(m, event)
    [] m.name = "string" -> HearString(m, event)
    [] m.name = "key" -> HearKey(m, event)
    [] m.name = "member" -> HearMember(m, event)
    [] m.name \in {"array", "object"} -> HearSet(m, event)
    [] m.name = "expression" -> HearExpression(m, event)
    [] m.name = "pairs" -> HearPair(m, event)
    [] m.name = "headers" -> HearHeader(m, event)
    [] m.name = "request" -> HearRequest(m, event)
    [] OTHER -> [m |-> m, out |-> <<>>]

Heard(m, told, out) == [m |-> m, out |-> out \o told]
HearNext(heard, next) == Heard(next.m, next.out, heard.out)

HearAll(m, events) ==
  IF m.op # "class" THEN Heard(m, events, <<>>)
  ELSE FoldLeft(LAMBDA heard, event : HearNext(heard, Hear(heard.m, event)), Heard(m, <<>>, <<>>), events)

\* success(): what a class still asks for, and what it tells.
Succeed(m) ==
  CASE m.op = "invoke" -> [m |-> SetResult(m, "yes"), out |-> <<[on |-> m.on, from |-> m.match]>>]
    [] m.op = "class" /\ m.name = "word" ->
         [m |-> SetResult(m, IF IsWord(Value(m)) THEN "yes" ELSE "no"), out |-> <<>>]
    [] m.op = "class" /\ m.name = "expression" ->
         [m |-> SetResult(m, IF IsWhole(m.members) THEN "yes" ELSE "no"), out |-> <<>>]
    [] m.op = "class" /\ m.name = "json" -> [m |-> SetResult(m, "yes"), out |-> <<Valued(m)>>]
    [] OTHER -> [m |-> SetResult(m, "yes"), out |-> <<>>]

\* Match::match: what comes after the match inside.
Decided(heard) ==
  CASE Result(heard.m) = "yes" -> HearNext(heard, Succeed(heard.m))
    [] Result(heard.m) = "no" -> [heard EXCEPT !.m = SetResult(@, "no")]
    [] OTHER -> heard

Fed(m, matched) == [m |-> m, matched |-> matched, out |-> <<>>]

FeedCharacter(m, c) ==
  Fed(SetResult(m, IF c \in m.characters THEN "yes" ELSE "no"), c \in m.characters)

FeedWord(m, c) ==
  IF c # Head(m.left) THEN Fed(SetResult(m, "no"), FALSE)
  ELSE Fed([m EXCEPT !.left = Tail(@), !.result = IF Len(m.left) = 1 THEN "yes" ELSE @], TRUE)

RECURSIVE Feed(_, _), FeedAnd(_, _, _), FeedOr(_, _, _)

\* An item of an And has it, has failed, or goes on.
AndAfter(m, fed) ==
  [fed EXCEPT
     !.m = LET on == [m EXCEPT !.items[m.at] = fed.m]
           IN CASE Result(fed.m) = "yes" ->
                     [on EXCEPT !.at = @ + 1, !.result = IF m.at = Len(m.items) THEN "yes" ELSE @]
                [] Result(fed.m) = "no" -> [on EXCEPT !.result = "no"]
                [] OTHER -> on,
     !.matched = @ /\ Result(fed.m) # "no"]

\* One item after the other, and the same one again, until one takes the character or fails.
FeedAndOn(c, fed) ==
  IF fed.matched \/ fed.m.result # "none" THEN fed ELSE FeedAnd(fed.m, c, fed.out)

FeedAnd(m, c, out) ==
  IF m.at > Len(m.items) THEN [Fed(SetResult(m, "no"), FALSE) EXCEPT !.out = out]
  ELSE FeedAndOn(c, [AndAfter(m, Feed(m.items[m.at], c)) EXCEPT !.out = out \o @])

\* All items that have not failed, until one has it.
Both(fed, rest) == [m |-> rest.m, matched |-> fed.matched \/ rest.matched, out |-> fed.out \o rest.out]

FeedOrOn(m, c, i, fed) ==
  IF Result(fed.m) = "yes" /\ Confirmed(m, i)
  THEN [fed EXCEPT !.m = [m EXCEPT !.items[i] = fed.m, !.item = i, !.result = "yes"]]
  ELSE Both(fed, FeedOr([m EXCEPT !.items[i] = fed.m], c, i + 1))

FeedOr(m, c, i) ==
  IF i > Len(m.items) THEN Fed(m, FALSE)
  ELSE FeedOrOn(m, c, i, IF Result(m.items[i]) = "none" THEN Feed(m.items[i], c) ELSE Fed(m.items[i], FALSE))

\* None of them took it.
OrAfter(fed) ==
  IF fed.matched \/ fed.m.result # "none" THEN fed ELSE [fed EXCEPT !.m = SetResult(@, "no")]

NotAfter(m, fed) ==
  LET on == [m EXCEPT !.match = fed.m]
  IN CASE ~ fed.matched \/ Result(fed.m) = "no" -> Fed(SetResult(on, "yes"), TRUE)
       [] fed.matched /\ Result(fed.m) = "yes" -> Fed(SetResult(on, "no"), FALSE)
       [] OTHER -> Fed(on, TRUE)

OptionalAfter(m, fed) ==
  [fed EXCEPT !.m = SetResult([m EXCEPT !.match = fed.m], IF Result(fed.m) = "none" THEN "none" ELSE "yes")]

\* A new item when one has it, the end when one has failed.
RepeatAfter(m, fed) ==
  CASE Result(fed.m) = "yes" ->
         [fed EXCEPT !.m = [m EXCEPT !.item = <<m.of>>, !.count = @ + 1,
                              !.result = IF m.maximum > 0 /\ m.count + 1 = m.maximum THEN "yes" ELSE "none"]]
    [] Result(fed.m) = "no" ->
         [fed EXCEPT !.m = [m EXCEPT !.item = <<fed.m>>,
                              !.result = IF m.count >= m.minimum THEN "yes" ELSE "no"],
                     !.matched = FALSE]
    [] OTHER -> [fed EXCEPT !.m = [m EXCEPT !.item = <<fed.m>>]]

\* Capture, Invoke, and every class with a match of its own.
Taken(m, c, fed) ==
  CASE m.op = "capture" /\ fed.matched -> [m EXCEPT !.match = fed.m, !.value = Append(@, c)]
    [] m.op = "class" /\ m.name = "body" -> [m EXCEPT !.match = fed.m, !.members.count = @ + 1]
    [] OTHER -> [m EXCEPT !.match = fed.m]

With(heard, matched) == [m |-> heard.m, matched |-> matched, out |-> heard.out]

InnerAfter(m, c, fed) == With(Decided(HearAll(Taken(m, c, fed), fed.out)), fed.matched)

DemandAfter(m, fed) == [fed EXCEPT !.m = [m EXCEPT !.match = <<fed.m>>]]

\* match(parser, character)
Feed(m, c) ==
  CASE m.op = "not" /\ m.result # "none" -> Fed(m, m.result = "yes")
    [] m.op \notin {"not", "optional", "demand"} /\ Result(m) # "none" -> Fed(m, FALSE)
    [] m.op = "character" -> FeedCharacter(m, c)
    [] m.op = "word" -> FeedWord(m, c)
    [] m.op = "and" -> FeedAnd(m, c, <<>>)
    [] m.op = "or" -> OrAfter(FeedOr(m, c, 1))
    [] m.op = "not" -> NotAfter(m, Feed(m.match, c))
    [] m.op = "optional" -> OptionalAfter(m, Feed(m.match, c))
    [] m.op = "repeat" -> RepeatAfter(m, Feed(IF m.item = <<>> THEN m.of ELSE m.item[1], c))
    [] m.op = "demand" -> DemandAfter(m, Feed(IF m.match = <<>> THEN Grammar(m.name) ELSE m.match[1], c))
    [] m.op = "bytes" -> Fed([m EXCEPT !.members.count = @ + 1], TRUE)
    [] OTHER -> InnerAfter(m, c, Feed(m.match, c))

-----------------------------------------------------------------------------
(* The end of the text. *)

Ended(m, out) == [m |-> m, out |-> out]

RECURSIVE Eof(_), EofAnd(_, _, _), EofOr(_, _, _)

EofAndOn(m, i, out, end) ==
  IF Result(end.m) = "no" THEN Ended([m EXCEPT !.items[i] = end.m, !.result = "no"], out \o end.out)
  ELSE EofAnd([m EXCEPT !.items[i] = end.m], i + 1, out \o end.out)

EofAnd(m, i, out) ==
  IF i > Len(m.items) THEN Ended(SetResult(m, "yes"), out) ELSE EofAndOn(m, i, out, Eof(m.items[i]))

EofOrOn(m, i, out, end) ==
  IF Result(end.m) = "yes"
  THEN Ended([m EXCEPT !.items[i] = end.m, !.item = i, !.result = "yes"], out \o end.out)
  ELSE EofOr([m EXCEPT !.items[i] = end.m], i + 1, out \o end.out)

EofOr(m, i, out) ==
  IF i > Len(m.items) THEN Ended(SetResult(m, "no"), out) ELSE EofOrOn(m, i, out, Eof(m.items[i]))

EofNot(m, end) ==
  Ended(SetResult([m EXCEPT !.match = end.m], IF Result(end.m) = "yes" THEN "no" ELSE "yes"), end.out)

EofOptional(m, end) == Ended(SetResult([m EXCEPT !.match = end.m], "yes"), end.out)

\* What was begun counts when it ends well.
Enough(m) == SetResult(m, IF m.count >= m.minimum /\ (m.maximum = 0 \/ m.count <= m.maximum) THEN "yes" ELSE "no")

EofRepeat(m, end) ==
  Ended(Enough([m EXCEPT !.item = <<end.m>>, !.count = IF Result(end.m) = "yes" THEN @ + 1 ELSE @]), end.out)

\* Match::eof: what has no match inside fails.
EofDecided(end, heard) ==
  CASE heard.m.result # "none" -> heard
    [] Result(end.m) = "yes" -> HearNext(heard, Succeed(heard.m))
    [] OTHER -> [heard EXCEPT !.m = SetResult(@, "no")]

EofAfter(m, end) == EofDecided(end, HearAll([m EXCEPT !.match = end.m], end.out))
EofInner(m) == EofAfter(m, IF Result(m.match) = "none" THEN Eof(m.match) ELSE Ended(m.match, <<>>))

EofDemand(m, end) ==
  Ended(SetResult([m EXCEPT !.match = <<end.m>>], IF Result(end.m) = "yes" THEN "yes" ELSE "no"), end.out)

\* Integer::eof: the digits so far are enough.
EofInteger(m) == Ended(SetResult(m, IF m.match.match.count > 0 THEN "yes" ELSE "no"), <<>>)

\* Number::eof: a whole number stands without what may follow it.
EofWhole(m, end) ==
  SetResult([m EXCEPT !.match.match.items[2] = end.m], IF Result(end.m) = "yes" THEN "yes" ELSE "none")

\* WebRequest::eof: the headers and the body first.
EofParts(m, headers, body) ==
  IF ParsesJSON(m)
  THEN [m EXCEPT !.match.items[2].match.match = headers, !.match.items[4].match = body,
                 !.result = IF Result(body) = "yes" THEN @ ELSE "no"]
  ELSE [m EXCEPT !.match.items[2].match.match = headers]

\* Body::eof: bytes are counted, and no body is a body when none was announced.
NoBody(m) == m.name = "body" /\ m.members.count = 0 /\ m.members.length = 0
EofBytes(m) == IF m.members.count # m.members.length THEN SetResult(m, "no") ELSE m

\* What a class of its own does before its match ends.
EofBefore(m) ==
  CASE m.op = "class" /\ m.name = "number" -> EofWhole(m, EofInteger(m.match.match.items[2]))
    [] m.op = "class" /\ m.name = "request" -> EofParts(m, Eof(HeadersOf(m)).m, Eof(BodyOf(m)).m)
    [] OTHER -> m

EofOn(m) == IF m.op = "class" /\ m.name = "request" /\ m.result = "no" THEN Ended(m, <<>>) ELSE EofInner(m)

\* eof(parser)
Eof(m) ==
  CASE m.op \in {"and", "or", "not", "word"} /\ Result(m) # "none" -> Ended(m, <<>>)
    [] m.op = "and" -> EofAnd(m, m.at, <<>>)
    [] m.op = "or" -> EofOr(m, 1, <<>>)
    [] m.op = "not" -> EofNot(m, Eof(m.match))
    [] m.op = "optional" -> EofOptional(m, Eof(m.match))
    [] m.op = "repeat" /\ (m.item = <<>> \/ Result(m.item[1]) # "none") -> Ended(Enough(m), <<>>)
    [] m.op = "repeat" -> EofRepeat(m, Eof(m.item[1]))
    [] m.op \in {"character", "word"} \/ m.match = <<>> -> Ended(SetResult(m, "no"), <<>>)
    [] m.op = "demand" -> EofDemand(m, IF Result(m.match[1]) = "none" THEN Eof(m.match[1]) ELSE Ended(m.match[1], <<>>))
    [] m.op = "bytes" -> Ended(EofBytes(m), <<>>)
    [] m.op = "class" /\ NoBody(m) -> Ended(SetResult(m, "yes"), <<>>)
    [] m.op = "class" /\ m.name = "integer" -> EofInteger(m)
    [] OTHER -> EofOn(EofBefore(m))
=============================================================================
