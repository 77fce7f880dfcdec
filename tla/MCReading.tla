----------------------------- MODULE MCReading -----------------------------
(***************************************************************************)
(* Texts to read, made from what they say, and what must come of them.     *)
(***************************************************************************)
EXTENDS Reading

Chain(a, b) == {x \o y : x \in a, y \in b}
Each(strings) == {<<s>> : s \in strings}

-----------------------------------------------------------------------------
(* JSON: values with their texts and what is told of them. *)

Told0(on) == Told(on, <<>>)
Says(spelling, events) == [text |-> spelling, told |-> events]

Of(type) == <<Told("value", <<type>>)>>

Numbers ==
  {Says(n, Of("integer")) : n \in {<<"1">>, <<"4", "0">>}}
    \cup {Says(n, Of("number")) : n \in {<<"-", "1">>, <<"1", ".", "4">>, <<"0", "e", "-", "1">>, <<"1", ".", "0", "e", "4">>}}

Literals == {Says(<<"n", "ul">>, Of("null")), Says(<<"t", "r">>, Of("boolean")), Says(<<"f", "a">>, Of("boolean"))}

\* What is in a string: how it is spelled, and the character.
Spelled ==
  {[text |-> <<"a">>, is |-> "a"], [text |-> <<"1">>, is |-> "1"], [text |-> <<"\\", "\"">>, is |-> "\""],
   [text |-> <<"\\", "n">>, is |-> "\n"], [text |-> <<"\\", "u", "0", "0", "4", "0">>, is |-> "@"]}

StringSpelled == UNION {[1 .. n -> Spelled] : n \in 0 .. 2} \cup [1 .. 3 -> {s \in Spelled : Len(s.text) = 1}]

Spelling(s) == <<"\"">> \o FlattenSeq([i \in DOMAIN s |-> s[i].text]) \o <<"\"">>
Meaning(s) == [i \in DOMAIN s |-> s[i].is]

\* A page at a time.
Pages(value) ==
  [k \in 1 .. (Len(value) + PageSize - 1) \div PageSize |->
     Told("part string", SubSeq(value, (k - 1) * PageSize + 1, IF k * PageSize > Len(value) THEN Len(value) ELSE k * PageSize))]

Strings ==
  {Says(Spelling(s), <<Told0("begin string")>> \o Pages(Meaning(s)) \o <<Told0("end string")>> \o Of("string"))
     : s \in StringSpelled}

Simple == Literals \cup {Says(<<"1">>, Of("integer")), Says(<<"-", "1", ".", "0">>, Of("number"))}
            \cup {v \in Strings : Len(v.text) = 3}

Gaps == {<<>>, <<" ">>}

\* The items with separators, with or without blanks.
ArrayOf(items, gap) ==
  Says(<<"[">> \o gap
         \o FlattenSeq([i \in DOMAIN items |->
              (IF i = 1 THEN <<>> ELSE gap \o <<",">> \o gap) \o items[i].text]) \o gap \o <<"]">>,
       <<Told0("begin array")>>
         \o FlattenSeq([i \in DOMAIN items |-> items[i].told \o <<Told0("array value")>>])
         \o <<Told0("end array")>> \o Of("array"))

KeyNames == <<<<"a">>, <<"1", "1">>, <<"a", "1">>>>

ObjectOf(items, gap) ==
  Says(<<"{">> \o gap
         \o FlattenSeq([i \in DOMAIN items |->
              (IF i = 1 THEN <<>> ELSE gap \o <<",">> \o gap)
                \o <<"\"">> \o KeyNames[i] \o <<"\"">> \o gap \o <<":">> \o gap \o items[i].text])
         \o gap \o <<"}">>,
       <<Told0("begin object")>>
         \o FlattenSeq([i \in DOMAIN items |->
              <<Told("object key", KeyNames[i])>> \o items[i].told \o <<Told("object value", KeyNames[i])>>])
         \o <<Told0("end object")>> \o Of("object"))

Lists(values, n) == UNION {[1 .. k -> values] : k \in 0 .. n}

Flat == {ArrayOf(l, g) : l \in Lists(Simple, 2), g \in Gaps} \cup {ObjectOf(l, g) : l \in Lists(Simple, 2), g \in Gaps}
Little == {v \in Flat : Len(v.text) <= 3} \cup {Says(<<"1">>, Of("integer"))}
            \cup {ObjectOf(<<Says(<<"n", "ul">>, Of("null"))>>, <<>>)}
Few == Lists(Little, 2) \cup {<<v, v, v>> : v \in Little}
Deep == {ArrayOf(l, g) : l \in Few, g \in Gaps} \cup {ObjectOf(l, g) : l \in Few, g \in Gaps}

Values == Numbers \cup Literals \cup Strings \cup Flat \cup Deep
JSONTexts == {v.text : v \in Values}

-----------------------------------------------------------------------------
(* Documents, and queries with the documents they ask for. *)

H == String1(<<Small>>)
MCUserId == <<One>>
Own == <<H, String1(MCUserId)>>
Everyone == <<H, String1(Public)>>
A == String1(<<Small>>)
Eleven == String1(<<One, One>>)

DocumentList ==
  <<Own, Everyone, Own \o <<A>>, Own \o <<A, Eleven>>, Own \o <<A, Integer1(2)>>,
    Own \o <<String1(<<Capital, Small>>)>>, Everyone \o <<A>>, Everyone \o <<A, A>>, <<>>, <<H>>>>

MCDocuments == {DocumentList[i] : i \in DOMAIN DocumentList}
MCPosition == [d \in MCDocuments |-> CHOOSE i \in DOMAIN DocumentList : DocumentList[i] = d]

Asked == {d \in MCDocuments : Len(d) > 1}
Key == [d \in Asked |-> ToKey(d)]

Having == [a |-> {DocumentList[i] : i \in {1, 3, 4, 7}}, b |-> {DocumentList[i] : i \in {3, 5, 6, 7, 8}}]

MCKeys == [n \in {MCPosition[d] : d \in Asked} |-> Key[DocumentList[n]]]
NumbersOf(documents) == {MCPosition[d] : d \in documents}

MCBounds == NumbersOf(Asked)
MCWords == <<"a">> :> NumbersOf(Having.a) @@ <<"b">> :> NumbersOf(Having.b)

For(spelling, documents) == [text |-> spelling, for |-> documents]

Items1 ==
  {For(<<"a">>, Having.a), For(<<"b">>, Having.b), For(<<"!", "a">>, Asked \ Having.a),
   For(<<"n", "ot", " ", "b">>, Asked \ Having.b),
   For(<<"(", "a", "|", "b", ")">>, Having.a \cup Having.b),
   For(<<"!", "(", "a", " ", "b", ")">>, Asked \ (Having.a \cap Having.b))}

Ands == {<<" ">>, <<"+">>, <<" ", "a", "nd", " ">>}
Ors == {<<"|">>, <<" ", "o", "r", " ">>}

\* From left to right, whatever the operators.
Joined(lefts, rights, operators) ==
  {For(l.text \o op \o r.text, IF op \in Ands THEN l.for \cap r.for ELSE l.for \cup r.for)
     : l \in lefts, r \in rights, op \in operators}

Short == {i \in Items1 : Len(i.text) = 1}
Queries ==
  Items1 \cup {For(i.text \o <<"$">>, i.for) : i \in Short}
    \cup Joined(Items1, Items1, {<<"|">>}) \cup Joined(Short, Items1, {<<"+">>})
    \cup Joined(Short, Short, Ands \cup Ors)
    \cup Joined(Joined(Short, Short, {<<" ">>}), Items1, {<<"|">>})
RECURSIVE Before(_, _)
Before(k, l) ==
  k # <<>> /\ l # <<>> /\ (k[1] < l[1] \/ (k[1] = l[1] /\ Before(Tail(k), Tail(l))))

InOrder(documents) ==
  [n \in 1 .. Cardinality(documents) |->
     CHOOSE k \in {Key[d] : d \in documents} : Cardinality({d \in documents : Before(Key[d], k)}) = n - 1]

\* Those without another of them inside.
Innermost(documents) ==
  {d \in documents : ~ \E e \in documents : d # e /\ IsPrefix(d, e)}

\* What a query for these documents shows, forwards and backwards.
Wanted(documents) ==
  [documents |-> documents, shows |-> InOrder(Innermost(documents)), back |-> Reverse(InOrder(documents))]

Asks == [t \in {q.text : q \in Queries} |-> Wanted((CHOOSE q \in Queries : q.text = t).for)]

-----------------------------------------------------------------------------
(* Requests and what must be read of them. *)

Target(spelling, path, items) == [text |-> spelling, path |-> path, items |-> items]
Targets ==
  {Target(<<"/">>, <<"/">>, <<>>), Target(<<"/", "a", "/", "1">>, <<"/", "a", "/", "1">>, <<>>),
   Target(<<"http", ":", "//", "h", ":", "1", "/", "a">>, <<"/", "a">>, <<>>),
   Target(<<"http", "s", ":", "//", "h", "/", "?", "a", "=", "1", "&", "h", "=", "%61", "&", "a", "=", "%61", "1">>,
          <<"/">>, <<"a">> :> <<"a", "1">> @@ <<"h">> :> <<"a">>)}

HeaderLists ==
  {<<>>, <<<<"h", "a">>>>, <<<<"h", "a">>, <<"h", "1">>>>}

Length == 0 :> "0" @@ 1 :> "1" @@ 4 :> "4"

RequestOf(method, target, lists, line, body, announced) ==
  LET lengths == IF announced THEN <<<<"Length", Length[Len(body)]>>>> ELSE <<>>
      lines == lists \o lengths
      named(l) == IF l[1] = "Length" THEN "length" ELSE l[1]
  IN [text |-> <<method, " ">> \o target.text \o <<" ", "HTTP/1.", "1">> \o line
                 \o FlattenSeq([i \in DOMAIN lines |-> <<lines[i][1], ":", " ", lines[i][2]>> \o line])
                 \o line \o body,
      method |-> <<method>>, path |-> target.path, items |-> target.items,
      headers |-> [n \in {<<named(lines[i])>> : i \in DOMAIN lines} |->
                     <<lines[CHOOSE i \in DOMAIN lines :
                               <<named(lines[i])>> = n /\ \A j \in 1 .. i - 1 : <<named(lines[j])>> # n][2]>>],
      body |-> body]

Lines == {<<"\r", "\n">>, <<"\n">>}

\* A request whose body is JSON, and one whose body is bytes with their count.
Requests ==
  [m \in {"request", "bytes"} |->
     {RequestOf("GET", t, l, n, <<>>, FALSE) : t \in Targets, l \in HeaderLists \ {<<>>}, n \in Lines}
       \cup {RequestOf("POST", t, l, n, b, TRUE) :
               t \in Targets, l \in HeaderLists, n \in Lines,
               b \in IF m = "request" THEN {<<"[", "1", " ", "]">>, <<"{", " ", " ", "}">>} ELSE {<<>>, <<"a">>}}]
RequestFor == [m \in {"request", "bytes"} |->
                [t \in {r.text : r \in Requests[m]} |-> CHOOSE r \in Requests[m] : r.text = t]]

-----------------------------------------------------------------------------
(* What is checked. *)

MCModes == {"json", "query", "request", "bytes"}
MCTexts == [m \in MCModes |->
              CASE m = "json" -> JSONTexts [] m = "query" -> DOMAIN Asks [] OTHER -> DOMAIN RequestFor[m]]
MCAlphabet == [m \in MCModes |-> UNION {{t[i] : i \in DOMAIN t} : t \in MCTexts[m]}]
MCLoose == [m \in MCModes |-> CASE m \in {"json", "query"} -> 2 [] OTHER -> 1]

Events ==
  {"value", "array value", "object key", "object value", "part string", "data", "wild"}
    \cup {when \o what : when \in {"begin ", "end "}, what \in {"string", "array", "object"}}

\* Every part has its type; what is told outside is never an event from inside a grammar.
TypeOK ==
  /\ mode \in Modes
  /\ text \in Seq(Alphabet[mode])
  /\ parser.result \in {"none", "yes", "no"} /\ parser.data \in Nat
  /\ \A i \in DOMAIN told : told[i].on \in Events
  /\ walk.way \in {"none", "begin", "forward", "rbegin", "back", "refused"}

Done == parser.result # "none"

\* Nothing is decided while a text is not complete.
NotEarly == text \in Starts[mode] \ Texts[mode] /\ ~ parser.ended => ~ Done

\* A JSON text is accepted, and its values, keys and ends are told in the
\* order they stand in the text, each string page by page.
TextsRead ==
  mode = "json" =>
    /\ NotEarly
    /\ Done /\ text \in JSONTexts => parser.result = "yes" /\ Says(text, told) \in Values

\* Shown so far, and all of it at the end.
Follows(ids) == IsPrefix(walk.shown, ids) /\ (~ walk.it.found => walk.shown = ids)

\* The walk shows what is wanted.
Walked(wanted) ==
  /\ walk.way # "none" => walk.count = Len(wanted.shows)
  /\ walk.way = "forward" =>
       Follows(IF walk.from = <<>> THEN wanted.shows
               ELSE SelectSeq(wanted.shows, LAMBDA id : Before(walk.from, id)))
  /\ walk.way = "back" => Follows(wanted.back)
  /\ walk.from # <<>> => (walk.way = "refused" <=> \A d \in wanted.documents : Key[d] # walk.from)

\* A query shows the documents that have its words, in the order of their
\* keys, each once unless one inside it is shown; from an index on, those after
\* its document, which must be one the query asks for; count() says how many.
\* Backwards every document asked for is shown.
ResultExact ==
  mode = "query" =>
    /\ NotEarly
    /\ text \in DOMAIN Asks => (Done => parser.result = "yes") /\ Walked(Asks[text])

\* The link shown for a document leads back to it, with its index or by its
\* names alone.
LinksFollow ==
  \A i \in DOMAIN walk.shown :
    LET document == CHOOSE d \in Asked : Key[d] = walk.shown[i]
    IN /\ FromString(<<H>>, KeyToString(walk.shown[i])) = document
       /\ FromString(<<H>>, Link(ToString1(document), 0)) = document

\* A request is complete with its last character, not before, and gives the
\* method, path, search, headers and body it was made of.
RequestRead ==
  mode \in {"request", "bytes"} =>
    /\ NotEarly
    /\ text \in Texts[mode] =>
         LET r == RequestFor[mode][text]
             m == parser.match
         IN /\ parser.result = "yes"
            /\ MethodOf(m) = r.method
            /\ Path(URLOf(m)) = r.path /\ Items(URLOf(m)) = r.items
            /\ HeadersOf(m).members = r.headers
            /\ IF mode = "request" THEN HasJSON(m) = (r.method = <<"POST">>)
               ELSE BodyOf(m).members.count = Len(r.body)
=============================================================================
