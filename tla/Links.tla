------------------------------- MODULE Links -------------------------------
(***************************************************************************)
(* The ids of documents and the links to them (JSONPath): an id is the     *)
(* names on the way to a document, written so that a document comes before *)
(* all inside it; a link is what a user sees of it.  A document is the     *)
(* sequence of names to it: its host, its user, and then its own.          *)
(***************************************************************************)
EXTENDS PowerEncoding, FiniteSetsExt

CONSTANTS Documents,  \* the documents there are, with all on the way to them
          Position,   \* the index of each, a number of its own
          UserId      \* the user who asks

\* The characters names are made of, and some names.
Small == 0
One == 1
Capital == 2
Quote1 == 3
Public == <<4>>
My == <<5>>
Http == <<6>>
EncodedHttp == <<7>>
LowerOf(value) == [i \in DOMAIN value |-> IF value[i] = Capital THEN Small ELSE value[i]]

String1(value) == [type |-> "string", value |-> value]
Integer1(value) == [type |-> "integer", value |-> value]

\* The digits of a number, as many as it says.
ToText(number) == [i \in 1 .. number |-> One]
IsDigitsOnly(value) == value # <<>> /\ \A i \in DOMAIN value : value[i] = One
Quoted(value) == <<Quote1>> \o value \o <<Quote1>>
IsQuoted(value) == Len(value) > 1 /\ value[1] = Quote1 /\ Last(value) = Quote1

-----------------------------------------------------------------------------
(* Ids. *)

TypeNumber == [integer |-> 4, string |-> 6]

NameBits(order, name) ==
  Encode(1) \o Encode(order) \o Encode(TypeNumber[name.type])
    \o (IF name.type = "integer" THEN Encode(name.value) ELSE EncodeString(name.value))

\* The user comes first: the private ones before the host and the public one.
UserName(path) ==
  CASE path = <<>> -> <<>>
    [] Len(path) = 1 -> NameBits(1, String1(<<>>))
    [] OTHER -> NameBits(IF path[2].value = Public THEN 2 ELSE 0, path[2])

\* Mutant: digits are not told from an index.
KeyNamePlain(name) == IF name.type = "integer" THEN name ELSE String1(LowerOf(name.value))

\* How a name is written in an id.
KeyName(name) ==
  IF name.type = "integer" THEN name
  ELSE String1(IF IsDigitsOnly(name.value) THEN Quoted(name.value) ELSE LowerOf(name.value))

RECURSIVE ToKey(_)

\* toKey(): what is inside a page has the id of the document before the one it is in.
ToKey(path) ==
  LET inside == SubSeq(path, 3, Len(path))
      pages == {i \in 3 .. Len(path) : path[i].type = "string" /\ LowerOf(path[i].value) = Http}
  IN IF pages # {} THEN ToKey(SubSeq(path, 1, Max(pages) - 2))
     ELSE <<1>> \o UserName(path)
            \o FlattenSeq([i \in DOMAIN inside |-> NameBits(0, KeyName(inside[i]))])
            \o Encode(0) \o Encode(Position[path]) \o <<0>>

RECURSIVE NamesFrom(_, _)

\* The names from here on, and what comes after them.
NamesFrom(bits, names) ==
  LET next == Decode(bits)
      order == Decode(next.rest)
      type == Decode(order.rest)
      value == IF type.value = TypeNumber.integer THEN Decode(type.rest) ELSE DecodeString(type.rest)
  IN IF next.value = 0 THEN [names |-> names, rest |-> next.rest]
     ELSE NamesFrom(value.rest, Append(names, <<order.value, type.value, value.value>>))

Names(id) == NamesFrom(Tail(id), <<>>)

\* getIndexFromId(id)
IndexOf(id) == Decode(Names(id).rest).value

\* startsWith(parent, child): only one without names starts with none.
StartsWith(parent, child) ==
  LET above == Names(parent).names
      below == Names(child).names
  IN IF above = <<>> THEN below = <<>> ELSE IsPrefix(above, below)

-----------------------------------------------------------------------------
(* Links: the names in them, and the index asked for. *)

Link(names, index) == [names |-> names, index |-> index]

ShownName(name) == IF name[2] = TypeNumber.integer THEN ToText(name[3]) ELSE name[3]

\* keyToString(auth, id): nothing but the index of what is not for the user.
KeyToString(id) ==
  LET names == Names(id).names
      inside == SubSeq(names, 2, Len(names))
      user == IF names = <<>> THEN <<>> ELSE names[1][3]
      shown == [i \in DOMAIN inside |-> ShownName(inside[i])]
  IN CASE names = <<>> -> Link(<<>>, IndexOf(id))
       [] user = Public -> Link(shown, IndexOf(id))
       [] user = UserId -> Link(<<My>> \o shown, IndexOf(id))
       [] OTHER -> Link(<<>>, IF inside = <<>> THEN IndexOf(id) ELSE inside[1][1])

TextOf(name) ==
  IF name.type = "integer" THEN ToText(name.value)
  ELSE IF IsDigitsOnly(name.value) THEN Quoted(name.value) ELSE name.value

\* toString(auth): the names after the host; a page is cut off, and nothing is shown of another user.
ToString1(path) ==
  LET user == IF Len(path) < 2 THEN Public ELSE path[2].value
      texts == [i \in 1 .. Len(path) - 2 |-> TextOf(path[i + 2])]
      page == SelectInSeq(texts, LAMBDA text : text = EncodedHttp)
      shown == IF page = 0 THEN texts ELSE SubSeq(texts, 1, page - 1)
  IN CASE user = Public -> shown [] user = UserId -> <<My>> \o shown [] OTHER -> <<>>

\* The document one name further on, if it is there.
Further(path, text) ==
  LET name == IF IsDigitsOnly(text) THEN Integer1(Len(text))
              ELSE String1(IF IsQuoted(text) THEN SubSeq(text, 2, Len(text) - 1) ELSE text)
      further == Append(path, name)
  IN IF path # <<>> /\ further \in Documents THEN further ELSE <<>>

\* fromString(auth, database, url) of a url on this host: empty when nothing is found.
FromString(host, link) ==
  LET asked == {path \in Documents : Position[path] = link.index}
      lower == [i \in DOMAIN link.names |-> LowerOf(link.names[i])]
      user == IF link.names # <<>> /\ link.names[1] \in {My, UserId} THEN UserId ELSE Public
      names == IF user = UserId THEN Tail(link.names) ELSE link.names
      start == Append(host, String1(user))
      otherUser == names # <<>> /\ user = Public
                     /\ \E path \in Documents :
                          Len(path) = 2 /\ path[2].value = names[1] /\ names[1] \notin {Public, UserId}
  IN IF link.index # 0
     THEN LET path == CHOOSE path \in asked : TRUE
              text == ToString1(path)
          IN IF asked # {} /\ [i \in DOMAIN text |-> LowerOf(text[i])] = lower THEN path ELSE <<>>
     ELSE IF otherUser THEN <<>> ELSE FoldLeft(Further, start, names)
=============================================================================
