------------------------------ MODULE Reading ------------------------------
(***************************************************************************)
(* A text read character by character with one of the grammars, as it      *)
(* comes in from a file or a connection, and the walk over what a query    *)
(* finds.                                                                  *)
(***************************************************************************)
EXTENDS Parser, Results

CONSTANTS Modes,     \* what is read: "json", "query", "request", "bytes"
          Alphabet,  \* the characters of each
          Texts,     \* bound: the texts of each that are read to the end
          Loose      \* bound: the length any text may have in each

VARIABLES mode,    \* the grammar
          text,    \* what was read
          parser,  \* its match, the bytes still to hand on, its result, and whether the text ended
          told,    \* what was told while reading
         walk     \* the walk over the results: its way, the path and its count,
                  \* the id it goes on from, where it is, and what it showed

vars == <<mode, text, parser, told, walk>>

Start(m) ==
  CASE m = "json" -> JSON [] m = "query" -> Expression
    [] m = "request" -> WebRequest(TRUE) [] m = "bytes" -> WebRequest(FALSE)

NoWalk == [way |-> "none", path |-> <<>>, count |-> 0, from |-> <<>>, it |-> <<>>, shown |-> <<>>]

\* All texts are read up to here.
Starts == [m \in Modes |-> UNION {{SubSeq(t, 1, n) : n \in 1 .. Len(t)} : t \in Texts[m]}]

Init ==
  /\ mode \in Modes
  /\ text = <<>>
  /\ parser = [match |-> Start(mode), data |-> 0, result |-> "none", ended |-> FALSE]
  /\ told = <<>>
  /\ walk = NoWalk

Wilds(events) == \E i \in DOMAIN events : events[i].on = "wild"

-----------------------------------------------------------------------------
(* Parser::read and Parser::eof. *)

\* A byte of the body.
ReadByte(c) ==
  /\ parser.data > 0
  /\ parser' = [match |-> [parser.match EXCEPT !.match.items[4].match = Byte(@)],
                data |-> parser.data - 1,
                result |-> IF parser.data = 1 THEN "yes" ELSE "none",
                ended |-> FALSE]
  /\ told' = told

\* A character for the match; what the headers announce comes as bytes.
ReadMatch(c) ==
  /\ parser.data = 0
  /\ LET fed == Feed(parser.match, c)
         bytes == \E i \in DOMAIN fed.out : fed.out[i].on = "data"
     IN /\ parser' = [match |-> fed.m,
                      data |-> IF bytes THEN BodyOf(fed.m).members.length ELSE 0,
                      result |-> Result(fed.m),
                      ended |-> FALSE]
        /\ told' = told \o fed.out

ReadCharacter ==
  /\ parser.result = "none"
  /\ ~ Wilds(told)
  /\ \E c \in Alphabet[mode] :
       /\ Len(text) < Loose[mode] \/ Append(text, c) \in Starts[mode]
       /\ text' = Append(text, c)
       /\ ReadByte(c) \/ ReadMatch(c)
  /\ UNCHANGED <<mode, walk>>

ReadEof ==
  /\ parser.result = "none"
  /\ ~ Wilds(told)
  /\ LET end == Eof(parser.match)
     IN /\ parser' = [parser EXCEPT !.match = end.m, !.result = Result(end.m), !.ended = TRUE]
        /\ told' = told \o end.out
  /\ UNCHANGED <<mode, text, walk>>

-----------------------------------------------------------------------------
(* The walk over the results. *)

\* Where the walk is now, and what it shows there.
Shown(way, shown, it) ==
  walk' = [walk EXCEPT !.way = way, !.it = it, !.shown = IF it.found THEN Append(shown, Id(it)) ELSE shown]

BeginWalk ==
  /\ mode = "query" /\ parser.result = "yes" /\ ~ Wilds(told)
  /\ walk.way = "none"
  /\ LET path == GetPath(parser.match)
     IN walk' = [walk EXCEPT !.way = "begin", !.path = path, !.count = CountAll(path), !.it = Begin(path)]
  /\ UNCHANGED <<mode, text, parser, told>>

\* begin(from), for the index of any document: what the link to the next page has for
\* an index is never set.  An id that is not in the path is refused.
TakeUpWalk ==
  /\ walk.way = "begin" /\ walk.from = <<>>
  /\ \E from \in DOMAIN Keys : \E places \in {Places(walk.path, Keys[from])} :
       \/ /\ places = {}
          /\ walk' = [walk EXCEPT !.way = "refused", !.from = Keys[from]]
       \/ \E place \in places : walk' = [walk EXCEPT !.from = Keys[from], !.it = place]
  /\ UNCHANGED <<mode, text, parser, told>>

\* The first document from where the walk begins, and the next.
AdvanceWalk ==
  /\ walk.way = "begin" \/ (walk.way = "forward" /\ walk.it.found)
  /\ Shown("forward", walk.shown, Advance(walk.it))
  /\ UNCHANGED <<mode, text, parser, told>>

\* rbegin(), and back from the last one.
ReturnWalk ==
  /\ \/ /\ walk.way = "forward" /\ ~ walk.it.found /\ walk.from = <<>>
        /\ walk' = [walk EXCEPT !.way = "rbegin", !.it = Begin(walk.path), !.shown = <<>>]
     \/ /\ walk.way = "rbegin" \/ (walk.way = "back" /\ walk.it.found)
        /\ Shown("back", walk.shown, RAdvance(walk.it))
  /\ UNCHANGED <<mode, text, parser, told>>

Next == ReadCharacter \/ ReadEof \/ BeginWalk \/ TakeUpWalk \/ AdvanceWalk \/ ReturnWalk

Spec == Init /\ [][Next]_vars
=============================================================================
