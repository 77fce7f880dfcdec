------------------------------ MODULE Response ------------------------------
(***************************************************************************)
(* A request is answered (src/code/https/response.h, response-stream.h):   *)
(* who asks is found out, the applications are tried in their order, and   *)
(* what the first that sets a status decided is written to the connection, *)
(* its content with a handle of its own.  What was decided may have been   *)
(* changed by then, and a write fails once the client is gone.             *)
(***************************************************************************)
EXTENDS Apps, Sequences, SequencesExt

CONSTANT Connection \* the connections to the server

VARIABLES up,    \* connection -> the client is still there
          answer \* connection -> what it was sent for its request, and by whose leave

response == <<up, answer>>

NoAnswer == [to |-> <<>>, status |-> 0, ok |-> FALSE, user |-> NoUser, id |-> NoSession, cookie |-> FALSE,
             announced |-> 0, parts |-> <<>>, ended |-> FALSE, mixed |-> FALSE]

ResponseTypeOK ==
  /\ up \in [Connection -> BOOLEAN]
  /\ \A c \in Connection :
       /\ answer[c].user \in User \cup {NoUser} /\ answer[c].id \in SessionId \cup {NoSession}
       /\ answer[c].announced \in Nat \cup {-1}
       /\ \A i \in DOMAIN answer[c].parts : answer[c].parts[i].size \in 1 .. PageSize * MaxPage

ResponseInit ==
  /\ up = [c \in Connection |-> FALSE]
  /\ answer = [c \in Connection |-> NoAnswer]

Length(parts) == FoldLeft(LAMBDA sum, part : sum + part.size, 0, parts)

\* Response::Response: the session of the cookie, if there is one.
NewResponse(t, r) ==
  /\ app' = [app EXCEPT ![t] = [NoApp EXCEPT !.n = 1, !.in = "start"]]
  /\ IF r.cookie = NoSession THEN auth' = [auth EXCEPT ![t] = NoAuth] /\ UNCHANGED ask
     ELSE Call(t, [NoAuth EXCEPT !.in = "authenticate", !.id = r.cookie])

\* The length of a content is known, which is one part; options, and a key that
\* StorageApp has no text for, have none.
Announced(a) ==
  CASE a.serve \in {"content", "file"} -> IF a.status = 204 \/ (a.status = 404 /\ a.n = 3) THEN 0 ELSE 1
    [] OTHER -> a.length

WriteHeaders(t, c, r) ==
  /\ At(t, "decided")
  /\ IF ~ up[c] THEN Continue(t, "written") /\ UNCHANGED <<ask, answer>>
     ELSE /\ Continue(t, "content") /\ Request(t)
          /\ answer' = [answer EXCEPT ![c] =
               [NoAnswer EXCEPT !.to = r.id, !.status = app[t].status, !.announced = Announced(app[t]),
                                !.ok = auth[t].ok, !.user = auth[t].user, !.id = auth[t].id,
                                !.cookie = app[t].n > 1]]
  /\ UNCHANGED <<up, storage, json, authentication, databases, signal>>

\* Response::write returns, or its exception is caught.
Written(t) == Continue(t, "written") /\ Release(t)

\* A part of what is told from the memory of the application, a file or the results of a query.
Part(name, size) == IF size = 0 THEN <<>> ELSE <<[by |-> name, size |-> size]>>

Content(t) ==
  LET document == json[auth[t].user]
  IN CASE app[t].serve \in {"content", "file"} -> Part("content", Announced(app[t]))
       [] app[t].serve = "query" -> Part("content", 1)
       [] app[t].serve = "json" -> Part(document.json, 1)
       [] app[t].serve = "http" -> Part(document.http, document.length)

\* What a query searches for is no expression, or the index to go on from no
\* number: the exception is caught with the headers sent, and the last chunk is
\* not written.
Unreadable(t, r) == app[t].serve = "query" /\ ~ r.valid

WriteContent(t, c, r) ==
  /\ Within(t, "content") /\ app[t].serve # "data"
  /\ answer' = IF ~ up[c] \/ Unreadable(t, r) THEN answer
               ELSE [answer EXCEPT ![c] = [@ EXCEPT !.parts = Content(t), !.ended = TRUE, !.mixed = app[t].mixed]]
  /\ Written(t)
  /\ UNCHANGED <<up, storage, json, authentication, databases, signal>>

\* As PageAt with the size of a page one too large.
PageAtShort(t) == storage[auth[t].user].pages[app[t].sent \div (PageSize + 1)]

\* The number of a page comes from what was sent.
PageAt(t) == storage[auth[t].user].pages[app[t].sent \div PageSize]

WritePage(t, c) ==
  /\ Within(t, "content") /\ app[t].serve = "data" /\ up[c]
  /\ app[t].sent < app[t].length
  /\ PageAt(t).size > 0
  /\ answer' = [answer EXCEPT ![c].parts = Append(@, PageAt(t)), ![c].mixed = app[t].mixed]
  /\ Do(t, [app[t] EXCEPT !.sent = @ + PageAt(t).size])
  /\ UNCHANGED <<up, storage, json, authentication, pool>>

\* As EndPages without the end at a page that has nothing.
EndPagesAll(t, c) ==
  /\ Within(t, "content") /\ app[t].serve = "data"
  /\ app[t].sent >= app[t].length \/ ~ up[c]
  /\ answer' = IF up[c] THEN [answer EXCEPT ![c] = [@ EXCEPT !.ended = TRUE, !.mixed = app[t].mixed]] ELSE answer
  /\ Written(t)
  /\ UNCHANGED <<up, storage, json, authentication, databases, signal>>

\* All was sent, or a page has nothing, or the client is gone.
EndPages(t, c) ==
  /\ Within(t, "content") /\ app[t].serve = "data"
  /\ \/ ~ up[c] /\ UNCHANGED answer
     \/ /\ up[c]
        /\ app[t].sent >= app[t].length \/ PageAt(t).size = 0
        /\ answer' = [answer EXCEPT ![c] = [@ EXCEPT !.ended = TRUE, !.mixed = app[t].mixed]]
  /\ Written(t)
  /\ UNCHANGED <<up, storage, json, authentication, databases, signal>>

\* The client has all that was announced; a content of unknown length ends with a mark.
Complete(c) ==
  IF answer[c].announced = -1 THEN answer[c].ended
  ELSE answer[c].status # 0 /\ Length(answer[c].parts) >= answer[c].announced

\* No more is sent.
Short(c) == answer[c].ended /\ ~ Complete(c)

ResponseStep(t, c, r) ==
  \/ AppStep(t, r) /\ UNCHANGED response
  \/ WriteHeaders(t, c, r) \/ WriteContent(t, c, r) \/ WritePage(t, c) \/ EndPages(t, c)
=============================================================================
