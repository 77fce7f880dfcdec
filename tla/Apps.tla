-------------------------------- MODULE Apps --------------------------------
(***************************************************************************)
(* The applications of the server (src/code/https/*-app.h).  A request is  *)
(* given to one after the other until one sets a status; what the status   *)
(* needs is written later, by Response.  An application that reads or      *)
(* writes documents does so with a handle of the Pool: the steps of two of *)
(* them interleave.                                                        *)
(***************************************************************************)
EXTENDS Authentication, Integers

CONSTANTS PageSize,  \* getPageSize(), in parts of a text
          MaxPage,   \* bound: pages of a text
          Files      \* path -> what the file system has there

\* What the file system may have at a path.
Kinds == {"none", "outside", "bare directory", "directory", "index", "file", "unknown"}

ASSUME AppsAssumption ==
  PageSize \in Nat \ {0} /\ MaxPage \in Nat \ {0} /\ Files \in [DOMAIN Files -> Kinds]

(* A request has a method, a path, what it searches for, what it asks of   *)
(* /authenticate and the secret with it, whether its body is JSON, whether *)
(* its body or its query can be read, a text of some length, and whether   *)
(* it comes from a script.                                                 *)

VARIABLES app,     \* thread -> the application that has its request, what it does, and what it decided
          storage, \* user -> the text stored under the key, and whether two wrote it at once
          json     \* user -> the document under /my: what was posted as JSON, and as anything else

apps == <<app, storage, json>>

NoApp == [n |-> 0, in |-> "none", status |-> -1, serve |-> "content", length |-> 0, page |-> 0, sent |-> 0, mixed |-> FALSE]

NoPage == [by |-> "none", size |-> 0]
Nothing == [pages |-> [k \in 0 .. MaxPage - 1 |-> NoPage], length |-> 0, type |-> FALSE, count |-> 0, torn |-> FALSE]
NoDocument == [json |-> "none", http |-> "none", length |-> 0]

AppsTypeOK ==
  /\ \A t \in Thread :
       /\ app[t].n \in 0 .. 7 /\ app[t].status \in Int
       /\ app[t].serve \in {"content", "file", "data", "json", "query", "http"}
       /\ app[t].length \in Int /\ app[t].page \in 0 .. MaxPage /\ app[t].sent \in Nat /\ app[t].mixed \in BOOLEAN
  /\ \A u \in DOMAIN storage : storage[u].length \in Nat /\ storage[u].count \in 0 .. MaxPage
  /\ DOMAIN json = DOMAIN storage

AppsInit ==
  /\ app = [t \in Thread |-> NoApp]
  /\ storage = [u \in User \cup {NoUser} |-> Nothing]
  /\ json = [u \in User \cup {NoUser} |-> NoDocument]

\* A thread runs its application, with its methods returned.
At(t, step) == app[t].in = step /\ Resting(t)

\* It runs with a handle of its own.
Within(t, step) == app[t].in = step /\ auth[t].in = "none" /\ Holds(t)

Do(t, a) == app' = [app EXCEPT ![t] = a]
Continue(t, step) == Do(t, [app[t] EXCEPT !.in = step])

\* No status: the next application.
Pass(t) == Do(t, [app[t] EXCEPT !.n = @ + 1, !.in = "start"])
Decide(t, status, serve) == Do(t, [app[t] EXCEPT !.in = "decided", !.status = status, !.serve = serve])

Serve(t, status, serve, length) ==
  Do(t, [app[t] EXCEPT !.in = "decided", !.status = status, !.serve = serve, !.length = length])

\* The exception ends the session.
Throw(t) == Continue(t, "thrown")

\* Those that read or write what a user has, besides t.
Others(t) == {o \in Thread \ {t} : auth[o].user = auth[t].user /\ app[o].in # "none"}

\* What t does is not seen whole by the others, and what they write not by t.
Changes == {"page", "length", "type", "count", "drop"}
Disturbed(t) == \E o \in Others(t) : app[o].in \in Changes

\* t goes on after a change.
Mix(t, a) == app' = [o \in Thread |-> IF o = t THEN a ELSE IF o \in Others(t) THEN [app[o] EXCEPT !.mixed = TRUE] ELSE app[o]]

-----------------------------------------------------------------------------
(* OptionsApp, FileSystemApp, NotFoundApp *)

OptionsApp(t, r) ==
  /\ At(t, "start") /\ app[t].n = 1
  /\ IF r.method = "OPTIONS" THEN Decide(t, 204, "content") ELSE Pass(t)
  /\ UNCHANGED <<storage, json, authentication, pool>>

IsMy(r) == r.path = "/my/x"

FileSystemApp(t, r) ==
  /\ At(t, "start") /\ app[t].n = 4
  /\ LET file == Files[r.path]
     IN CASE r.search \notin {"", "redirect"} \/ IsMy(r) \/ file = "none" -> Pass(t)
          [] file = "outside" -> Throw(t)
          [] file = "bare directory" -> Decide(t, 307, "content")
          [] file = "directory" -> Decide(t, 200, "content")
          [] file = "index" -> Decide(t, 200, "file")
          [] file = "file" -> Decide(t, 200, "file")
          [] file = "unknown" -> Pass(t)
  /\ UNCHANGED <<storage, json, authentication, pool>>

NotFoundApp(t, r) ==
  /\ At(t, "start") /\ app[t].n = 6
  /\ Decide(t, 404, "content")
  /\ UNCHANGED <<storage, json, authentication, pool>>

-----------------------------------------------------------------------------
(* AuthenticationApp *)

Privileged == {"/authenticate", "/client/logon/"}

\* What a request asks of /authenticate: nothing when its body is not JSON.
Asked(r) ==
  IF r.path # "/authenticate" THEN "other"
  ELSE IF r.method = "GET" THEN "getStatus"
  ELSE IF r.valid THEN r.ask ELSE "none"

AuthenticationApp(t, r) ==
  /\ At(t, "start") /\ app[t].n = 2
  /\ CASE Asked(r) = "getStatus" -> CallAuthenticate(t) /\ Continue(t, "status")
       [] Asked(r) = "logon" /\ r.secret = "" -> Throw(t) /\ UNCHANGED <<auth, ask>>
       [] Asked(r) = "logon" /\ r.secret # "" -> CallLogon(t, r.secret) /\ Continue(t, "status")
       [] Asked(r) = "logoff" -> CallLogoff(t) /\ Continue(t, "status")
       [] Asked(r) = "none" -> Pass(t) /\ UNCHANGED <<auth, ask>>
       [] Asked(r) = "other" /\ auth[t].ok -> Continue(t, "check") /\ UNCHANGED <<auth, ask>>
       [] Asked(r) = "other" /\ ~ auth[t].ok -> CallAuthenticate(t) /\ Continue(t, "check")
  /\ UNCHANGED <<storage, json, secrets, seen, made, raced, databases, signal>>

AuthenticationAnswer(t, r) ==
  /\ At(t, "status") \/ At(t, "check")
  /\ CASE ~ auth[t].ok /\ (r.path \notin Privileged \/ r.search # "") ->
            Decide(t, 401, IF r.fetch THEN "content" ELSE "file")
       [] OTHER -> IF app[t].in = "status" THEN Decide(t, 200, "content") ELSE Pass(t)
  /\ UNCHANGED <<storage, json, authentication, pool>>

-----------------------------------------------------------------------------
(* StorageApp *)

StorageApp(t, r) ==
  /\ At(t, "start") /\ app[t].n = 3
  /\ IF auth[t].ok THEN Request(t) /\ Continue(t, "storage") ELSE Pass(t) /\ UNCHANGED ask
  /\ UNCHANGED <<storage, json, authentication, databases, signal>>

\* Without a key, or an id, there is nothing to do.
StorageMethod(t, r) ==
  /\ Within(t, "storage")
  /\ CASE r.search # "key" -> Pass(t) /\ Release(t)
       [] r.search = "key" /\ r.method = "GET" -> Continue(t, "has") /\ UNCHANGED ask
       [] r.search = "key" /\ r.method = "POST" ->
            Continue(t, IF r.length = 0 THEN "drop" ELSE "page") /\ UNCHANGED ask
  /\ UNCHANGED <<storage, json, authentication, databases, signal>>

Pages(r) == (r.length + PageSize - 1) \div PageSize
PageOf(r, k) == [by |-> r.text, size |-> IF (k + 1) * PageSize <= r.length THEN PageSize ELSE r.length % PageSize]

\* A change of what is stored, which whoever is reading or writing it does not see whole.
Change(t, text, step, page) ==
  /\ storage' = [storage EXCEPT ![auth[t].user] = [text EXCEPT !.torn = @ \/ Disturbed(t)]]
  /\ Mix(t, [app[t] EXCEPT !.in = step, !.page = page])
  /\ UNCHANGED <<json, authentication, databases, signal>>

StorePage(t, r) ==
  /\ Within(t, "page")
  /\ LET k == app[t].page
     IN Change(t, [storage[auth[t].user] EXCEPT !.pages[k] = PageOf(r, k)],
               IF k + 1 = Pages(r) THEN "length" ELSE "page", k + 1)
  /\ UNCHANGED ask

StoreLength(t, r) ==
  /\ Within(t, "length")
  /\ Change(t, [storage[auth[t].user] EXCEPT !.length = r.length], "type", app[t].page)
  /\ UNCHANGED ask

StoreType(t) ==
  /\ Within(t, "type")
  /\ Change(t, [storage[auth[t].user] EXCEPT !.type = TRUE], "count", app[t].page)
  /\ UNCHANGED ask

StoreCount(t, r) ==
  /\ Within(t, "count")
  /\ Change(t, [storage[auth[t].user] EXCEPT !.count = Pages(r)], "stored", app[t].page)
  /\ UNCHANGED ask

Stored(t) ==
  /\ Within(t, "stored")
  /\ Decide(t, 200, "content") /\ Release(t)
  /\ UNCHANGED <<storage, json, authentication, databases, signal>>

\* deleteData: the pages, and then all that is below the key.
DropPage(t) ==
  /\ Within(t, "drop")
  /\ app[t].page < storage[auth[t].user].count
  /\ Change(t, [storage[auth[t].user] EXCEPT !.pages[app[t].page] = NoPage], "drop", app[t].page + 1)
  /\ UNCHANGED ask

Drop(t) ==
  /\ Within(t, "drop")
  /\ app[t].page >= storage[auth[t].user].count
  /\ Change(t, Nothing, "stored", app[t].page)
  /\ UNCHANGED ask

\* Is there a text, and a type?
FindText(t) ==
  /\ Within(t, "has")
  /\ LET text == storage[auth[t].user]
     IN IF text.length > 0 /\ text.type
        THEN Do(t, [app[t] EXCEPT !.in = "size", !.mixed = text.torn \/ Disturbed(t)]) /\ UNCHANGED ask
        ELSE Decide(t, 404, "content") /\ Release(t)
  /\ UNCHANGED <<storage, json, authentication, databases, signal>>

\* The length of a text cleared meanwhile is what happens to be in memory.
FindLength(t) ==
  /\ Within(t, "size")
  /\ \E n \in IF storage[auth[t].user].length > 0 THEN {storage[auth[t].user].length} ELSE 0 .. PageSize :
       Serve(t, 200, "data", n)
  /\ Release(t)
  /\ UNCHANGED <<storage, json, authentication, databases, signal>>

-----------------------------------------------------------------------------
(* JSONApp *)

JSONApp(t, r) ==
  /\ At(t, "start") /\ app[t].n = 5
  /\ CASE ~ auth[t].ok \/ (r.path = "/" /\ r.search = "") -> Pass(t) /\ UNCHANGED ask
       [] auth[t].ok /\ r.path = "/x" ->
            (IF r.method = "POST" THEN Decide(t, 500, "content") ELSE Pass(t)) /\ UNCHANGED ask
       [] OTHER -> Continue(t, "json") /\ Request(t)
  /\ UNCHANGED <<storage, json, authentication, databases, signal>>

\* fromString: what is asked for is there.
Exists(t, r) == IF IsMy(r) THEN json[auth[t].user] # NoDocument ELSE r.path = "/"

GetDocument(t, r) ==
  /\ Within(t, "json") /\ r.method = "GET"
  /\ LET document == json[auth[t].user]
     IN CASE ~ Exists(t, r) -> Pass(t)
          [] Exists(t, r) /\ r.search # "" -> Serve(t, 200, "query", -1)
          [] Exists(t, r) /\ r.search = "" /\ document.http # "none" -> Serve(t, 200, "http", document.length)
          [] Exists(t, r) /\ r.search = "" /\ document.http = "none" -> Serve(t, 200, "json", -1)
  /\ Release(t)
  /\ UNCHANGED <<storage, json, authentication, databases, signal>>

\* The document is written whole, or up to where its text fails, in one step;
\* how the writing of several interleaves is the subject of Document.  What was
\* posted as a page stays when an object is posted.
PostDocument(t, r) ==
  /\ Within(t, "json") /\ r.method = "POST"
  /\ IF ~ IsMy(r) THEN Pass(t) /\ UNCHANGED json
     ELSE /\ json' = [json EXCEPT ![auth[t].user] =
                        IF r.json THEN [@ EXCEPT !.json = r.text] ELSE [@ EXCEPT !.http = r.text, !.length = r.length]]
          /\ Mix(t, [app[t] EXCEPT !.in = "decided", !.serve = "content",
                                   !.status = IF r.json /\ ~ r.valid THEN 500 ELSE 200])
  /\ Release(t)
  /\ UNCHANGED <<storage, authentication, databases, signal>>

AppStep(t, r) ==
  \/ OptionsApp(t, r) \/ AuthenticationApp(t, r) \/ AuthenticationAnswer(t, r)
  \/ StorageApp(t, r) \/ StorageMethod(t, r) \/ StorePage(t, r) \/ StoreLength(t, r)
  \/ StoreType(t) \/ StoreCount(t, r) \/ Stored(t) \/ DropPage(t) \/ Drop(t)
  \/ FindText(t) \/ FindLength(t)
  \/ FileSystemApp(t, r) \/ JSONApp(t, r) \/ GetDocument(t, r) \/ PostDocument(t, r)
  \/ NotFoundApp(t, r)
=============================================================================
