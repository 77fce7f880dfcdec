------------------------------ MODULE MCServer ------------------------------
(* Values for the constants of Server. *)
EXTENDS Server, TLC

CONSTANTS t1, t2, c1, c2, b1, b2

MCThread == {t1, t2}
MCConnection == {c1, c2}
MCBrowser == {b1, b2}
MCSecret == {"x", "y"}

MCFiles ==
  [path \in {"/", "/x", "/my/x", "/authenticate", "/client/logon/", "/page", "/lost", "/above", "/folder", "/folder/", "/odd"} |->
     CASE path \in {"/", "/client/logon/"} -> "index" [] path \in {"/x", "/page"} -> "file"
       [] path = "/above" -> "outside" [] path = "/folder" -> "bare directory" [] path = "/folder/" -> "directory"
       [] path = "/odd" -> "unknown" [] OTHER -> "none"]

Get(path) ==
  [id |-> <<>>, cookie |-> NoSession, owner |-> "", method |-> "GET", path |-> path, search |-> "", ask |-> "none",
   secret |-> "", text |-> "none", length |-> 0, json |-> TRUE, valid |-> TRUE, fetch |-> TRUE, keep |-> TRUE,
   parts |-> 1, broken |-> FALSE, fails |-> FALSE]
Find(path, search) == [Get(path) EXCEPT !.search = search]
Post(path) == [Get(path) EXCEPT !.method = "POST"]
Enter(x) == [Post("/authenticate") EXCEPT !.ask = "logon", !.secret = x, !.owner = x]
Quit == [Post("/authenticate") EXCEPT !.ask = "logoff"]
Status == Get("/authenticate")
Keep(text, length) == [Post("/page") EXCEPT !.search = "key", !.text = text, !.length = length, !.json = FALSE]
Fetch == Find("/page", "key")
PostMy(text, isJSON) == [Post("/my/x") EXCEPT !.text = text, !.length = 1, !.json = isJSON]

Both(requests) == [r \in {c1, c2} |-> IF r = c1 THEN requests[1] ELSE requests[2]]
New(handles, one, requests) ==
  [databases |-> handles, requests |-> Both(requests), leaving |-> FALSE, expiring |-> FALSE,
   browser |-> [c \in {c1, c2} |-> IF one \/ c = c1 THEN b1 ELSE b2],
   users |-> [x \in MCSecret |-> 0], ids |-> <<>>, cookies |-> [b \in {b1, b2} |-> NoCookie]]

\* The browsers are logged on already, each with a secret of its own.
On(handles, one, requests) ==
  [New(handles, one, requests) EXCEPT !.users = [x \in MCSecret |-> IF x = "x" THEN 1 ELSE 2], !.ids = <<1, 2>>,
     !.cookies = [b \in {b1, b2} |-> IF b = b1 THEN [id |-> 1, secret |-> "x"] ELSE [id |-> 2, secret |-> "y"]]]

\* Each application, one request after the other.
Tour ==
  << [Post("/authenticate") EXCEPT !.valid = FALSE], Get("/page"), [Get("/page") EXCEPT !.fetch = FALSE], Get("/client/logon/"), Find("/client/logon/", "key"),
     [Get("/page") EXCEPT !.method = "OPTIONS"], Quit, Enter("x"), Status, Get("/page"), Get("/lost"),
     Get("/odd"), Get("/folder"), Get("/folder/"), Get("/"), Find("/", "query"), Find("/page", "redirect"), Get("/x"), Find("/x", "query"),
     [Find("/x", "query") EXCEPT !.method = "POST"], Post("/page"),
     [Post("/authenticate") EXCEPT !.valid = FALSE], Post("/lost"), Get("/my/x"), PostMy("A", TRUE), Get("/my/x"),
     [PostMy("C", TRUE) EXCEPT !.valid = FALSE], PostMy("D", FALSE), Get("/my/x"), PostMy("F", TRUE), Find("/my/x", "query"),
     Fetch, Keep("E", 3), Fetch, Keep("G", 0), Fetch, Quit, Fetch, Enter("x"), [Fetch EXCEPT !.keep = FALSE] >>

Ends ==
  << <<Enter("x"), Get("/above")>>, <<Enter("")>>, <<[Status EXCEPT !.broken = TRUE]>>,
          <<[Enter("x") EXCEPT !.fails = TRUE]>>, <<[Enter("x") EXCEPT !.parts = 2], [Get("/page") EXCEPT !.parts = 2]>>,
          <<Enter("x"), [Fetch EXCEPT !.method = "DELETE"]>>, <<Status, Enter("x"), Fetch>>,
     <<Enter("x"), Keep("A", 3), Fetch>>,
     <<Enter("x"), [Find("/", "query") EXCEPT !.valid = FALSE], Status>>,
     <<Enter("x"), [Find("/", "query") EXCEPT !.valid = FALSE, !.keep = FALSE]>> >>

MCPlans ==
  << New(1, TRUE, <<Tour, <<>> >>),
     New(1, FALSE, << <<Enter("x")>>, <<Enter("x")>> >>),
     New(2, FALSE, << <<Enter("x")>>, <<Enter("x")>> >>),
     On(2, FALSE, << <<Keep("A", 2)>>, <<Fetch>> >>),
     On(2, TRUE, << <<Quit>>, <<Status>> >>),
     On(1, TRUE, << <<Keep("A", 1)>>, <<Fetch>> >>),
     On(2, TRUE, << <<Keep("A", 3), Keep("B", 1)>>, <<Fetch>> >>),
     On(2, TRUE, << <<Keep("A", 1), Keep("D", 0)>>, <<Fetch>> >>),
     On(2, TRUE, << <<PostMy("A", TRUE), PostMy("B", FALSE)>>, <<Get("/my/x")>> >>) >>
  \o [i \in DOMAIN Ends |-> [New(1, TRUE, <<Ends[i], <<>> >>) EXCEPT !.leaving = TRUE, !.expiring = TRUE]]
=============================================================================
