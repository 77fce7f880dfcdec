------------------------------- MODULE Server -------------------------------
(***************************************************************************)
(* The server with its clients (src/code/https/main.cpp).  A client sends  *)
(* the requests of its plan over one connection, each in one or two parts, *)
(* and waits for the answer of one before it sends the next; it may go     *)
(* away at any time.  The connections of a browser share its cookie.       *)
(***************************************************************************)
EXTENDS Session

CONSTANTS Browser, \* the browsers
          Plans    \* a sequence of what the clients may do: the requests of each connection and its browser, whether
                   \* clients go away and sessions expire; and what there is before: the number of
                   \* handles, the users of secrets and session ids, and the cookies

\* A request as a plan has it; its id and the cookie are set when it is sent.
Requests ==
  [id : {<<>>}, cookie : {NoSession}, owner : Secret \cup {""}, method : {"GET", "POST", "OPTIONS", "DELETE"},
   path : DOMAIN Files, search : STRING, ask : {"none", "logon", "logoff"}, secret : Secret \cup {""}, text : STRING,
   length : 0 .. PageSize * MaxPage, json : BOOLEAN, valid : BOOLEAN, fetch : BOOLEAN, keep : BOOLEAN,
   parts : Nat \ {0}, broken : BOOLEAN, fails : BOOLEAN]

ASSUME ServerAssumption ==
  \A p \in DOMAIN Plans : Plans[p].requests \in [Connection -> Seq(Requests)] /\ Plans[p].databases \in Nat \ {0}

NoCookie == [id |-> NoSession, secret |-> ""]

\* What there is before is what the server makes: users and ids are numbered as they are created, no
\* two secrets have one user, and an id and a cookie are of a user who logged on.  A request is its
\* owner's by the secret it logs on with, or else by the cookie it is sent with.
ASSUME PlansAssumption ==
  /\ IsFiniteSet(Connection)
  /\ \A p \in DOMAIN Plans :
       LET q == Plans[p]
           having == {x \in Secret : q.users[x] # NoUser}
       IN /\ q.browser \in [Connection -> Browser]
          /\ Cardinality(having) \in 0 .. MaxUser /\ q.users \in [Secret -> 0 .. Cardinality(having)]
          /\ \A x, y \in having : q.users[x] = q.users[y] => x = y
          /\ q.ids \in Seq(User) /\ Len(q.ids) <= MaxSession
          /\ \A i \in DOMAIN q.ids : \E x \in having : q.ids[i] = q.users[x]
          /\ q.cookies \in [Browser -> [id : SessionId \cup {NoSession}, secret : Secret \cup {""}]]
          /\ \A b \in Browser : q.cookies[b] = NoCookie
               \/ \E i \in DOMAIN q.ids, x \in having : q.cookies[b] = [id |-> i, secret |-> x] /\ q.ids[i] = q.users[x]
          /\ \A c \in Connection : \A i \in DOMAIN q.requests[c] :
               LET r == q.requests[c][i]
               IN r.owner = IF r.method = "POST" /\ Asked(r) = "logon" THEN r.secret ELSE ""

VARIABLES plan,   \* the number of one of them
          client, \* connection -> requests begun, parts sent of the last
          cookie, \* browser -> the session id it was given, and the secret it logged on with
          known,  \* history: secret -> the user the first answer told
          posted  \* history: what was posted: secret, text and length

clients == <<client, cookie, known, posted>>
vars == <<plan, clients, coming, tasks, file, answers>>

Init ==
  /\ plan \in DOMAIN Plans
  /\ client = [c \in Connection |-> [begun |-> 0, sent |-> 0]]
  /\ cookie = Plans[plan].cookies
  /\ known = Plans[plan].users
  /\ posted = {}
  /\ PoolInit(Plans[plan].databases) /\ AuthenticationInit(Plans[plan].users, Plans[plan].ids)
  /\ AppsInit /\ ResponseInit /\ SessionInit

Jar(c) == Plans[plan].browser[c]
More(c) == client[c].begun < Len(Plans[plan].requests[c])

Waits(c) == coming[c].request # NoRequest

-----------------------------------------------------------------------------
(* The clients. *)

Connect(c) ==
  /\ ~ up[c] /\ session[c].life = "none" /\ More(c)
  /\ up' = [up EXCEPT ![c] = TRUE]
  /\ UNCHANGED <<plan, clients, coming, tasks, file, answer, apps, authentication, pool>>

\* The first part of a request, with the cookie.
Send(c) ==
  /\ up[c] /\ session[c].life = "open" /\ ~ Waits(c) /\ More(c)
  /\ LET n == client[c].begun + 1
         r == [Plans[plan].requests[c][n] EXCEPT !.id = <<c, n>>, !.cookie = cookie[Jar(c)].id,
                 !.owner = IF @ = "" THEN cookie[Jar(c)].secret ELSE @]
     IN /\ coming' = [coming EXCEPT ![c] = [request |-> r, parts |-> 1]]
        /\ posted' = IF r.method = "POST" THEN posted \cup {<<r.owner, r.text, r.length>>} ELSE posted
        /\ client' = [client EXCEPT ![c] = [begun |-> n, sent |-> 1]]
  /\ UNCHANGED <<plan, cookie, known, tasks, file, answers>>

SendRest(c) ==
  /\ up[c] /\ Waits(c) /\ client[c].sent < coming[c].request.parts
  /\ client' = [client EXCEPT ![c].sent = @ + 1]
  /\ coming' = [coming EXCEPT ![c].parts = @ + 1]
  /\ UNCHANGED <<plan, cookie, known, posted, tasks, file, answers>>

\* The answer is there, and whole.
Answered(c) == Waits(c) /\ answer[c].to = coming[c].request.id /\ Complete(c)

\* The browser keeps the cookie; a logon tells the user.
Receive(c) ==
  /\ up[c] /\ Answered(c)
  /\ LET r == coming[c].request
         a == answer[c]
         x == r.owner
     IN /\ cookie' = IF ~ a.cookie THEN cookie
                     ELSE [cookie EXCEPT ![Jar(c)] = IF a.ok THEN [id |-> a.id, secret |-> x] ELSE NoCookie]
        /\ known' = IF a.ok /\ r.ask = "logon" /\ known[x] = NoUser THEN [known EXCEPT ![x] = a.user] ELSE known
  /\ coming' = [coming EXCEPT ![c] = Quiet]
  /\ UNCHANGED <<plan, client, posted, tasks, file, answers>>

GoAway(c) ==
  /\ Plans[plan].leaving /\ up[c]
  /\ up' = [up EXCEPT ![c] = FALSE]
  /\ UNCHANGED <<plan, clients, coming, tasks, file, answer, apps, authentication, pool>>

\* An hour goes by.
Expires ==
  /\ Plans[plan].expiring
  /\ \E i \in SessionId : Expire(i)
  /\ UNCHANGED <<plan, clients, coming, tasks, file, response, apps>>

Client(c) == Connect(c) \/ Send(c) \/ SendRest(c) \/ Receive(c) \/ GoAway(c)

Serving(t) == Task(t) /\ UNCHANGED <<plan, clients>>
Calling(c) == Callback(c) /\ UNCHANGED <<plan, clients>>

Next ==
  \/ \E c \in Connection : Client(c) \/ Calling(c)
  \/ \E t \in Thread : Serving(t)
  \/ Expires

\* The threads of the server run, and the one of its callbacks; the clients need not.
Fairness ==
  /\ \A t \in Thread : WF_vars(Serving(t))
  /\ WF_vars(\E c \in Connection : Calling(c))

Spec == Init /\ [][Next]_vars /\ Fairness

-----------------------------------------------------------------------------

TypeOK ==
  /\ PoolTypeOK /\ AuthenticationTypeOK /\ AppsTypeOK /\ ResponseTypeOK /\ SessionTypeOK
  /\ cookie \in [Browser -> [id : SessionId \cup {NoSession}, secret : Secret \cup {""}]]
  /\ known \in [Secret -> User \cup {NoUser}]

\* A session that is open waits to be read, or is in the queue, or is served:
\* exactly one of them, so that no thread uses what another deletes, and none
\* is forgotten; one that is gone is not used (Session::handleRead,
\* threadedHandleRead, closeOrRestart, delete this).
OneHandler ==
  \A c \in Connection :
    LET having == (IF session[c].reading THEN 1 ELSE 0)
                    + Cardinality({i \in DOMAIN queue : queue[i].c = c})
                    + Cardinality({t \in Thread : thread[t].c = c})
    IN having = IF session[c].life = "open" THEN 1 ELSE 0

\* In the file of transactions each request is whole, once, and not mixed with
\* another; that of a POST that is answered is there (appendToTransactionFile).
Transactions ==
  /\ \A i \in DOMAIN transactions :
       LET e == transactions[i]
       IN IF e.part = 1 THEN i = 1 \/ transactions[i - 1].last
          ELSE i > 1 /\ transactions[i - 1] = [e EXCEPT !.part = @ - 1, !.last = FALSE]
  /\ \A i, j \in DOMAIN transactions : i # j => transactions[i] # transactions[j]
  /\ \A c \in Connection :
       Answered(c) /\ coming[c].request.method = "POST"
         => \E i \in Copied(coming[c].request) : transactions[i].last

\* Who is told to be logged on is the user of the secret that was logged on
\* with, and what he is given is what was posted with that secret, whole.  Not
\* so when a session was cleared while it was authenticated, when two logged on
\* with a new secret at once, or when the text was posted meanwhile
\* (Authentication::logon, authenticate, StorageApp, JSONApp, ResponseStream).
OwnAnswer ==
  \A c \in Connection :
    LET a == answer[c]
        x == coming[c].request.owner
        texts == {a.parts[i].by : i \in DOMAIN a.parts}
    IN Answered(c) /\ a.ok /\ a.id \notin raced.ids /\ x \notin raced.secrets
         => /\ a.user # NoUser /\ known[x] \in {NoUser, a.user}
            /\ a.mixed \/ texts \in {{}, {"content"}}
                 \/ \E p \in posted : /\ p[1] = x /\ texts = {p[2]}
                                       /\ a.announced # -1 => a.announced = p[3] /\ Length(a.parts) = p[3]

\* The headers are there, and what is searched for could not be read.
Unfinished(c) ==
  LET r == coming[c].request
      a == answer[c]
  IN r.method = "GET" /\ ~ r.valid /\ a.to = r.id /\ a.announced = -1 /\ ~ a.ended

\* Every request that was sent whole is answered, or its session ends.  Not so for a
\* DELETE, which is never read to its end; for a query that cannot be read, which
\* has its headers and no last chunk; and what is announced and then changed may
\* stay short (Session::threadedHandleRead, Response::handleResponse,
\* ResponseStream::writeContent).
Answers ==
  \A c \in Connection :
    Waits(c) /\ client[c].sent = coming[c].request.parts /\ coming[c].request.method # "DELETE"
      ~> \/ ~ Waits(c) \/ Answered(c) \/ session[c].life = "gone"
         \/ Unfinished(c)
         \/ answer[c].mixed /\ Short(c)
=============================================================================
