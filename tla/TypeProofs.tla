----------------------------- MODULE TypeProofs -----------------------------
(***************************************************************************)
(* What the variables of Server hold, for any connections, threads,        *)
(* browsers and plans of the clients.  The argument: what a thread deals   *)
(* with is a request of a plan with the cookie of its browser; a method of *)
(* Authentication knows the id or the secret it needs; and the counters of *)
(* an application stay below the pages of its request.                     *)
(***************************************************************************)
EXTENDS TransactionProofs

\* The request a thread deals with, once it is read to its end.
Req(t) == session[thread[t].c].request
\* It is.
Late(t) == thread[t].at \in {"append", "copy", "respond", "answer"}

\* A step of t leaves the others where they are, but for what they see of a change.
OthersStay(t) ==
  \A u \in Thread \ {t} :
    /\ thread'[u] = thread[u] /\ auth'[u] = auth[u]
    /\ app'[u] = app[u] \/ (app[u].in # "none" /\ app'[u] = [app[u] EXCEPT !.mixed = TRUE])
    /\ Late(u) => Req(u)' = Req(u)

-----------------------------------------------------------------------------
(* Whose request is where. *)

\* What comes in was there, or is sent.
LEMMA ComingMoves ==
  ASSUME HandInv, FileInv, [Next]_vars, NEW c \in Connection, Waits(c)'
  PROVE  \/ Waits(c) /\ coming'[c].request = coming[c].request
         \/ Send(c)
<1>1. CASE UNCHANGED coming
  BY <1>1 DEF Waits
<1>2. ASSUME NEW d \in Connection, Client(d) \/ Calling(d), ~ Send(d)
      PROVE  \A e \in Connection : coming'[e].request \in {coming[e].request, NoRequest}
  <2>1. coming[d] \in [request : {coming[d].request}, parts : Nat] /\ coming = [e \in Connection |-> coming[e]]
    BY DEF HandInv, Fields
  <2>2. \/ coming' = coming \/ coming' = [coming EXCEPT ![d].parts = @ + 1]
        \/ coming' = [coming EXCEPT ![d] = Quiet] \/ coming' = [coming EXCEPT ![d].parts = 0]
    <3>1. CASE Client(d)
      BY <1>2, <3>1 DEF Client, Connect, SendRest, Receive, GoAway
    <3>2. CASE Calling(d)
      BY <3>2 DEF Calling, Callback, HandleAccept, HandleHandshake, HandleRead
    <3> QED
      BY <1>2, <3>1, <3>2
  <2> QED
    BY <2>1, <2>2 DEF Quiet
<1>3. ASSUME NEW d \in Connection, Send(d) PROVE \A e \in Connection \ {d} : coming'[e] = coming[e]
  <2>1. \E r : coming' = [coming EXCEPT ![d] = [request |-> r, parts |-> 1]]
    BY <1>3 DEF Send
  <2> QED
    BY <2>1 DEF HandInv, Fields
<1>4. ASSUME NEW t \in Thread, Serving(t) PROVE UNCHANGED coming
  BY <1>4 DEF Serving, Task, TakeTask, HandleParts, LockTransactions, CopyPart, HandleResponse, Answer, HandleException,
              CloseOrRestart
<1>5. UNCHANGED coming \/ \E d \in Connection : Client(d) \/ Calling(d)
  BY <1>4 DEF Next, Expires, vars
<1>6. CASE \E d \in Connection : Client(d) \/ Calling(d)
  <2>1. PICK d \in Connection : Client(d) \/ Calling(d)
    BY <1>6
  <2>2. CASE Send(d)
    BY <1>3, <2>2 DEF Waits
  <2>3. CASE ~ Send(d)
    BY <1>2, <2>1, <2>3 DEF Waits
  <2> QED
    BY <2>2, <2>3
<1> QED
  BY <1>1, <1>5, <1>6

\* A step that is of no thread leaves the threads and their requests.
LEMMA ThreadsStay ==
  ASSUME HandInv, FileInv, [Next]_vars, ~ \E t \in Thread : Serving(t)
  PROVE  UNCHANGED <<thread, app, ask>> /\ \A t \in Thread : thread[t].at # "idle" => Req(t)' = Req(t)
<1>1. CASE UNCHANGED <<tasks, apps, pool>>
  BY <1>1 DEF tasks, apps, pool, Req
<1>2. ASSUME NEW c \in Connection, Client(c) PROVE UNCHANGED <<tasks, apps, pool>>
  BY <1>2 DEF Client, Connect, Send, SendRest, Receive, GoAway, answers
<1>3. CASE Expires
  <2>1. UNCHANGED <<tasks, apps, pool>>
    BY <1>3 DEF Expires, Expire
  <2> QED
    BY <1>1, <2>1
<1>4. CASE UNCHANGED vars
  BY <1>1, <1>4 DEF vars, answers
<1>5. ASSUME NEW c \in Connection, Callback(c)
      PROVE  UNCHANGED <<thread, app, ask>> /\ \A t \in Thread : thread[t].at # "idle" => Req(t)' = Req(t)
  <2>1. UNCHANGED <<thread, app, ask>>
    BY <1>5 DEF Callback, HandleAccept, HandleHandshake, HandleRead, answers, apps, pool
  <2>2. \A t \in Thread : ~ Serves(c, t)
    <3>1. session[c].life # "open" \/ session[c].reading
      BY <1>5 DEF Callback, HandleAccept, HandleHandshake, HandleRead
    <3> QED
      BY <3>1 DEF HandInv, Alone, Kept
  <2>3. \A d \in Connection \ {c} : session'[d] = session[d]
    BY <1>5 DEF Callback, HandleAccept, HandleHandshake, HandleRead, HandInv, Fields
  <2>4. ASSUME NEW t \in Thread, thread[t].at # "idle" PROVE Req(t)' = Req(t)
    <3>1. thread[t].c \in Connection \ {c}
      BY <2>2, <2>4, ServedSession DEF Serves
    <3> QED
      BY <2>1, <2>3, <3>1 DEF Req
  <2> QED
    BY <2>1, <2>4
<1> QED
  BY <1>1, <1>2, <1>3, <1>4, <1>5 DEF Next, Calling

\* The steps of a task but those of its answer: it goes on with its session, or leaves it.
LEMMA TaskMoves ==
  ASSUME HandInv, FileInv, NEW t \in Thread, Task(t), ~ TakeTask(t), ~ Answer(t)
  PROVE  /\ thread[t].at # "idle" /\ thread[t].c \in Connection
         /\ \/ UNCHANGED <<session, thread>> /\ thread[t].at = "copy"
            \/ \E s : Leave(t, s)
            \/ HandleParts(t) /\ thread[t].at = "handle" /\ Waits(thread[t].c) /\ coming[thread[t].c].request.method # "DELETE"
               /\ \E s, at : at # "answer" /\ s.request = coming[thread[t].c].request /\ Proceed(t, s, at)
            \/ /\ ~ HandleParts(t) /\ Late(t)
               /\ \E at : (at = "answer" <=> HandleResponse(t)) /\ Proceed(t, session[thread[t].c], at)
<1>1. thread[t].at # "idle" /\ thread[t].c \in Connection /\ Reads(thread[t].c) /\ Serves(thread[t].c, t)
      /\ IsSession(session[thread[t].c])
  <2>1. thread[t].at # "idle"
    BY DEF Task, HandleParts, LockTransactions, CopyPart, HandleResponse, HandleException, CloseOrRestart
  <2> QED
    BY <2>1, Tasked
<1>2. CASE HandleParts(t)
  <2>1. PICK c, r : c \in Connection /\ c = thread[t].c /\ r = coming[c].request
    BY <1>1
  <2>2. PICK s : s = [session[c] EXCEPT !.request = r, !.got = @ + thread[t].parts]
    OBVIOUS
  <2>3. PICK w : w = [s EXCEPT !.temp = s.got]
    OBVIOUS
  <2>4. s.request = r /\ w.request = r
    BY <1>1, <2>1, <2>2, <2>3 DEF IsSession
  <2>5. \/ Leave(t, Delete) \/ Leave(t, ReadMore(w))
        \/ r.method \in {"GET", "OPTIONS"} /\ Proceed(t, s, "respond")
        \/ r.method = "POST" /\ Proceed(t, w, "append")
    BY <1>2, <2>1, <2>2, <2>3 DEF HandleParts
  <2>6. thread[t].at = "handle" /\ Waits(c)
    <3>1. thread[t].at = "handle"
      BY <1>2 DEF HandleParts
    <3>2. PICK p \in Nat \ {0} : Unread(c, p)
      BY <1>1, <2>1, <3>1 DEF Reads
    <3> QED
      BY <3>1, <3>2 DEF Unread
  <2> QED
    BY <1>1, <1>2, <2>1, <2>4, <2>5, <2>6
<1>3. CASE LockTransactions(t) \/ CopyPart(t) \/ HandleResponse(t)
  <2>1. /\ Late(t) /\ ~ HandleParts(t)
        /\ HandleResponse(t) => thread[t].at = "respond"
        /\ ~ HandleResponse(t) => thread[t].at \in {"append", "copy"}
    BY <1>3 DEF LockTransactions, CopyPart, HandleResponse, HandleParts, Late
  <2>2. \/ UNCHANGED <<session, thread>> /\ thread[t].at = "copy"
        \/ Proceed(t, session[thread[t].c], "copy") /\ thread[t].at = "append"
        \/ Proceed(t, session[thread[t].c], "respond") /\ thread[t].at = "copy"
        \/ Proceed(t, session[thread[t].c], "answer") /\ HandleResponse(t)
    BY <1>3 DEF LockTransactions, CopyPart, HandleResponse
  <2>3. thread[t].at \in {"append", "copy"} => ~ HandleResponse(t)
    BY DEF HandleResponse
  <2> QED
    BY <1>1, <2>1, <2>2, <2>3
<1>4. CASE HandleException(t) \/ CloseOrRestart(t)
  <2>1. \E s : Leave(t, s)
    BY <1>4 DEF HandleException, CloseOrRestart
  <2> QED
    BY <1>1, <2>1
<1> QED
  BY <1>2, <1>3, <1>4 DEF Task

\* What a thread deals with it did before, or has read to the end.
LEMMA TaskRequest ==
  ASSUME HandInv, FileInv, NEW t \in Thread, Serving(t)
  PROVE  /\ \A u \in Thread \ {t} : thread'[u] = thread[u] /\ (Late(u) => Req(u)' = Req(u))
         /\ Late(t)' => \/ Late(t) /\ thread'[t].c = thread[t].c /\ Req(t)' = Req(t)
                        \/ /\ HandleParts(t) /\ thread[t].at = "handle" /\ Waits(thread[t].c) /\ thread'[t].at # "answer"
                           /\ Req(t)' = coming[thread[t].c].request /\ coming[thread[t].c].request.method # "DELETE"
                           /\ thread'[t].c = thread[t].c
<1>1. CASE TakeTask(t)
  <2>1. session' = session /\ thread'[t].at = "handle" /\ \A u \in Thread \ {t} : thread'[u] = thread[u]
    BY <1>1 DEF TakeTask, HandInv, Fields
  <2> QED
    BY <2>1 DEF Late, Req
<1>2. CASE Answer(t)
  BY <1>2 DEF Answer, tasks, Late, Req
<1>3. CASE ~ TakeTask(t) /\ ~ Answer(t)
  <2>1. PICK c \in Connection : c = thread[t].c /\ thread[t].at # "idle"
    BY <1>3, TaskMoves DEF Serving
  <2>2. ASSUME \A u \in Thread \ {t} : thread'[u] = thread[u], \A d \in Connection \ {c} : session'[d] = session[d]
        PROVE  \A u \in Thread \ {t} : thread'[u] = thread[u] /\ (Late(u) => Req(u)' = Req(u))
    <3>1. ASSUME NEW u \in Thread \ {t}, Late(u) PROVE Req(u)' = Req(u)
      <4>1. thread[u].c \in Connection \ {c}
        BY <2>1, <3>1, OtherTask DEF Late
      <4> QED
        BY <2>2, <4>1 DEF Req
    <3> QED
      BY <2>2, <3>1
  <2>3. CASE UNCHANGED <<session, thread>> /\ thread[t].at = "copy"
    BY <2>3 DEF Late, Req
  <2>4. CASE \E s : Leave(t, s)
    <3>1. \A d \in Connection \ {c} : session'[d] = session[d]
      BY <2>1, <2>4, Leaves
    <3>2. thread'[t].at = "idle" /\ \A u \in Thread \ {t} : thread'[u] = thread[u]
      BY <2>1, <2>4, Leaves
    <3> QED
      BY <2>2, <3>1, <3>2 DEF Late
  <2>5. ASSUME NEW s, NEW at, Proceed(t, s, at)
        PROVE  /\ thread'[t].at = at /\ thread'[t].c = c /\ Req(t)' = s.request
               /\ \A u \in Thread \ {t} : thread'[u] = thread[u] /\ (Late(u) => Req(u)' = Req(u))
    <3>1. /\ session'[c] = s /\ \A d \in Connection \ {c} : session'[d] = session[d]
          /\ thread'[t].c = c /\ thread'[t].at = at /\ \A u \in Thread \ {t} : thread'[u] = thread[u]
      BY <2>1, <2>5, Proceeds
    <3> QED
      BY <2>2, <3>1 DEF Req
  <2>6. CASE /\ HandleParts(t) /\ thread[t].at = "handle" /\ Waits(c) /\ coming[c].request.method # "DELETE"
             /\ \E s, at : at # "answer" /\ s.request = coming[c].request /\ Proceed(t, s, at)
    BY <2>1, <2>5, <2>6
  <2>7. CASE Late(t) /\ \E at : Proceed(t, session[c], at)
    BY <2>1, <2>5, <2>7 DEF Req
  <2> QED
    BY <1>3, <2>1, <2>3, <2>4, <2>6, <2>7, TaskMoves DEF Serving
<1> QED
  BY <1>1, <1>2, <1>3 DEF Serving, Task

-----------------------------------------------------------------------------
(* The invariant. *)

\* The largest text, and what an application does at which place.
Most == PageSize * MaxPage
Writing == {"page", "length", "type", "count"}
Keeping == Writing \cup {"storage", "stored", "drop", "has", "size"}
Doing == {"none", "start", "thrown", "decided", "content", "written", "status", "check", "json"} \cup Keeping

\* A request of a plan, with a cookie and its owner.
Sendable(r) ==
  /\ r.cookie \in SessionId \cup {NoSession} /\ r.owner \in Secret \cup {""} /\ r.secret \in Secret \cup {""}
  /\ r.text \in STRING /\ r.length \in 0 .. Most

\* So is what comes in, and what a thread deals with.
Carried ==
  /\ \A c \in Connection : Waits(c) => Sendable(coming[c].request)
  /\ \A t \in Thread : Late(t) => Sendable(Req(t))

\* A method knows the id or the secret that it reads or writes.
Auths == [in : Methods, ok : BOOLEAN, id : SessionId \cup {NoSession}, user : User \cup {NoUser}, secret : Secret \cup {"none", ""}]
IsAuth(a) ==
  /\ a \in Auths
  /\ a.in \in {"time", "stamp", "user", "last", "logoff"} \/ a.ok => a.id # NoSession
  /\ a.in \in {"logon", "create", "secret", "session", "last"} => a.secret \in Secret

\* What the file has of users and sessions.
Recorded ==
  /\ secrets \in [Secret -> User \cup {NoUser}]
  /\ seen \in [SessionId -> [user : User \cup {NoUser}, last : {"none", "fresh", "old"}]]
  /\ made \in [users : {NoUser} \cup User, sessions : {NoSession} \cup SessionId]
  /\ raced \in [ids : SUBSET SessionId, secrets : SUBSET Secret]

\* Who has no answer to give does not ask.
Secured ==
  /\ Recorded
  /\ auth \in [Thread -> Auths]
  /\ \A t \in Thread : IsAuth(auth[t]) /\ (thread[t].at # "answer" => auth[t] = NoAuth)

-----------------------------------------------------------------------------
(* Who is logged on. *)

\* Who has no answer to give is nobody.
LEMMA NobodyAuth == IsAuth(NoAuth) /\ \A i \in SessionId : IsAuth([NoAuth EXCEPT !.in = "authenticate", !.id = i])
BY DEF IsAuth, NoAuth, Auths, Methods, NoSession, NoUser

\* The steps of a thread that change what is known of who asks.
LEMMA AuthMoves ==
  ASSUME NEW t \in Thread, Serving(t)
  PROVE  \/ thread[t].at = "answer" /\ AuthenticationStep(t) /\ UNCHANGED <<tasks, response, apps>>
         \/ /\ UNCHANGED <<secrets, seen, made, raced>>
            /\ \/ UNCHANGED auth /\ (thread[t].at # "answer" \/ UNCHANGED tasks)
               \/ HandleResponse(t)
               \/ HandleException(t) \/ CloseOrRestart(t)
               \/ thread[t].at = "answer" /\ AuthenticationApp(t, Req(t)) /\ UNCHANGED <<tasks, response>>
<1>1. CASE TakeTask(t) \/ HandleParts(t) \/ LockTransactions(t) \/ CopyPart(t)
  <2>1. UNCHANGED authentication /\ thread[t].at \notin {"respond", "answer"}
    BY <1>1 DEF TakeTask, HandleParts, LockTransactions, CopyPart, answers, Idle, NoTask
  <2> QED
    BY <2>1 DEF authentication
<1>2. CASE HandleResponse(t) \/ HandleException(t) \/ CloseOrRestart(t)
  BY <1>2, Zenon DEF HandleResponse, HandleException, CloseOrRestart
<1>3. CASE Answer(t)
  <2> DEFINE c == thread[t].c
             r == Req(t)
  <2>1. thread[t].at = "answer" /\ UNCHANGED tasks
    BY <1>3 DEF Answer
  <2>2. CASE UNCHANGED authentication
    BY <2>1, <2>2 DEF authentication
  <2>3. CASE AuthenticationStep(t) /\ UNCHANGED <<response, apps>>
    BY <2>1, <2>3
  <2>4. CASE PoolStep(t) /\ UNCHANGED <<response, apps, authentication>>
    BY <2>2, <2>4
  <2>5. CASE ResponseStep(t, c, r)
    <3>1. CASE AuthenticationApp(t, r) /\ UNCHANGED response
      BY <2>1, <3>1 DEF AuthenticationApp
    <3>2. CASE AppStep(t, r) /\ ~ AuthenticationApp(t, r)
      BY <2>2, <3>2 DEF AppStep, OptionsApp, FileSystemApp, NotFoundApp, AuthenticationAnswer, StorageApp, StorageMethod,
           StorePage, StoreLength, StoreType, StoreCount, Stored, DropPage, Drop, FindText, FindLength, JSONApp, GetDocument,
           PostDocument, Change
    <3>3. CASE WriteHeaders(t, c, r) \/ WriteContent(t, c, r) \/ WritePage(t, c) \/ EndPages(t, c)
      BY <2>2, <3>3 DEF WriteHeaders, WriteContent, WritePage, EndPages
    <3> QED
      BY <2>5, <3>1, <3>2, <3>3 DEF ResponseStep
  <2> QED
    BY <1>3, <2>3, <2>4, <2>5 DEF Answer, Req
<1> QED
  BY <1>1, <1>2, <1>3 DEF Serving, Task

\* What a method goes on with, or returns.
LEMMA AuthFields ==
  ASSUME NEW a, IsAuth(a)
  PROVE  /\ a \in Auths
         /\ \A in \in Methods : [a EXCEPT !.in = in] \in Auths /\ [a EXCEPT !.in = in].in = in
              /\ [a EXCEPT !.in = in].ok = a.ok /\ [a EXCEPT !.in = in].id = a.id
              /\ [a EXCEPT !.in = in].user = a.user /\ [a EXCEPT !.in = in].secret = a.secret
         /\ IsAuth([a EXCEPT !.in = "none"])
BY DEF IsAuth, Auths, Methods

\* A method that goes on or returns with a.
LEMMA GoTypes ==
  ASSUME Secured, NEW t \in Thread, NEW a, NEW in \in Methods, IsAuth([a EXCEPT !.in = in]),
         Go(t, a, in) \/ (in = "none" /\ Return(t, a))
  PROVE  \E b : IsAuth(b) /\ auth' = [auth EXCEPT ![t] = b]
BY DEF Go, Return

\* The methods that find out who asks.
LEMMA AuthenticateTypes ==
  ASSUME Secured, NEW t \in Thread, Authenticate(t) \/ CheckTime(t) \/ StampTime(t) \/ ReadUser(t) \/ Logoff(t)
  PROVE  Recorded' /\ \E a : IsAuth(a) /\ auth' = [auth EXCEPT ![t] = a]
<1>1. /\ Recorded /\ IsAuth(auth[t]) /\ auth[t] \in Auths
  BY DEF Secured, IsAuth
<1>2. CASE Authenticate(t)
  <2>1. Recorded'
    BY <1>1, <1>2 DEF Authenticate, Recorded
  <2>2. Return(t, auth[t]) \/ (auth[t].id # NoSession /\ Go(t, auth[t], "time"))
    BY <1>2 DEF Authenticate
  <2>3. auth[t].id # NoSession => IsAuth([auth[t] EXCEPT !.in = "time"])
    BY <1>1 DEF IsAuth, Auths, Methods
  <2> QED
    BY <1>1, <2>1, <2>2, <2>3, GoTypes, AuthFields DEF Methods
<1>3. CASE CheckTime(t)
  <2>1. Recorded' /\ auth[t].in = "time"
    BY <1>1, <1>3 DEF CheckTime, Recorded, In
  <2>2. Return(t, auth[t]) \/ Go(t, [auth[t] EXCEPT !.ok = TRUE], "stamp")
    BY <1>3 DEF CheckTime
  <2>3. IsAuth([[auth[t] EXCEPT !.ok = TRUE] EXCEPT !.in = "stamp"])
    BY <1>1, <2>1 DEF IsAuth, Auths, Methods
  <2> QED
    BY <1>1, <2>1, <2>2, <2>3, GoTypes, AuthFields DEF Methods
<1>4. CASE StampTime(t)
  <2>1. auth[t].in = "stamp" /\ auth[t].id \in SessionId
    BY <1>1, <1>4 DEF StampTime, In, IsAuth, Auths
  <2>2. Recorded'
    BY <1>1, <1>4, <2>1 DEF StampTime, Recorded
  <2>3. IsAuth([auth[t] EXCEPT !.in = "user"])
    BY <1>1, <2>1 DEF IsAuth, Auths, Methods
  <2> QED
    BY <1>4, <2>2, <2>3, GoTypes DEF StampTime, Methods
<1>5. CASE ReadUser(t)
  <2>1. auth[t].in = "user" /\ auth[t].id \in SessionId
    BY <1>1, <1>5 DEF ReadUser, In, IsAuth, Auths
  <2>2. Recorded'
    BY <1>1, <1>5, <2>1 DEF ReadUser, Recorded
  <2>3. IsAuth([[auth[t] EXCEPT !.user = seen[auth[t].id].user] EXCEPT !.in = "none"])
    BY <1>1, <2>1 DEF IsAuth, Auths, Methods, Recorded
  <2> QED
    BY <1>5, <2>2, <2>3, GoTypes DEF ReadUser, Methods
<1>6. CASE Logoff(t)
  <2>1. auth[t].in = "logoff" /\ auth[t].id \in SessionId
    BY <1>1, <1>6 DEF Logoff, In, IsAuth, Auths
  <2>2. Recorded'
    BY <1>1, <1>6, <2>1 DEF Logoff, Recorded, Cleared, NoUser
  <2>3. IsAuth([Forget(auth[t]) EXCEPT !.in = "none"])
    BY <1>1, <2>1 DEF IsAuth, Auths, Methods, Forget, NoSession, NoUser
  <2> QED
    BY <1>6, <2>2, <2>3, GoTypes DEF Logoff, Methods
<1> QED
  BY <1>2, <1>3, <1>4, <1>5, <1>6

\* The methods that log on.
LEMMA LogonTypes ==
  ASSUME Secured, NEW t \in Thread,
         Logon(t) \/ CreateUser(t) \/ StoreSecret(t) \/ StoreSession(t) \/ StoreLast(t)
  PROVE  Recorded' /\ \E a : IsAuth(a) /\ auth' = [auth EXCEPT ![t] = a]
<1>1. /\ Recorded /\ IsAuth(auth[t]) /\ auth[t] \in Auths
      /\ auth[t].secret \in Secret
  BY DEF Secured, IsAuth, Logon, CreateUser, StoreSecret, StoreSession, StoreLast, In
<1>2. CASE Logon(t)
  <2>1. Recorded'
    BY <1>1, <1>2 DEF Logon, Recorded
  <2>2. Go(t, auth[t], "create") \/ Go(t, [auth[t] EXCEPT !.user = secrets[auth[t].secret]], "session")
    BY <1>2 DEF Logon
  <2>3. /\ IsAuth([auth[t] EXCEPT !.in = "create"])
        /\ IsAuth([[auth[t] EXCEPT !.user = secrets[auth[t].secret]] EXCEPT !.in = "session"])
    BY <1>1, <1>2 DEF IsAuth, Auths, Methods, Recorded
  <2> QED
    BY <1>1, <2>1, <2>2, <2>3, GoTypes DEF Methods
<1>3. CASE CreateUser(t)
  <2>1. Recorded'
    BY <1>1, <1>3 DEF CreateUser, Recorded
  <2>2. IsAuth([[auth[t] EXCEPT !.user = made.users + 1] EXCEPT !.in = "secret"])
    BY <1>1, <1>3 DEF IsAuth, Auths, Methods, CreateUser
  <2> QED
    BY <1>3, <2>1, <2>2, GoTypes DEF CreateUser, Methods
<1>4. CASE StoreSecret(t)
  <2>1. Recorded'
    <3>1. auth[t].user \in User \cup {NoUser}
      BY <1>1 DEF Auths
    <3>2. secrets' = [secrets EXCEPT ![auth[t].secret] = auth[t].user] /\ UNCHANGED <<seen, made>>
      BY <1>4 DEF StoreSecret
    <3>3. raced' \in [ids : SUBSET SessionId, secrets : SUBSET Secret]
      BY <1>1, <1>4 DEF StoreSecret, Recorded
    <3> QED
      BY <1>1, <3>1, <3>2, <3>3 DEF Recorded
  <2>2. IsAuth([auth[t] EXCEPT !.in = "session"])
    BY <1>1 DEF IsAuth, Auths, Methods
  <2> QED
    BY <1>4, <2>1, <2>2, GoTypes DEF StoreSecret, Methods
<1>5. CASE StoreSession(t)
  <2>1. Recorded'
    <3>1. auth[t].user \in User \cup {NoUser}
      BY <1>1 DEF Auths
    <3>2. PICK i \in SessionId : seen' = [seen EXCEPT ![i].user = auth[t].user] /\ made' = [made EXCEPT !.sessions = i]
      BY <1>5 DEF StoreSession
    <3>3. UNCHANGED <<secrets, raced>>
      BY <1>5 DEF StoreSession
    <3> QED
      BY <1>1, <3>1, <3>2, <3>3 DEF Recorded
  <2>2. PICK i \in SessionId : Go(t, [auth[t] EXCEPT !.id = i], "last")
    BY <1>5 DEF StoreSession
  <2>3. i # NoSession
    BY AuthenticationAssumption DEF SessionId, NoSession
  <2>4. IsAuth([[auth[t] EXCEPT !.id = i] EXCEPT !.in = "last"])
    BY <1>1, <2>3 DEF IsAuth, Auths, Methods
  <2> QED
    BY <2>1, <2>2, <2>4, GoTypes DEF Methods
<1>6. CASE StoreLast(t)
  <2>1. auth[t].in = "last" /\ auth[t].id \in SessionId /\ auth[t].id # NoSession
    BY <1>1, <1>6 DEF StoreLast, In, IsAuth, Auths
  <2>2. Recorded'
    BY <1>1, <1>6, <2>1 DEF StoreLast, Recorded
  <2>3. IsAuth([[auth[t] EXCEPT !.ok = TRUE] EXCEPT !.in = "none"])
    BY <1>1, <2>1 DEF IsAuth, Auths, Methods
  <2> QED
    BY <1>6, <2>2, <2>3, GoTypes DEF StoreLast, Methods
<1> QED
  BY <1>2, <1>3, <1>4, <1>5, <1>6

\* AuthenticationApp calls a method, and a new response the first.
LEMMA CallTypes ==
  ASSUME Secured, NEW t \in Thread, NEW r, Sendable(r), Proper(r), AuthenticationApp(t, r) \/ NewResponse(t, r)
  PROVE  \E a : IsAuth(a) /\ auth' = [auth EXCEPT ![t] = a]
<1>1. IsAuth(auth[t]) /\ auth[t] \in Auths /\ auth \in [Thread -> Auths]
  BY DEF Secured, IsAuth
<1>2. CASE NewResponse(t, r)
  <2>1. r.cookie # NoSession => r.cookie \in SessionId
    BY DEF Sendable
  <2>2. \/ auth' = [auth EXCEPT ![t] = NoAuth]
        \/ r.cookie # NoSession /\ auth' = [auth EXCEPT ![t] = [NoAuth EXCEPT !.in = "authenticate", !.id = r.cookie]]
    BY <1>2 DEF NewResponse, Call
  <2> QED
    BY <2>1, <2>2, NobodyAuth
<1>3. CASE AuthenticationApp(t, r)
  <2>1. \/ auth' = [auth EXCEPT ![t] = auth[t]]
        \/ CallAuthenticate(t) \/ CallLogoff(t)
        \/ r.secret # "" /\ CallLogon(t, r.secret)
    <3>1. auth = [auth EXCEPT ![t] = auth[t]]
      BY <1>1
    <3>2. UNCHANGED auth \/ CallAuthenticate(t) \/ CallLogoff(t) \/ (r.secret # "" /\ CallLogon(t, r.secret))
      <4>1. Asked(r) \in {"other", "getStatus", "none", "logon", "logoff"}
        BY DEF Asked, Proper
      <4> QED
        BY <1>3, <4>1 DEF AuthenticationApp
    <3> QED
      BY <3>1, <3>2
  <2>2. IsAuth([auth[t] EXCEPT !.in = "authenticate", !.ok = FALSE])
    BY <1>1 DEF IsAuth, Auths, Methods
  <2>3. r.secret \in Secret => IsAuth([auth[t] EXCEPT !.in = "logon", !.ok = FALSE, !.secret = r.secret])
    BY <1>1 DEF IsAuth, Auths, Methods
  <2>4. auth[t].ok => IsAuth([auth[t] EXCEPT !.in = "logoff"])
    BY <1>1 DEF IsAuth, Auths, Methods
  <2>5. IsAuth(Forget(auth[t]))
    BY <1>1 DEF IsAuth, Auths, Methods, Forget, NoSession, NoUser
  <2>6. r.secret # "" => r.secret \in Secret
    BY DEF Sendable
  <2> QED
    BY <1>1, <2>1, <2>2, <2>3, <2>4, <2>5, <2>6 DEF CallAuthenticate, CallLogon, CallLogoff, Call
<1> QED
  BY <1>2, <1>3

\* A step of t that gives it what it may have.
LEMMA SecuredStep ==
  ASSUME Secured, NEW t \in Thread, Recorded', NEW a, IsAuth(a), auth' = [auth EXCEPT ![t] = a],
         \A u \in Thread \ {t} : thread'[u] = thread[u],
         thread'[t].at # "answer" => a = NoAuth
  PROVE  Secured' /\ \A u \in Thread \ {t} : auth'[u] = auth[u]
BY DEF Secured, IsAuth

\* Each step of a thread keeps what is known of who asks, and changes it for this thread alone.
LEMMA ServingSecured ==
  ASSUME HandInv, FileInv, PoolInv, Carried, Secured, NEW t \in Thread, Serving(t)
  PROVE  Secured' /\ \A u \in Thread \ {t} : auth'[u] = auth[u]
<1>1. \A u \in Thread \ {t} : thread'[u] = thread[u]
  BY TaskRequest
<1>2. CASE thread[t].at = "answer" /\ AuthenticationStep(t) /\ UNCHANGED <<tasks, response, apps>>
  <2>1. thread'[t].at = "answer"
    BY <1>2 DEF tasks
  <2>2. Recorded' /\ \E a : IsAuth(a) /\ auth' = [auth EXCEPT ![t] = a]
    BY <1>2, AuthenticateTypes, LogonTypes DEF AuthenticationStep
  <2> QED
    BY <1>1, <2>1, <2>2, SecuredStep
<1>3. ASSUME UNCHANGED <<secrets, seen, made, raced>> PROVE Recorded'
  BY <1>3 DEF Secured, Recorded
<1>4. CASE UNCHANGED <<secrets, seen, made, raced, auth>> /\ (thread[t].at # "answer" \/ UNCHANGED tasks)
  <2>1. \A u \in Thread : IsAuth(auth'[u]) /\ (thread'[u].at # "answer" => auth'[u] = NoAuth)
    BY <1>1, <1>4 DEF Secured, tasks
  <2> QED
    BY <1>3, <1>4, <2>1 DEF Secured
<1>5. CASE HandleResponse(t) /\ UNCHANGED <<secrets, seen, made, raced>>
  <2>1. thread[t].at = "respond" /\ NewResponse(t, Req(t)) /\ Proceed(t, session[thread[t].c], "answer")
    BY <1>5 DEF HandleResponse, Req
  <2>2. thread'[t].at = "answer"
    BY <2>1, Proceeds
  <2>3. Sendable(Req(t)) /\ Proper(Req(t))
    BY <2>1 DEF Carried, Late, PoolInv, Tends, Req
  <2> QED
    BY <1>1, <1>3, <1>5, <2>1, <2>2, <2>3, CallTypes, SecuredStep
<1>6. CASE (HandleException(t) \/ CloseOrRestart(t)) /\ UNCHANGED <<secrets, seen, made, raced>>
  <2>1. auth' = [auth EXCEPT ![t] = NoAuth]
    BY <1>6 DEF HandleException, CloseOrRestart, Forgotten
  <2> QED
    BY <1>1, <1>3, <1>6, <2>1, NobodyAuth, SecuredStep
<1>7. CASE /\ thread[t].at = "answer" /\ AuthenticationApp(t, Req(t)) /\ UNCHANGED <<tasks, response>>
           /\ UNCHANGED <<secrets, seen, made, raced>>
  <2>1. thread'[t].at = "answer" /\ Sendable(Req(t)) /\ Proper(Req(t))
    BY <1>7 DEF tasks, Carried, Late, PoolInv, Tends, Req
  <2> QED
    BY <1>1, <1>3, <1>7, <2>1, CallTypes, SecuredStep
<1> QED
  BY <1>2, <1>4, <1>5, <1>6, <1>7, AuthMoves

\* So does every step.
LEMMA NextSecured == HandInv /\ FileInv /\ PoolInv /\ Carried /\ Secured /\ [Next]_vars => Secured'
<1> SUFFICES ASSUME HandInv, FileInv, PoolInv, Carried, Secured, [Next]_vars PROVE Secured'
  OBVIOUS
<1>1. CASE \E t \in Thread : Serving(t)
  BY <1>1, ServingSecured
<1>2. CASE ~ \E t \in Thread : Serving(t)
  <2>1. UNCHANGED thread
    BY <1>2, ThreadsStay
  <2>2. CASE UNCHANGED authentication
    BY <2>1, <2>2 DEF authentication, Secured, Recorded
  <2>3. CASE Expires
    <3>1. PICK i \in SessionId : Expire(i)
      BY <2>3 DEF Expires
    <3>2. Recorded' /\ UNCHANGED auth
      BY <3>1 DEF Secured, Recorded, Expire
    <3> QED
      BY <2>1, <3>2 DEF Secured
  <2>4. UNCHANGED authentication \/ Expires
    BY <1>2 DEF Next, Client, Connect, Send, SendRest, Receive, GoAway, Calling, Callback, HandleAccept, HandleHandshake,
         HandleRead, answers, vars
  <2> QED
    BY <2>2, <2>3, <2>4
<1> QED
  BY <1>1, <1>2

\* What the plan has before the clients begin.
LEMMA PlanHas ==
  ASSUME NEW p \in DOMAIN Plans
  PROVE  /\ Plans[p].browser \in [Connection -> Browser]
         /\ Cardinality({x \in Secret : Plans[p].users[x] # NoUser}) \in 0 .. MaxUser
         /\ Plans[p].users \in [Secret -> 0 .. Cardinality({x \in Secret : Plans[p].users[x] # NoUser})]
         /\ Plans[p].ids \in Seq(User) /\ Len(Plans[p].ids) <= MaxSession
         /\ Plans[p].cookies \in [Browser -> [id : SessionId \cup {NoSession}, secret : Secret \cup {""}]]
BY PlansAssumption, Zenon

\* At first nobody asks.
LEMMA InitSecured == Init => Secured
<1> SUFFICES ASSUME Init PROVE Secured
  OBVIOUS
<1>1. PICK q : q = Plans[plan] /\ plan \in DOMAIN Plans
  BY DEF Init
<1>2. AuthenticationInit(q.users, q.ids)
  BY <1>1 DEF Init
<1>3. /\ Cardinality({x \in Secret : q.users[x] # NoUser}) \in 0 .. MaxUser
      /\ q.users \in [Secret -> 0 .. Cardinality({x \in Secret : q.users[x] # NoUser})]
      /\ q.ids \in Seq(User) /\ Len(q.ids) <= MaxSession
  BY <1>1, PlanHas
<1>4. Recorded
  <2>1. PICK n \in 0 .. MaxUser : n = Cardinality({x \in Secret : q.users[x] # NoUser})
    BY <1>3
  <2>2. q.users \in [Secret -> User \cup {NoUser}] /\ n \in {NoUser} \cup User
    BY <1>3, <2>1, AuthenticationAssumption DEF User, NoUser
  <2>3. \A i \in SessionId : i \in DOMAIN q.ids => q.ids[i] \in User
    BY <1>3
  <2>4. Len(q.ids) \in {NoSession} \cup SessionId
    BY <1>3, AuthenticationAssumption DEF NoSession, SessionId
  <2>5. seen \in [SessionId -> [user : User \cup {NoUser}, last : {"none", "fresh", "old"}]]
    BY <1>2, <2>3 DEF AuthenticationInit, Cleared
  <2>6. made = [users |-> n, sessions |-> Len(q.ids)] /\ secrets = q.users /\ raced = [ids |-> {}, secrets |-> {}]
    BY <1>2, <2>1 DEF AuthenticationInit
  <2> QED
    BY <2>2, <2>4, <2>5, <2>6 DEF Recorded
<1>5. auth = [t \in Thread |-> NoAuth]
  BY <1>2 DEF AuthenticationInit
<1> QED
  BY <1>4, <1>5, NobodyAuth DEF Secured, IsAuth

-----------------------------------------------------------------------------
(* The applications. *)

\* What an answer is taken from, an application keeps, and a user stores.
Ways == {"content", "file", "data", "json", "query", "http"}

AppRecords ==
  [n : 0 .. 6, in : Doing, status : Int, serve : Ways, length : -1 .. Most, page : 0 .. MaxPage, sent : Nat, mixed : BOOLEAN]

\* What a text says; none before one is stored, and content when it is no text of a client.
Names == STRING \cup {"none", "content"}

Texts == [pages : [0 .. MaxPage - 1 -> [by : Names, size : 0 .. PageSize]], length : 0 .. Most, type : BOOLEAN,
          count : 0 .. MaxPage, torn : BOOLEAN]
Documents == [json : Names, http : Names, length : 0 .. Most]

\* Each application does what is its own, for who is logged on; a page it stores is one of the text,
\* and what has a length is served with it.
Placed(a, r, who) ==
  /\ a.in \in {"status", "check"} => a.n = 2
  /\ a.in \in Keeping => a.n = 3 /\ who.ok
  /\ a.in = "json" => a.n = 5 /\ who.ok
  /\ who.in # "none" => a.in \in {"start", "status", "check"}
  /\ a.n < 3 \/ (a.n = 3 /\ a.in \in {"start", "storage"}) => a.page = 0
  /\ a.in \in Writing => r.method = "POST" /\ r.length > 0
  /\ a.in = "page" => a.page < Pages(r)
  /\ a.serve \in {"data", "http"} => a.length # -1
  /\ a.serve \in {"json", "query"} => a.length = -1
  /\ a.in # "none"

Texted == storage \in [User \cup {NoUser} -> Texts] /\ json \in [User \cup {NoUser} -> Documents]

\* A thread has an application while it answers.
Applied ==
  /\ Texted /\ app \in [Thread -> AppRecords]
  /\ \A t \in Thread : IF thread[t].at = "answer" THEN Placed(app[t], Req(t), auth[t]) ELSE app[t] = NoApp

\* t has a now, and the others what they had but for what they see of a change.
Turns(t, a) == Do(t, a) \/ Mix(t, a)

\* A size of pages, and how many there are.
LEMMA Division ==
  ASSUME NEW n \in Nat, NEW p \in Nat \ {0}
  PROVE  /\ n \div p \in Nat /\ n % p \in 0 .. p - 1
         /\ n % p = n - p * (n \div p)
         /\ p * (n \div p) <= n /\ n < p * (n \div p) + p
<1>1. n \div p \in Nat /\ n % p \in 0 .. p - 1
  BY Z3
<1>2. n % p = n - p * (n \div p)
  BY Z3
<1>3. ASSUME NEW q \in Nat, q = n \div p PROVE p * q <= n /\ n < p * q + p
  BY <1>3, SMT
<1> QED
  BY <1>1, <1>2, <1>3

\* Fewer than the pages of a size have it.
LEMMA Below ==
  ASSUME NEW n \in Nat, NEW p \in Nat \ {0}, NEW m \in Nat, n < p * m
  PROVE  n \div p < m
BY SMT

\* The numbers of a text's pages.
LEMMA PageNumbers ==
  /\ Most \in Nat /\ PageSize <= Most /\ 1 <= Most
  /\ \A n \in 0 .. Most : n < Most => n \div PageSize \in 0 .. MaxPage - 1
  /\ \A r : r.length \in 0 .. Most => Pages(r) \in 0 .. MaxPage /\ (r.length > 0 => Pages(r) > 0)
<1>1. Most \in Nat /\ PageSize \in Nat \ {0} /\ MaxPage \in Nat \ {0}
  BY AppsAssumption DEF Most
<1>2. PageSize <= Most
  <2>1. PICK k \in Nat : MaxPage = k + 1
    BY <1>1
  <2>2. Most = PageSize * k + PageSize /\ PageSize * k \in Nat
    BY <1>1, <2>1 DEF Most
  <2> QED
    BY <1>1, <2>2
<1>3. ASSUME NEW n \in 0 .. Most, n < Most PROVE n \div PageSize \in 0 .. MaxPage - 1
  <2>1. n \div PageSize \in Nat /\ n \in Nat /\ n < PageSize * MaxPage
    BY <1>1, <1>3, Division DEF Most
  <2>2. n \div PageSize < MaxPage
    BY <1>1, <2>1, Below
  <2> QED
    BY <1>1, <2>1, <2>2
<1>4. ASSUME NEW r, r.length \in 0 .. Most PROVE Pages(r) \in 0 .. MaxPage /\ (r.length > 0 => Pages(r) > 0)
  <2>1. PICK n \in Nat : n = r.length + PageSize - 1 /\ Pages(r) = n \div PageSize
    BY <1>1, <1>4 DEF Pages
  <2>2. n < Most + PageSize /\ Most + PageSize = PageSize * (MaxPage + 1) /\ MaxPage + 1 \in Nat
    BY <1>1, <1>4, <2>1 DEF Most
  <2>3. n \div PageSize < MaxPage + 1 /\ n \div PageSize \in Nat
    <3>1. n < PageSize * (MaxPage + 1)
      BY <2>2
    <3>2. n \div PageSize < MaxPage + 1
      BY <1>1, <2>1, <2>2, <3>1, Below
    <3> QED
      BY <1>1, <2>1, <3>2, Division
  <2>4. ASSUME r.length > 0, n \div PageSize = 0 PROVE FALSE
    <3>1. n < PageSize * (n \div PageSize) + PageSize
      BY <1>1, <2>1, Division
    <3>2. n < PageSize
      BY <1>1, <2>4, <3>1
    <3> QED
      BY <1>1, <1>4, <2>1, <2>4, <3>2
  <2> QED
    BY <1>1, <2>1, <2>3, <2>4
<1> QED
  BY <1>1, <1>2, <1>3, <1>4

\* A turn changes t alone, but for what the others see of a change.
LEMMA Turned ==
  ASSUME app \in [Thread -> AppRecords], NEW t \in Thread, NEW a \in AppRecords, Turns(t, a)
  PROVE  /\ app' \in [Thread -> AppRecords] /\ app'[t] = a
         /\ \A u \in Thread \ {t} : app'[u] = app[u] \/ (app[u].in # "none" /\ app'[u] = [app[u] EXCEPT !.mixed = TRUE])
<1>1. \A u \in Thread : [app[u] EXCEPT !.mixed = TRUE] \in AppRecords
  BY DEF AppRecords
<1>2. CASE Do(t, a)
  BY <1>2 DEF Do
<1>3. CASE Mix(t, a)
  <2>1. app' = [o \in Thread |-> IF o = t THEN a ELSE IF o \in Others(t) THEN [app[o] EXCEPT !.mixed = TRUE] ELSE app[o]]
    BY <1>3 DEF Mix
  <2>2. \A u \in Thread \ {t} : app'[u] = app[u] \/ (app[u].in # "none" /\ app'[u] = [app[u] EXCEPT !.mixed = TRUE])
    BY <2>1 DEF Others
  <2>3. app'[t] = a
    BY <2>1
  <2>4. app' \in [Thread -> AppRecords]
    <3>1. app' = [o \in Thread |-> app'[o]]
      BY <2>1
    <3>2. \A u \in Thread : app'[u] \in AppRecords
      BY <1>1, <2>2, <2>3
    <3> QED
      BY <3>1, <3>2
  <2> QED
    BY <2>2, <2>3, <2>4
<1> QED
  BY <1>2, <1>3 DEF Turns

\* What is another's is as well when it is mixed.
LEMMA PlacedMixed ==
  ASSUME NEW a \in AppRecords, NEW r, NEW who, Placed(a, r, who)
  PROVE  Placed([a EXCEPT !.mixed = TRUE], r, who)
<1>1. PICK b : b = [a EXCEPT !.mixed = TRUE]
  OBVIOUS
<1>2. b.n = a.n /\ b.in = a.in /\ b.serve = a.serve /\ b.length = a.length /\ b.page = a.page
  BY <1>1 DEF AppRecords
<1> QED
  BY <1>1, <1>2 DEF Placed

\* What t has when it answers.
Turning(t, r) ==
  /\ Texted /\ app \in [Thread -> AppRecords] /\ auth[t] \in Auths
  /\ Placed(app[t], r, auth[t]) /\ Proper(r) /\ r.method # "DELETE" /\ Sendable(r)
  /\ app[t].n # 1 => r.method # "OPTIONS"

\* A turn to what t may have.
Placing(t, r) == Texted' /\ \E a \in AppRecords : Turns(t, a) /\ Placed(a, r, auth'[t])

\* A step that only decides.
LEMMA Decided ==
  ASSUME NEW t \in Thread, NEW r, Turning(t, r), NEW status \in Int, NEW serve \in {"content", "file"}, Decide(t, status, serve),
         auth'[t].in = "none", UNCHANGED <<storage, json>>
  PROVE  Placing(t, r)
<1>1. PICK a : a = [app[t] EXCEPT !.in = "decided", !.status = status, !.serve = serve]
  OBVIOUS
<1>2. a \in AppRecords /\ a.in = "decided" /\ a.n = app[t].n /\ a.serve = serve /\ a.page = app[t].page
  BY <1>1 DEF Turning, AppRecords, Doing, Ways
<1>3. Placed(a, r, auth'[t])
  BY <1>2 DEF Turning, Placed, Keeping, Writing
<1>4. Turns(t, a)
  BY <1>1 DEF Decide, Turns
<1>5. Texted'
  BY DEF Turning, Texted
<1> QED
  BY <1>2, <1>3, <1>4, <1>5 DEF Placing

\* A step that goes on to the next application.
LEMMA Passed ==
  ASSUME NEW t \in Thread, NEW r, Turning(t, r), Pass(t), app[t].n \in 1 .. 5,
         app[t].n < 3 => app[t].page = 0, auth'[t].in = "none", UNCHANGED <<storage, json>>
  PROVE  Placing(t, r)
<1>0. PICK m \in 0 .. 6 : m = app[t].n + 1
  OBVIOUS
<1>1. PICK a : a = [app[t] EXCEPT !.n = m, !.in = "start"]
  OBVIOUS
<1>2. a \in AppRecords /\ a.in = "start" /\ a.n = app[t].n + 1 /\ a.serve = app[t].serve /\ a.page = app[t].page
      /\ a.length = app[t].length
  <2>1. app[t] \in AppRecords
    BY DEF Turning
  <2>2. a \in AppRecords /\ a.in = "start" /\ a.n = m /\ a.serve = app[t].serve /\ a.page = app[t].page /\ a.length = app[t].length
    BY <1>1, <2>1 DEF AppRecords, Doing
  <2> QED
    BY <1>0, <2>2
<1>3. Placed(a, r, auth'[t])
  BY <1>2 DEF Turning, Placed, Keeping, Writing
<1>4. Turns(t, a)
  BY <1>0, <1>1 DEF Pass, Turns
<1>5. Texted'
  BY DEF Turning, Texted
<1> QED
  BY <1>2, <1>3, <1>4, <1>5 DEF Placing

\* A step that stays in its application.
LEMMA Continued ==
  ASSUME NEW t \in Thread, NEW r, Turning(t, r), NEW in \in Doing \ {"none"}, Continue(t, in), UNCHANGED <<storage, json>>,
         in \in {"status", "check"} => app[t].n = 2,
         auth'[t].in # "none" => in \in {"start", "status", "check"},
         in \in Keeping => app[t].n = 3 /\ auth'[t].ok /\ app[t].page = 0,
         in \in Writing => r.method = "POST" /\ r.length > 0,
         in = "json" => app[t].n = 5 /\ auth'[t].ok,
         in = "start" => FALSE
  PROVE  Placing(t, r)
<1>1. PICK a : a = [app[t] EXCEPT !.in = in]
  OBVIOUS
<1>2. a \in AppRecords /\ a.in = in /\ a.n = app[t].n /\ a.serve = app[t].serve /\ a.page = app[t].page
      /\ a.length = app[t].length
  BY <1>1 DEF Turning, AppRecords
<1>3. in = "page" => 0 < Pages(r) /\ r.length > 0
  BY PageNumbers DEF Turning, Sendable, Writing
<1>4. Placed(a, r, auth'[t])
  BY <1>2, <1>3 DEF Turning, Placed, Keeping, Writing
<1>5. Turns(t, a)
  BY <1>1 DEF Continue, Turns
<1>6. Texted'
  BY DEF Turning, Texted
<1> QED
  BY <1>2, <1>4, <1>5, <1>6 DEF Placing

\* The applications that have no handle.
LEMMA PlainTypes ==
  ASSUME NEW t \in Thread, NEW r, Turning(t, r), OptionsApp(t, r) \/ FileSystemApp(t, r) \/ NotFoundApp(t, r)
  PROVE  Placing(t, r)
<1>1. /\ auth[t].in = "none" /\ auth' = auth /\ UNCHANGED <<storage, json>>
  BY DEF OptionsApp, FileSystemApp, NotFoundApp, At, Resting, authentication
<1>2. app[t].n < 3 => app[t].page = 0
  BY DEF Turning, Placed
<1>3. CASE OptionsApp(t, r)
  <2>1. app[t].n = 1 /\ (Decide(t, 204, "content") \/ Pass(t))
    BY <1>3 DEF OptionsApp
  <2> QED
    BY <1>1, <1>2, <2>1, Decided, Passed
<1>4. CASE FileSystemApp(t, r)
  <2>1. r.path \in DOMAIN Files /\ Files[r.path] \in Kinds
    BY AppsAssumption DEF Turning, Proper
  <2>2. Pass(t) \/ Throw(t) \/ \E status \in {307, 200}, serve \in {"content", "file"} : Decide(t, status, serve)
    BY <1>4, <2>1 DEF FileSystemApp, Kinds
  <2>3. CASE Throw(t)
    <3>1. Continue(t, "thrown") /\ "thrown" \in Doing \ {"none"} /\ "thrown" \notin Keeping
      BY <2>3 DEF Throw, Doing, Keeping, Writing
    <3> QED
      BY <1>1, <3>1, Continued DEF Keeping
  <2>4. app[t].n = 4
    BY <1>4 DEF FileSystemApp
  <2> QED
    BY <1>1, <1>2, <2>2, <2>3, <2>4, Decided, Passed
<1>5. CASE NotFoundApp(t, r)
  BY <1>1, <1>5, Decided DEF NotFoundApp
<1> QED
  BY <1>3, <1>4, <1>5

\* AuthenticationApp calls a method, and then looks who is logged on.
LEMMA AuthenticationAppTypes ==
  ASSUME NEW t \in Thread, NEW r, Turning(t, r), auth \in [Thread -> Auths], AuthenticationApp(t, r) \/ AuthenticationAnswer(t, r)
  PROVE  Placing(t, r)
<1>1. auth[t].in = "none" /\ UNCHANGED <<storage, json>> /\ app[t].in \in {"start", "status", "check"} /\ app[t].n = 2
  BY DEF AuthenticationApp, AuthenticationAnswer, At, Resting, Turning, Placed
<1>2. app[t].page = 0
  BY <1>1 DEF Turning, Placed
<1>3. {"status", "check", "thrown"} \subseteq Doing \ {"none"} /\ {"status", "check", "thrown"} \cap Keeping = {}
  BY DEF Doing, Keeping, Writing
<1>4. CASE AuthenticationApp(t, r)
  <2>1. Asked(r) \in {"other", "getStatus", "none", "logon", "logoff"}
    BY DEF Asked, Turning, Proper
  <2>2. \/ Continue(t, "status") \/ Continue(t, "check")
        \/ (Continue(t, "thrown") \/ Pass(t)) /\ UNCHANGED auth
    BY <1>4, <2>1 DEF AuthenticationApp, Throw
  <2>3. CASE Continue(t, "status") \/ Continue(t, "check")
    BY <1>1, <1>3, <2>3, Continued DEF Writing
  <2>4. CASE (Continue(t, "thrown") \/ Pass(t)) /\ UNCHANGED auth
    BY <1>1, <1>2, <1>3, <2>4, Continued, Passed DEF Writing
  <2> QED
    BY <2>2, <2>3, <2>4
<1>5. CASE AuthenticationAnswer(t, r)
  <2>1. auth' = auth
    BY <1>5 DEF AuthenticationAnswer, authentication
  <2>2. Pass(t) \/ \E status \in {401, 200}, serve \in {"content", "file"} : Decide(t, status, serve)
    BY <1>5 DEF AuthenticationAnswer
  <2> QED
    BY <1>1, <1>2, <2>1, <2>2, Decided, Passed
<1> QED
  BY <1>4, <1>5

\* Texts and documents have their fields.
LEMMA TextFields ==
  /\ Nothing \in Texts /\ NoPage \in [by : Names, size : 0 .. PageSize] /\ NoDocument \in Documents
  /\ \A r, k : Sendable(r) => PageOf(r, k) \in [by : Names, size : 0 .. PageSize]
<1>1. /\ PageSize \in Nat \ {0} /\ MaxPage \in Nat \ {0} /\ Most \in Nat
  BY PageNumbers, AppsAssumption
<1>2. 0 \in 0 .. Most /\ 0 \in 0 .. PageSize /\ 0 \in 0 .. MaxPage
  BY <1>1
<1>3. NoPage \in [by : Names, size : 0 .. PageSize]
  BY <1>2 DEF NoPage, Names
<1>4. NoDocument \in Documents
  BY <1>2 DEF NoDocument, Documents, Names
<1>5. Nothing \in Texts
  BY <1>2, <1>3 DEF Nothing, Texts
<1>6. ASSUME NEW r, NEW k, Sendable(r) PROVE PageOf(r, k) \in [by : Names, size : 0 .. PageSize]
  <2>1. r.length \in Nat /\ r.text \in Names
    <3>1. r.length \in 0 .. Most /\ r.text \in STRING
      BY <1>6 DEF Sendable
    <3>2. r.length \in Nat
      BY <1>1, <3>1
    <3> QED
      BY <3>1, <3>2 DEF Names
  <2>2. r.length % PageSize \in 0 .. PageSize - 1
    BY <1>1, <2>1, Division
  <2>3. PICK m \in 0 .. PageSize - 1 : m = r.length % PageSize
    BY <2>2
  <2>4. m \in 0 .. PageSize /\ PageSize \in 0 .. PageSize
    BY <1>1
  <2>5. CASE (k + 1) * PageSize <= r.length
    <3>1. PageOf(r, k) = [by |-> r.text, size |-> PageSize]
      BY <2>5, Zenon DEF PageOf
    <3> QED
      BY <2>1, <2>4, <3>1
  <2>6. CASE ~ ((k + 1) * PageSize <= r.length)
    <3>1. PageOf(r, k) = [by |-> r.text, size |-> r.length % PageSize]
      BY <2>6, Zenon DEF PageOf
    <3>2. PageOf(r, k) = [by |-> r.text, size |-> m]
      BY <2>3, <3>1, Zenon
    <3> QED
      BY <2>1, <2>4, <3>2
  <2> QED
    BY <2>5, <2>6
<1> QED
  BY <1>3, <1>4, <1>5, <1>6

\* A change of a text.
LEMMA ChangeTypes ==
  ASSUME NEW t \in Thread, NEW r, Turning(t, r), NEW text \in Texts, NEW step \in {"page", "length", "type", "count", "stored", "drop"},
         NEW page \in 0 .. MaxPage, Change(t, text, step, page), app[t].in \in Keeping,
         app[t].in \notin {"start", "storage"},
         step \in Writing => app[t].in \in Writing, step = "page" => page < Pages(r)
  PROVE  Placing(t, r)
<1>1. /\ storage' = [storage EXCEPT ![auth[t].user] = [text EXCEPT !.torn = @ \/ Disturbed(t)]]
      /\ Mix(t, [app[t] EXCEPT !.in = step, !.page = page]) /\ UNCHANGED <<json, authentication>>
  BY DEF Change
<1>2. Texted'
  <2>1. [text EXCEPT !.torn = @ \/ Disturbed(t)] \in Texts
    <3>1. PICK b \in BOOLEAN : b = (text.torn \/ Disturbed(t))
      OBVIOUS
    <3>2. [text EXCEPT !.torn = b] \in Texts
      BY DEF Texts
    <3> QED
      BY <3>1, <3>2
  <2> QED
    BY <1>1, <2>1 DEF Turning, Texted
<1>3. PICK a : a = [app[t] EXCEPT !.in = step, !.page = page]
  OBVIOUS
<1>4. app[t] \in AppRecords /\ step \in Doing /\ step \in Keeping
  BY DEF Turning, Doing, Keeping, Writing
<1>5. a \in AppRecords /\ a.in = step /\ a.n = app[t].n /\ a.serve = app[t].serve /\ a.page = page /\ a.length = app[t].length
  BY <1>3, <1>4 DEF AppRecords
<1>6. Placed(a, r, auth'[t])
  <2>1. auth' = auth
    BY <1>1 DEF authentication
  <2> QED
    BY <1>4, <1>5, <2>1 DEF Turning, Placed, Keeping, Writing
<1> QED
  BY <1>1, <1>2, <1>3, <1>5, <1>6 DEF Placing, Turns

\* What t has when StorageApp has a handle.
LEMMA KeepingTypes ==
  ASSUME NEW t \in Thread, NEW r, Turning(t, r), app[t].in \in Keeping
  PROVE  /\ app[t].n = 3 /\ auth[t].ok /\ app[t] \in AppRecords
         /\ storage[auth[t].user] \in Texts /\ auth[t].user \in User \cup {NoUser}
         /\ r.method \in {"GET", "POST"}
         /\ app[t].page \in 0 .. MaxPage
<1>1. app[t].n = 3 /\ auth[t].ok /\ app[t] \in AppRecords
  BY DEF Turning, Placed
<1>2. auth[t].user \in User \cup {NoUser}
  BY DEF Turning, Auths
<1>3. r.method \in {"GET", "POST"}
  BY <1>1 DEF Turning, Proper
<1>4. storage[auth[t].user] \in Texts
  BY <1>2 DEF Turning, Texted
<1>5. app[t].page \in 0 .. MaxPage
  BY <1>1 DEF AppRecords
<1> QED
  BY <1>1, <1>2, <1>3, <1>4, <1>5

\* StorageApp begins, and finds out what it has to do.
LEMMA StorageAppTypes ==
  ASSUME NEW t \in Thread, NEW r, Turning(t, r), StorageApp(t, r) \/ StorageMethod(t, r) \/ Stored(t)
  PROVE  Placing(t, r)
<1>1. auth[t].in = "none" /\ auth' = auth /\ UNCHANGED <<storage, json>>
  BY DEF StorageApp, StorageMethod, Stored, At, Within, Resting, authentication
<1>2. CASE StorageApp(t, r)
  <2>1. app[t].n = 3 /\ app[t].in = "start" /\ ((auth[t].ok /\ Continue(t, "storage")) \/ Pass(t))
    BY <1>2 DEF StorageApp, At
  <2>2. app[t].page = 0 /\ "storage" \in Doing \ {"none"} /\ "storage" \notin Writing
    BY <2>1 DEF Turning, Placed, Doing, Keeping, Writing
  <2> QED
    BY <1>1, <2>1, <2>2, Continued, Passed
<1>3. CASE StorageMethod(t, r)
  <2>1. app[t].in = "storage" /\ app[t].in \in Keeping
    BY <1>3 DEF StorageMethod, Within, Keeping
  <2>2. app[t].n = 3 /\ auth[t].ok /\ r.method \in {"GET", "POST"}
    BY <2>1, KeepingTypes
  <2>3. app[t].page = 0
    BY <2>1, <2>2 DEF Turning, Placed
  <2>4. \/ Pass(t) \/ Continue(t, "has")
        \/ r.method = "POST" /\ Continue(t, "drop")
        \/ r.method = "POST" /\ r.length # 0 /\ Continue(t, "page")
    BY <1>3, <2>2 DEF StorageMethod
  <2>5. {"has", "drop", "page"} \subseteq Doing \ {"none"} /\ {"has", "drop"} \cap Writing = {}
    BY DEF Doing, Keeping, Writing
  <2>6. r.length # 0 => r.length > 0
    <3>1. r.length \in 0 .. Most /\ Most \in Nat
      BY PageNumbers DEF Turning, Sendable
    <3> QED
      BY <3>1
  <2> QED
    BY <1>1, <2>2, <2>3, <2>4, <2>5, <2>6, Continued, Passed
<1>4. CASE Stored(t)
  BY <1>1, <1>4, Decided DEF Stored
<1> QED
  BY <1>2, <1>3, <1>4

\* The steps that store or drop a text.
LEMMA StoreTypes ==
  ASSUME NEW t \in Thread, NEW r, Turning(t, r),
         StorePage(t, r) \/ StoreLength(t, r) \/ StoreType(t) \/ StoreCount(t, r) \/ DropPage(t) \/ Drop(t)
  PROVE  Placing(t, r)
<1>1. app[t].in \in {"page", "length", "type", "count", "drop"}
  BY DEF StorePage, StoreLength, StoreType, StoreCount, DropPage, Drop, Within
<1>2. app[t].in \in Keeping /\ app[t].in \notin {"start", "storage"} /\ {"page", "length", "type", "count"} = Writing
  BY <1>1 DEF Keeping, Writing
<1>3. PICK k \in 0 .. MaxPage, s \in Texts : k = app[t].page /\ s = storage[auth[t].user]
  BY <1>2, KeepingTypes
<1>4. MaxPage \in Nat \ {0} /\ Pages(r) \in 0 .. MaxPage /\ r.length \in 0 .. Most
  BY PageNumbers, AppsAssumption DEF Turning, Sendable
<1>5. CASE StorePage(t, r)
  <2>1. k < Pages(r)
    BY <1>3, <1>5 DEF StorePage, Within, Turning, Placed
  <2>2. k + 1 \in 0 .. MaxPage /\ (k + 1 = Pages(r) \/ k + 1 < Pages(r)) /\ k \in 0 .. MaxPage - 1
    BY <1>3, <1>4, <2>1
  <2>3. PICK page : page = PageOf(r, k)
    OBVIOUS
  <2>4. page \in [by : Names, size : 0 .. PageSize]
    BY <2>3, TextFields DEF Turning
  <2>5. [s EXCEPT !.pages[k] = page] \in Texts
    BY <1>3, <2>2, <2>4 DEF Texts
  <2>6. Change(t, [s EXCEPT !.pages[k] = page], IF k + 1 = Pages(r) THEN "length" ELSE "page", k + 1) /\ app[t].in = "page"
    BY <1>3, <1>5, <2>3 DEF StorePage, Within
  <2>7. CASE k + 1 = Pages(r)
    BY <1>2, <2>2, <2>5, <2>6, <2>7, ChangeTypes
  <2>8. CASE k + 1 # Pages(r)
    BY <1>2, <2>2, <2>5, <2>6, <2>8, ChangeTypes
  <2> QED
    BY <2>7, <2>8
<1>6. CASE StoreLength(t, r)
  <2>1. [s EXCEPT !.length = r.length] \in Texts
    BY <1>3, <1>4 DEF Texts
  <2>2. Change(t, [s EXCEPT !.length = r.length], "type", k) /\ app[t].in = "length"
    BY <1>3, <1>6 DEF StoreLength, Within
  <2> QED
    BY <1>2, <2>1, <2>2, ChangeTypes
<1>7. CASE StoreType(t)
  <2>1. [s EXCEPT !.type = TRUE] \in Texts
    BY <1>3 DEF Texts
  <2>2. Change(t, [s EXCEPT !.type = TRUE], "count", k) /\ app[t].in = "type"
    BY <1>3, <1>7 DEF StoreType, Within
  <2> QED
    BY <1>2, <2>1, <2>2, ChangeTypes
<1>8. CASE StoreCount(t, r)
  <2>1. [s EXCEPT !.count = Pages(r)] \in Texts
    BY <1>3, <1>4 DEF Texts
  <2>2. Change(t, [s EXCEPT !.count = Pages(r)], "stored", k) /\ app[t].in = "count"
    BY <1>3, <1>8 DEF StoreCount, Within
  <2> QED
    BY <1>2, <2>1, <2>2, ChangeTypes
<1>9. CASE DropPage(t)
  <2>1. k < s.count /\ s.count \in 0 .. MaxPage
    BY <1>3, <1>9 DEF DropPage, Texts
  <2>2. k + 1 \in 0 .. MaxPage /\ k \in 0 .. MaxPage - 1
    BY <1>3, <1>4, <2>1
  <2>3. [s EXCEPT !.pages[k] = NoPage] \in Texts
    BY <1>3, <2>2, TextFields DEF Texts
  <2>4. Change(t, [s EXCEPT !.pages[k] = NoPage], "drop", k + 1)
    BY <1>3, <1>9 DEF DropPage
  <2> QED
    BY <1>2, <2>2, <2>3, <2>4, ChangeTypes
<1>10. CASE Drop(t)
  <2>1. Change(t, Nothing, "stored", k)
    BY <1>3, <1>10 DEF Drop
  <2> QED
    BY <1>2, <1>3, <2>1, ChangeTypes, TextFields
<1> QED
  BY <1>5, <1>6, <1>7, <1>8, <1>9, <1>10

\* A step that serves something of a length.
LEMMA ServedTypes ==
  ASSUME NEW t \in Thread, NEW r, Turning(t, r), NEW status \in Int, NEW serve \in {"data", "http", "json", "query"},
         NEW n \in -1 .. Most, serve \in {"data", "http"} <=> n # -1, Serve(t, status, serve, n), app[t].in \in Keeping \cup {"json"},
         app[t].in \notin {"start", "storage"}, auth'[t].in = "none", UNCHANGED <<storage, json>>
  PROVE  Placing(t, r)
<1>1. PICK a : a = [app[t] EXCEPT !.in = "decided", !.status = status, !.serve = serve, !.length = n]
  OBVIOUS
<1>2. a \in AppRecords /\ a.in = "decided" /\ a.n = app[t].n /\ a.serve = serve /\ a.page = app[t].page /\ a.length = n
  BY <1>1 DEF Turning, AppRecords, Doing, Ways
<1>3. app[t].n \in {3, 5}
  <2>1. Placed(app[t], r, auth[t])
    BY DEF Turning
  <2>2. app[t].in \in Keeping => app[t].n = 3
    BY <2>1, Zenon DEF Placed
  <2>3. app[t].in = "json" => app[t].n = 5
    BY <2>1, Zenon DEF Placed
  <2> QED
    BY <2>2, <2>3
<1>4. Placed(a, r, auth'[t])
  BY <1>2, <1>3 DEF Placed, Keeping, Writing
<1>5. Turns(t, a)
  BY <1>1 DEF Serve, Turns
<1>6. Texted'
  BY DEF Turning, Texted
<1> QED
  BY <1>2, <1>4, <1>5, <1>6 DEF Placing

\* The steps that find a text.
LEMMA FindTypes ==
  ASSUME NEW t \in Thread, NEW r, Turning(t, r), FindText(t) \/ FindLength(t)
  PROVE  Placing(t, r)
<1>1. auth[t].in = "none" /\ auth' = auth /\ UNCHANGED <<storage, json>> /\ app[t].in \in {"has", "size"}
  BY DEF FindText, FindLength, Within, authentication
<1>2. app[t].in \in Keeping
  BY <1>1 DEF Keeping
<1>3. PICK s \in Texts : s = storage[auth[t].user]
  BY <1>2, KeepingTypes
<1>4. CASE FindText(t)
  <2>1. CASE Decide(t, 404, "content")
    BY <1>1, <2>1, Decided
  <2>2. CASE \E mixed \in BOOLEAN : Do(t, [app[t] EXCEPT !.in = "size", !.mixed = mixed])
    <3>1. PICK mixed, a : mixed \in BOOLEAN /\ a = [app[t] EXCEPT !.in = "size", !.mixed = mixed] /\ Do(t, a)
      BY <2>2
    <3>2. a \in AppRecords /\ a.in = "size" /\ a.n = app[t].n /\ a.serve = app[t].serve /\ a.page = app[t].page /\ a.length = app[t].length
      BY <3>1 DEF Turning, AppRecords, Doing, Keeping
    <3>3. app[t].n = 3 /\ auth[t].ok
      BY <1>2, KeepingTypes
    <3>4. Placed(a, r, auth'[t])
      BY <1>1, <3>2, <3>3 DEF Turning, Placed, Keeping, Writing
    <3>5. Texted'
      BY <1>1 DEF Turning, Texted
    <3> QED
      BY <3>1, <3>2, <3>4, <3>5 DEF Placing, Turns
  <2>3. (s.torn \/ Disturbed(t)) \in BOOLEAN
    OBVIOUS
  <2> QED
    BY <1>3, <1>4, <2>1, <2>2, <2>3 DEF FindText
<1>5. CASE FindLength(t)
  <2>1. PICK n \in IF s.length > 0 THEN {s.length} ELSE 0 .. PageSize : Serve(t, 200, "data", n)
    BY <1>3, <1>5 DEF FindLength
  <2>2. n \in 0 .. Most /\ Most \in Nat
    BY <1>3, <2>1, PageNumbers, AppsAssumption DEF Texts
  <2>3. n \in -1 .. Most /\ n # -1
    BY <2>2
  <2> QED
    BY <1>1, <1>2, <2>1, <2>3, ServedTypes
<1> QED
  BY <1>4, <1>5

\* JSONApp begins, and reads or writes its document.
LEMMA JSONTypes ==
  ASSUME NEW t \in Thread, NEW r, Turning(t, r), JSONApp(t, r) \/ GetDocument(t, r) \/ PostDocument(t, r)
  PROVE  Placing(t, r)
<1>1. auth[t].in = "none" /\ auth' = auth /\ UNCHANGED storage
  BY DEF JSONApp, GetDocument, PostDocument, At, Within, Resting, authentication
<1>2. r.length \in 0 .. Most /\ r.text \in Names /\ Most \in Nat
  BY PageNumbers DEF Turning, Sendable, Names
<1>3. CASE JSONApp(t, r)
  <2>1. app[t].n = 5 /\ app[t].in = "start" /\ UNCHANGED json
    BY <1>3 DEF JSONApp, At
  <2>2. Pass(t) \/ Decide(t, 500, "content") \/ (auth[t].ok /\ Continue(t, "json"))
    BY <1>3 DEF JSONApp
  <2>3. "json" \in Doing \ {"none"} /\ "json" \notin Keeping
    BY DEF Doing, Keeping, Writing
  <2> QED
    BY <1>1, <2>1, <2>2, <2>3, Continued, Passed, Decided DEF Keeping
<1>4. ASSUME app[t].in = "json"
      PROVE  /\ app[t].n = 5 /\ auth[t].ok /\ auth[t].user \in User \cup {NoUser}
             /\ json[auth[t].user] \in Documents /\ app[t] \in AppRecords
  <2>1. app[t].n = 5 /\ auth[t].ok
    BY <1>4 DEF Turning, Placed
  <2>2. auth[t].user \in User \cup {NoUser}
    BY DEF Turning, Auths
  <2>3. json[auth[t].user] \in Documents /\ app[t] \in AppRecords
    BY <2>2 DEF Turning, Texted
  <2> QED
    BY <2>1, <2>2, <2>3
<1>5. CASE GetDocument(t, r)
  <2>1. app[t].in = "json" /\ UNCHANGED json
    BY <1>5 DEF GetDocument, Within
  <2>2. PICK d, exists : d \in Documents /\ d = json[auth[t].user] /\ exists = Exists(t, r)
    BY <1>4, <2>1
  <2>3. \/ Pass(t) \/ Serve(t, 200, "query", -1) \/ Serve(t, 200, "json", -1)
        \/ Serve(t, 200, "http", d.length)
    BY <1>5, <2>2 DEF GetDocument
  <2>4. d.length \in 0 .. Most
    BY <2>2 DEF Documents
  <2>5. d.length \in -1 .. Most /\ d.length # -1 /\ -1 \in -1 .. Most
    BY <1>2, <2>4
  <2> QED
    BY <1>1, <1>4, <2>1, <2>3, <2>5, ServedTypes, Passed
<1>6. CASE PostDocument(t, r)
  <2>1. app[t].in = "json"
    BY <1>6 DEF PostDocument, Within
  <2>2. CASE Pass(t) /\ UNCHANGED json
    BY <1>1, <1>4, <2>1, <2>2, Passed
  <2>3. CASE ~ (Pass(t) /\ UNCHANGED json)
    <3>1. PICK d \in Documents : d = json[auth[t].user]
      BY <1>4, <2>1
    <3>2. \E status \in {500, 200} : Mix(t, [app[t] EXCEPT !.in = "decided", !.serve = "content", !.status = status])
      BY <1>6, <2>3 DEF PostDocument
    <3>3. PICK status \in {500, 200} : Mix(t, [app[t] EXCEPT !.in = "decided", !.serve = "content", !.status = status])
      BY <3>2
    <3>0. PICK a : a = [app[t] EXCEPT !.in = "decided", !.serve = "content", !.status = status]
      OBVIOUS
    <3>4. a \in AppRecords /\ a.in = "decided" /\ a.n = app[t].n /\ a.serve = "content" /\ a.page = app[t].page
      <4>1. app[t] \in AppRecords /\ status \in Int
        BY <1>4, <2>1
      <4> QED
        BY <3>0, <4>1 DEF AppRecords, Doing, Ways
    <3>5. Placed(a, r, auth'[t])
      <4>1. a.n = 5 /\ auth'[t].in = "none"
        BY <1>1, <1>4, <2>1, <3>4
      <4> QED
        BY <3>4, <4>1 DEF Placed, Keeping, Writing
    <3>6. PICK e : e = (IF r.json THEN [d EXCEPT !.json = r.text] ELSE [d EXCEPT !.http = r.text, !.length = r.length])
      OBVIOUS
    <3>7. e \in Documents
      BY <1>2, <3>1, <3>6 DEF Documents
    <3>8. json' = [json EXCEPT ![auth[t].user] = e]
      <4>1. json' = [json EXCEPT ![auth[t].user] =
                IF r.json THEN [d EXCEPT !.json = r.text] ELSE [d EXCEPT !.http = r.text, !.length = r.length]]
        BY <1>6, <2>3, <3>1 DEF PostDocument
      <4> QED
        BY <3>6, <4>1
    <3>9. Texted'
      BY <1>1, <1>4, <3>7, <3>8 DEF Turning, Texted
    <3> QED
      BY <3>3, <3>0, <3>4, <3>5, <3>9 DEF Placing, Turns
  <2> QED
    BY <2>2, <2>3
<1> QED
  BY <1>3, <1>5, <1>6

\* The page that is written is one of the text.
LEMMA PageTypes ==
  ASSUME NEW t \in Thread, NEW r, Turning(t, r), app[t].sent < app[t].length
  PROVE  /\ PageAt(t) \in [by : Names, size : 0 .. PageSize]
         /\ app[t].sent \in 0 .. Most - 1 /\ app[t].sent \div PageSize \in 0 .. MaxPage - 1
<1>1. app[t] \in AppRecords /\ auth[t].user \in User \cup {NoUser}
  BY DEF Turning, Auths
<1>2. PICK m, n : m = app[t].sent /\ n = app[t].length
  OBVIOUS
<1>3. m \in Nat /\ n \in -1 .. Most /\ Most \in Nat /\ m < n
  BY <1>1, <1>2, PageNumbers DEF AppRecords
<1>4. m \in 0 .. Most /\ m < Most
  BY <1>3
<1>5. m \div PageSize \in 0 .. MaxPage - 1
  BY <1>4, PageNumbers
<1>6. PICK k \in 0 .. MaxPage - 1, s \in Texts : k = m \div PageSize /\ s = storage[auth[t].user]
  BY <1>1, <1>5 DEF Turning, Texted
<1>7. s.pages[k] \in [by : Names, size : 0 .. PageSize]
  BY <1>6 DEF Texts
<1> QED
  BY <1>2, <1>3, <1>4, <1>5, <1>6, <1>7 DEF PageAt

\* What is written of an answer.
LEMMA ResponseTypes ==
  ASSUME NEW t \in Thread, NEW r, Turning(t, r), NEW c,
         WriteHeaders(t, c, r) \/ WriteContent(t, c, r) \/ WritePage(t, c) \/ EndPages(t, c)
  PROVE  Placing(t, r)
<1>1. auth[t].in = "none" /\ auth' = auth /\ UNCHANGED <<storage, json>> /\ app[t].in \in {"decided", "content"}
  BY DEF WriteHeaders, WriteContent, WritePage, EndPages, At, Within, Resting, authentication
<1>2. {"content", "written"} \subseteq Doing \ {"none"} /\ {"content", "written"} \cap Keeping = {}
  BY DEF Doing, Keeping, Writing
<1>3. CASE Continue(t, "content") \/ Continue(t, "written")
  BY <1>1, <1>2, <1>3, Continued DEF Keeping
<1>4. CASE WritePage(t, c)
  <2>1. app[t] \in AppRecords
    BY DEF Turning
  <2>2. PICK m, n : m = app[t].sent /\ n = app[t].length
    OBVIOUS
  <2>3. m \in Nat
    BY <2>1, <2>2 DEF AppRecords
  <2>6. PageAt(t) \in [by : Names, size : 0 .. PageSize]
    BY <1>4, PageTypes DEF WritePage
  <2>7. PICK k \in 0 .. PageSize : k = PageAt(t).size
    BY <2>6
  <2>8. m + k \in Nat
    BY <2>3, <2>7, AppsAssumption
  <2>9. PICK l \in Nat : l = m + k
    BY <2>8
  <2>10. PICK a : a = [app[t] EXCEPT !.sent = l]
    OBVIOUS
  <2>11. a \in AppRecords /\ a.in = app[t].in /\ a.n = app[t].n /\ a.serve = app[t].serve /\ a.page = app[t].page /\ a.length = n
    BY <2>1, <2>2, <2>10 DEF AppRecords
  <2>12. Do(t, a)
    BY <1>4, <2>1, <2>2, <2>7, <2>9, <2>10 DEF WritePage, AppRecords
  <2>13. Placed(a, r, auth'[t])
    BY <1>1, <2>2, <2>11 DEF Turning, Placed
  <2>14. Texted'
    BY <1>1 DEF Turning, Texted
  <2> QED
    BY <2>11, <2>12, <2>13, <2>14 DEF Placing, Turns
<1> QED
  BY <1>3, <1>4 DEF WriteHeaders, WriteContent, EndPages, Written

-----------------------------------------------------------------------------
(* Each step keeps what the applications have. *)

\* Others have what they may have.
LEMMA OthersApplied ==
  ASSUME Applied, NEW t \in Thread, OthersStay(t), NEW u \in Thread \ {t}, app \in [Thread -> AppRecords]
  PROVE  IF thread'[u].at = "answer" THEN Placed(app'[u], Req(u)', auth'[u]) ELSE app'[u] = NoApp
<1>1. thread'[u] = thread[u] /\ auth'[u] = auth[u] /\ (Late(u) => Req(u)' = Req(u))
      /\ (app'[u] = app[u] \/ (app[u].in # "none" /\ app'[u] = [app[u] EXCEPT !.mixed = TRUE]))
  BY DEF OthersStay
<1>2. CASE thread[u].at = "answer"
  <2>1. Req(u)' = Req(u) /\ Placed(app[u], Req(u), auth[u]) /\ app[u] \in AppRecords
    BY <1>1, <1>2 DEF Applied, Late
  <2> QED
    BY <1>1, <1>2, <2>1, PlacedMixed
<1>3. CASE thread[u].at # "answer"
  <2>1. app[u] = NoApp
    BY <1>3 DEF Applied
  <2>2. app[u].in = "none"
    BY <2>1 DEF NoApp
  <2> QED
    BY <1>1, <1>3, <2>1, <2>2
<1> QED
  BY <1>2, <1>3

\* What a thread begins and ends with.
LEMMA NoAppTypes ==
  /\ NoApp \in AppRecords /\ NoApp.in = "none"
  /\ \A r, who : Placed([NoApp EXCEPT !.n = 1, !.in = "start"], r, who)
  /\ [NoApp EXCEPT !.n = 1, !.in = "start"] \in AppRecords
<1>1. Most \in Nat /\ MaxPage \in Nat
  BY PageNumbers, AppsAssumption
<1>2. 0 \in -1 .. Most /\ 0 \in 0 .. MaxPage /\ -1 \in Int
  BY <1>1
<1>3. NoApp \in AppRecords /\ NoApp.in = "none"
  BY <1>2 DEF NoApp, AppRecords, Doing, Ways
<1>4. PICK a : a = [NoApp EXCEPT !.n = 1, !.in = "start"]
  OBVIOUS
<1>5. a \in AppRecords /\ a.n = 1 /\ a.in = "start" /\ a.page = 0 /\ a.serve = "content"
  <2>1. a.n = 1 /\ a.in = "start" /\ a.page = 0 /\ a.serve = "content"
    BY <1>4 DEF NoApp
  <2>2. "start" \in Doing /\ 1 \in 0 .. 6
    BY DEF Doing
  <2>3. a \in AppRecords
    BY <1>3, <1>4, <2>2 DEF AppRecords
  <2> QED
    BY <2>1, <2>3
<1>6. \A r, who : Placed(a, r, who)
  BY <1>5 DEF Placed, Keeping, Writing
<1> QED
  BY <1>3, <1>4, <1>5, <1>6

\* A step of a thread that is at its answer, and a step that begins or ends one.
LEMMA StepApplied ==
  ASSUME Applied, NEW t \in Thread, OthersStay(t), Texted', NEW a \in AppRecords, Turns(t, a),
         IF thread'[t].at = "answer" THEN Placed(a, Req(t)', auth'[t]) ELSE a = NoApp
  PROVE  Applied'
<1>1. app \in [Thread -> AppRecords]
  BY DEF Applied
<1>2. app' \in [Thread -> AppRecords] /\ app'[t] = a
  BY <1>1, Turned
<1>3. \A u \in Thread \ {t} : IF thread'[u].at = "answer" THEN Placed(app'[u], Req(u)', auth'[u]) ELSE app'[u] = NoApp
  BY <1>1, OthersApplied
<1> QED
  BY <1>2, <1>3 DEF Applied

\* A step of a thread leaves the others.
LEMMA ServingOthers ==
  ASSUME HandInv, FileInv, PoolInv, Carried, Secured, Applied, NEW t \in Thread, Serving(t),
         \/ UNCHANGED app \/ \E a \in AppRecords : Turns(t, a)
  PROVE  OthersStay(t)
<1>1. app \in [Thread -> AppRecords]
  BY DEF Applied
<1>2. \A u \in Thread \ {t} : app'[u] = app[u] \/ (app[u].in # "none" /\ app'[u] = [app[u] EXCEPT !.mixed = TRUE])
  BY <1>1, Turned
<1> QED
  BY <1>2, TaskRequest, ServingSecured DEF OthersStay

\* What an answering thread has.
LEMMA AnswerTurning ==
  ASSUME HandInv, FileInv, PoolInv, Carried, Secured, Applied, NEW t \in Thread, thread[t].at = "answer"
  PROVE  Turning(t, Req(t))
<1>1. Proper(Req(t)) /\ Req(t).method # "DELETE" /\ (app[t].n # 1 => Req(t).method # "OPTIONS")
  BY DEF PoolInv, Tends, Applies, Req
<1>2. Sendable(Req(t))
  BY DEF Carried, Late
<1>3. auth[t] \in Auths /\ Texted /\ app \in [Thread -> AppRecords] /\ Placed(app[t], Req(t), auth[t])
  BY DEF Secured, Applied
<1> QED
  BY <1>1, <1>2, <1>3 DEF Turning

\* Each step of an application, or of its answer.
LEMMA ResponsePlacing ==
  ASSUME NEW t \in Thread, NEW r, Turning(t, r), auth \in [Thread -> Auths], NEW c, ResponseStep(t, c, r)
  PROVE  Placing(t, r)
<1>1. CASE AppStep(t, r)
  BY <1>1, PlainTypes, AuthenticationAppTypes, StorageAppTypes, StoreTypes, FindTypes, JSONTypes DEF AppStep
<1> QED
  BY <1>1, ResponseTypes DEF ResponseStep

\* A step of a thread.
LEMMA ServingTurns ==
  ASSUME HandInv, FileInv, PoolInv, Carried, Secured, Applied, NEW t \in Thread, Serving(t)
  PROVE  /\ Texted'
         /\ \E a \in AppRecords : Turns(t, a) /\ (IF thread'[t].at = "answer" THEN Placed(a, Req(t)', auth'[t]) ELSE a = NoApp)
<1>1. app \in [Thread -> AppRecords] /\ Texted
  BY DEF Applied
<1>2. ASSUME UNCHANGED app PROVE Turns(t, app[t])
  BY <1>1, <1>2 DEF Turns, Do
<1>3. ASSUME UNCHANGED <<storage, json>> PROVE Texted'
  BY <1>1, <1>3 DEF Texted
<1>4. CASE TakeTask(t) \/ HandleParts(t) \/ LockTransactions(t) \/ CopyPart(t)
  <2>1. UNCHANGED <<app, storage, json>> /\ thread[t].at # "answer"
    BY <1>4 DEF TakeTask, HandleParts, LockTransactions, CopyPart, answers, apps, Idle, NoTask
  <2>2. thread'[t].at # "answer"
    <3>1. CASE TakeTask(t)
      BY <3>1 DEF TakeTask, HandInv, Fields
    <3>2. CASE CopyPart(t)
      <4>1. UNCHANGED thread \/ Proceed(t, session[thread[t].c], "respond")
        BY <3>2 DEF CopyPart
      <4> QED
        BY <2>1, <4>1 DEF Proceed, HandInv, Fields
    <3>3. CASE LockTransactions(t)
      <4>1. Proceed(t, session[thread[t].c], "copy") /\ thread[t].at # "idle"
        BY <3>3 DEF LockTransactions
      <4> QED
        BY <4>1, Proceeds
    <3>4. CASE HandleParts(t)
      <4>1. thread[t].at = "handle"
        BY <3>4 DEF HandleParts
      <4>2. Late(t)' => Late(t) \/ thread'[t].at # "answer"
        BY TaskRequest
      <4> QED
        BY <4>1, <4>2 DEF Late
    <3> QED
      BY <1>4, <3>1, <3>2, <3>3, <3>4
  <2>3. app[t] = NoApp
    BY <2>1 DEF Applied
  <2> QED
    BY <1>1, <1>2, <1>3, <2>1, <2>2, <2>3
<1>5. CASE HandleResponse(t)
  <2>1. Proceed(t, session[thread[t].c], "answer") /\ UNCHANGED <<storage, json>>
        /\ Do(t, [NoApp EXCEPT !.n = 1, !.in = "start"]) /\ thread[t].at # "idle"
    BY <1>5 DEF HandleResponse, NewResponse, Do
  <2>2. thread'[t].at = "answer"
    BY <2>1, Proceeds
  <2>3. PICK a : a = [NoApp EXCEPT !.n = 1, !.in = "start"]
    OBVIOUS
  <2>4. a \in AppRecords /\ Placed(a, Req(t)', auth'[t])
    BY <2>3, NoAppTypes, Zenon
  <2> QED
    BY <1>3, <2>1, <2>2, <2>3, <2>4 DEF Turns
<1>6. CASE HandleException(t) \/ CloseOrRestart(t)
  <2>1. (\E s : Leave(t, s)) /\ UNCHANGED <<storage, json>> /\ Do(t, NoApp)
    BY <1>6 DEF HandleException, CloseOrRestart, Forgotten, Do
  <2>2. thread'[t].at # "answer"
    BY <2>1 DEF Leave, NoTask, HandInv, Fields
  <2> QED
    BY <1>3, <2>1, <2>2, NoAppTypes DEF Turns
<1>7. CASE Answer(t)
  <2>1. thread[t].at = "answer" /\ UNCHANGED tasks
    BY <1>7 DEF Answer
  <2>2. thread'[t].at = "answer" /\ Req(t)' = Req(t)
    BY <2>1 DEF tasks, Req
  <2>3. Turning(t, Req(t))
    BY <2>1, AnswerTurning
  <2>4. CASE ResponseStep(t, thread[t].c, session[thread[t].c].request)
    <3>1. Placing(t, Req(t))
      BY <2>3, <2>4, ResponsePlacing DEF Req, Secured
    <3> QED
      BY <2>2, <3>1 DEF Placing
  <2>5. CASE PoolStep(t) /\ UNCHANGED <<response, apps, authentication>>
    <3>1. Placed(app[t], Req(t), auth'[t]) /\ app[t] \in AppRecords /\ UNCHANGED <<app, storage, json>>
      BY <2>3, <2>5 DEF Turning, authentication, apps
    <3> QED
      BY <1>2, <1>3, <2>2, <3>1
  <2>6. CASE AuthenticationStep(t) /\ UNCHANGED <<response, apps>>
    <3>1. auth[t].in # "none" /\ UNCHANGED <<app, storage, json>>
      BY <2>6 DEF AuthenticationStep, Authenticate, CheckTime, StampTime, ReadUser, Logon, CreateUser,
           StoreSecret, StoreSession, StoreLast, Logoff, In, apps
    <3>2. app[t].in \in {"start", "status", "check"} /\ app[t] \in AppRecords /\ Placed(app[t], Req(t), auth[t])
      BY <2>3, <3>1 DEF Turning, Placed
    <3>3. Placed(app[t], Req(t), auth'[t])
      BY <3>2 DEF Placed, Keeping, Writing
    <3> QED
      BY <1>2, <1>3, <2>2, <3>1, <3>2, <3>3
  <2> QED
    BY <1>7, <2>4, <2>5, <2>6 DEF Answer
<1> QED
  BY <1>4, <1>5, <1>6, <1>7 DEF Serving, Task

\* So does every step.
LEMMA NextApplied == HandInv /\ FileInv /\ PoolInv /\ Carried /\ Secured /\ Applied /\ [Next]_vars => Applied'
<1> SUFFICES ASSUME HandInv, FileInv, PoolInv, Carried, Secured, Applied, [Next]_vars PROVE Applied'
  OBVIOUS
<1>1. ASSUME NEW t \in Thread, Serving(t) PROVE Applied'
  BY <1>1, ServingTurns, ServingOthers, StepApplied
<1>2. CASE ~ \E t \in Thread : Serving(t)
  <2>1. UNCHANGED <<thread, app>> /\ \A t \in Thread : thread[t].at # "idle" => Req(t)' = Req(t)
    BY <1>2, ThreadsStay
  <2>2. UNCHANGED <<auth, storage, json>>
    BY <1>2 DEF Next, Client, Connect, Send, SendRest, Receive, GoAway, Calling, Callback, HandleAccept, HandleHandshake,
         HandleRead, answers, vars, Expires, Expire, authentication, apps
  <2> QED
    BY <2>1, <2>2 DEF Applied, Texted
<1> QED
  BY <1>1, <1>2

\* At first there is nothing.
LEMMA InitApplied == Init => Applied
<1> SUFFICES ASSUME Init PROVE Applied
  OBVIOUS
<1>1. /\ app = [t \in Thread |-> NoApp] /\ thread = [t \in Thread |-> NoTask]
      /\ storage = [u \in User \cup {NoUser} |-> Nothing] /\ json = [u \in User \cup {NoUser} |-> NoDocument]
  BY DEF Init, AppsInit, SessionInit
<1> QED
  BY <1>1, NoAppTypes, TextFields DEF Applied, Texted, NoTask

-----------------------------------------------------------------------------
(* The answers. *)

\* An answer, and the answers of all.
IsAnswer(a) ==
  a \in [to : {a.to}, status : Int, ok : BOOLEAN, user : User \cup {NoUser}, id : SessionId \cup {NoSession}, cookie : {a.cookie},
         announced : Nat \cup {-1}, parts : Seq([by : Names, size : 1 .. Most]), ended : BOOLEAN, mixed : BOOLEAN]

Responded == up \in [Connection -> BOOLEAN] /\ \A c \in Connection : IsAnswer(answer[c])

\* The steps that change an answer.
LEMMA AnswerMoves ==
  ASSUME NEW t \in Thread, Serving(t)
  PROVE  /\ up' = up
         /\ \/ answer' = answer
            \/ /\ thread[t].at = "answer" /\ UNCHANGED tasks
               /\ \/ WriteHeaders(t, thread[t].c, Req(t)) \/ WriteContent(t, thread[t].c, Req(t))
                  \/ WritePage(t, thread[t].c) \/ EndPages(t, thread[t].c)
<1>1. CASE TakeTask(t) \/ HandleParts(t) \/ LockTransactions(t) \/ CopyPart(t)
  <2>1. UNCHANGED answers
    BY <1>1 DEF TakeTask, HandleParts, LockTransactions, CopyPart
  <2> QED
    BY <2>1 DEF answers, response
<1>2. CASE HandleResponse(t) \/ HandleException(t) \/ CloseOrRestart(t)
  BY <1>2, Zenon DEF HandleResponse, HandleException, CloseOrRestart, response
<1>3. CASE Answer(t)
  <2>1. thread[t].at = "answer" /\ UNCHANGED tasks
    BY <1>3 DEF Answer
  <2>2. \/ UNCHANGED response
        \/ WriteHeaders(t, thread[t].c, Req(t)) \/ WriteContent(t, thread[t].c, Req(t))
        \/ WritePage(t, thread[t].c) \/ EndPages(t, thread[t].c)
    BY <1>3 DEF Answer, ResponseStep, Req
  <2> QED
    BY <2>1, <2>2 DEF response, WriteHeaders, WriteContent, WritePage, EndPages
<1> QED
  BY <1>1, <1>2, <1>3 DEF Serving, Task

\* What is announced is a length, or unknown.
LEMMA AnnouncedTypes ==
  ASSUME NEW a \in AppRecords, NEW r, NEW who, Placed(a, r, who)
  PROVE  Announced(a) \in -1 .. Most /\ (a.serve \in {"content", "file"} => Announced(a) # -1)
         /\ (a.serve \notin {"content", "file"} => Announced(a) = a.length)
<1>1. Most \in Nat /\ 1 <= Most
  BY PageNumbers
<1>2. a.length \in -1 .. Most
  BY DEF AppRecords
<1>3. CASE a.serve \in {"content", "file"}
  <2>1. Announced(a) \in {0, 1}
    BY <1>3 DEF Announced
  <2> QED
    BY <1>1, <1>3, <2>1
<1>4. CASE a.serve \notin {"content", "file"}
  BY <1>2, <1>4 DEF Announced
<1> QED
  BY <1>3, <1>4

\* A content is one part, or none.
LEMMA ContentTypes ==
  ASSUME NEW t \in Thread, NEW r, Turning(t, r), app[t].serve # "data"
  PROVE  Content(t) \in Seq([by : Names, size : 1 .. Most])
<1>1. Most \in Nat /\ 1 <= Most
  BY PageNumbers
<1>2. ASSUME NEW name \in Names, NEW n \in 0 .. Most PROVE Part(name, n) \in Seq([by : Names, size : 1 .. Most])
  <2>1. CASE n = 0
    BY <2>1 DEF Part
  <2>2. CASE n # 0
    <3>1. n \in 1 .. Most
      BY <1>1, <2>2
    <3>2. [by |-> name, size |-> n] \in [by : Names, size : 1 .. Most]
      BY <3>1
    <3>3. Part(name, n) = <<[by |-> name, size |-> n]>>
      BY <2>2 DEF Part
    <3> QED
      BY <3>2, <3>3
  <2> QED
    BY <2>1, <2>2
<1>3. app[t] \in AppRecords /\ Placed(app[t], r, auth[t]) /\ auth[t].user \in User \cup {NoUser}
  BY DEF Turning, Auths
<1>4. PICK d \in Documents : d = json[auth[t].user]
  BY <1>3 DEF Turning, Texted
<1>5. d.json \in Names /\ d.http \in Names /\ d.length \in 0 .. Most /\ "content" \in Names /\ 1 \in 0 .. Most
  BY <1>1 DEF Documents, Names
<1>6. CASE app[t].serve \in {"content", "file"}
  <2>1. Announced(app[t]) \in 0 .. Most
    BY <1>1, <1>3, <1>6, AnnouncedTypes
  <2>2. Content(t) = Part("content", Announced(app[t]))
    BY <1>6 DEF Content
  <2> QED
    BY <1>2, <1>5, <2>1, <2>2
<1>7. CASE app[t].serve \notin {"content", "file"}
  <2>1. app[t].serve \in {"json", "query", "http"}
    BY <1>3, <1>7 DEF AppRecords, Ways
  <2>2. Content(t) \in {Part("content", 1), Part(d.json, 1), Part(d.http, d.length)}
    BY <1>4, <2>1 DEF Content
  <2> QED
    BY <1>2, <1>5, <2>2
<1> QED
  BY <1>6, <1>7

\* An answer that is begun, and one that goes on.
LEMMA AnswerBegins ==
  ASSUME NEW to, NEW status \in Int, NEW n \in Nat \cup {-1}, NEW ok \in BOOLEAN, NEW user \in User \cup {NoUser},
         NEW id \in SessionId \cup {NoSession}, NEW k, NEW b,
         b = [NoAnswer EXCEPT !.to = to, !.status = status, !.announced = n, !.ok = ok, !.user = user, !.id = id, !.cookie = k]
  PROVE  IsAnswer(b)
<1> DEFINE P == Seq([by : Names, size : 1 .. Most])
<1>1. <<>> \in P
  OBVIOUS
<1> HIDE DEF P
<1>2. NoAnswer \in [to : {<<>>}, status : Int, ok : BOOLEAN, user : User \cup {NoUser}, id : SessionId \cup {NoSession}, cookie : {FALSE},
                    announced : Nat \cup {-1}, parts : P, ended : BOOLEAN, mixed : BOOLEAN]
  BY <1>1 DEF NoAnswer, NoUser, NoSession
<1>3. b \in [to : {b.to}, status : Int, ok : BOOLEAN, user : User \cup {NoUser}, id : SessionId \cup {NoSession},
             cookie : {b.cookie}, announced : Nat \cup {-1}, parts : P, ended : BOOLEAN, mixed : BOOLEAN]
  BY <1>2
<1> QED
  BY <1>3 DEF IsAnswer, P

\* It goes on with more parts, or ends.
LEMMA AnswerGoesOn ==
  ASSUME NEW a, IsAnswer(a), NEW p \in Seq([by : Names, size : 1 .. Most]), NEW m \in BOOLEAN
  PROVE  /\ IsAnswer([a EXCEPT !.parts = p, !.ended = TRUE, !.mixed = m])
         /\ IsAnswer([a EXCEPT !.parts = p, !.mixed = m])
         /\ IsAnswer([a EXCEPT !.ended = TRUE, !.mixed = m])
<1> DEFINE P == Seq([by : Names, size : 1 .. Most])
<1> HIDE DEF P
<1>1. a \in [to : {a.to}, status : Int, ok : BOOLEAN, user : User \cup {NoUser}, id : SessionId \cup {NoSession}, cookie : {a.cookie},
             announced : Nat \cup {-1}, parts : P, ended : BOOLEAN, mixed : BOOLEAN] /\ p \in P
  BY DEF IsAnswer, P
<1>2. ASSUME NEW b, \/ b = [a EXCEPT !.parts = p, !.ended = TRUE, !.mixed = m] \/ b = [a EXCEPT !.parts = p, !.mixed = m]
                    \/ b = [a EXCEPT !.ended = TRUE, !.mixed = m]
      PROVE  b \in [to : {b.to}, status : Int, ok : BOOLEAN, user : User \cup {NoUser}, id : SessionId \cup {NoSession},
                    cookie : {b.cookie}, announced : Nat \cup {-1}, parts : P, ended : BOOLEAN, mixed : BOOLEAN]
  BY <1>1, <1>2
<1>3. ASSUME NEW b, \/ b = [a EXCEPT !.parts = p, !.ended = TRUE, !.mixed = m] \/ b = [a EXCEPT !.parts = p, !.mixed = m]
                    \/ b = [a EXCEPT !.ended = TRUE, !.mixed = m]
      PROVE  IsAnswer(b)
  BY <1>2, <1>3 DEF IsAnswer, P
<1> QED
  BY <1>3

\* A step of a thread keeps the answers.
LEMMA ServingResponded ==
  ASSUME HandInv, FileInv, PoolInv, Carried, Secured, Applied, Responded, NEW t \in Thread, Serving(t)
  PROVE  Responded'
<1>1. CASE answer' = answer
  BY <1>1, AnswerMoves DEF Responded
<1>2. CASE answer' # answer
  <2>1. PICK c : c = thread[t].c
    OBVIOUS
  <2>2. PICK r : r = Req(t)
    OBVIOUS
  <2>3. thread[t].at = "answer" /\ (WriteHeaders(t, c, r) \/ WriteContent(t, c, r) \/ WritePage(t, c) \/ EndPages(t, c))
    BY <1>2, <2>1, <2>2, AnswerMoves
  <2>4. Turning(t, r) /\ c \in Connection
    BY <2>1, <2>2, <2>3, AnswerTurning, Tasked
  <2>5. app[t] \in AppRecords /\ auth[t] \in Auths /\ Placed(app[t], r, auth[t])
    BY <2>4 DEF Turning
  <2>6. IsAnswer(answer[c])
    BY <2>4 DEF Responded
  <2>7. ASSUME NEW a, IsAnswer(a), answer' = [answer EXCEPT ![c] = a] PROVE Responded'
    <3>1. up' = up
      BY AnswerMoves
    <3> QED
      BY <2>4, <2>7, <3>1 DEF Responded, FileInv
  <2>8. CASE WriteHeaders(t, c, r)
    <3>1. Announced(app[t]) \in Nat \cup {-1}
      <4>1. Announced(app[t]) \in -1 .. Most
        BY <2>5, AnnouncedTypes
      <4> QED
        BY <4>1, PageNumbers
    <3>2. app[t].status \in Int /\ auth[t].ok \in BOOLEAN /\ auth[t].user \in User \cup {NoUser}
          /\ auth[t].id \in SessionId \cup {NoSession}
      BY <2>5 DEF AppRecords, Auths
    <3>0. PICK k : k = (app[t].n > 1)
      OBVIOUS
    <3>3. PICK b : b = [NoAnswer EXCEPT !.to = r.id, !.status = app[t].status, !.announced = Announced(app[t]),
                                        !.ok = auth[t].ok, !.user = auth[t].user, !.id = auth[t].id, !.cookie = k]
      OBVIOUS
    <3>4. IsAnswer(b)
      <4>1. PICK status \in Int, n \in Nat \cup {-1} : status = app[t].status /\ n = Announced(app[t])
        BY <3>1, <3>2
      <4>2. PICK ok \in BOOLEAN : ok = auth[t].ok
        BY <3>2
      <4>3. PICK user \in User \cup {NoUser} : user = auth[t].user
        BY <3>2
      <4>4. PICK id \in SessionId \cup {NoSession} : id = auth[t].id
        BY <3>2
      <4>5. PICK to : to = r.id
        OBVIOUS
      <4>6. b = [NoAnswer EXCEPT !.to = to, !.status = status, !.announced = n, !.ok = ok, !.user = user, !.id = id, !.cookie = k]
        BY <3>3, <4>1, <4>2, <4>3, <4>4, <4>5
      <4> QED
        BY <4>6, AnswerBegins
    <3>5. answer' = [answer EXCEPT ![c] = b]
      BY <1>2, <2>8, <3>0, <3>3 DEF WriteHeaders
    <3> QED
      BY <2>7, <3>4, <3>5
  <2>9. CASE WriteContent(t, c, r)
    <3>1. PICK p \in Seq([by : Names, size : 1 .. Most]), m \in BOOLEAN : p = Content(t) /\ m = app[t].mixed
      BY <2>4, <2>5, <2>9, ContentTypes DEF WriteContent, AppRecords
    <3>2. answer' = [answer EXCEPT ![c] = [answer[c] EXCEPT !.parts = p, !.ended = TRUE, !.mixed = m]]
      BY <1>2, <2>4, <2>9, <3>1 DEF WriteContent, FileInv
    <3> QED
      BY <2>6, <2>7, <3>2, AnswerGoesOn
  <2>10. CASE WritePage(t, c)
    <3>1. PICK q : q = PageAt(t)
      OBVIOUS
    <3>2. q \in [by : Names, size : 1 .. Most]
      <4>1. q \in [by : Names, size : 0 .. PageSize] /\ q.size > 0
        BY <2>4, <2>10, <3>1, PageTypes DEF WritePage
      <4>2. PICK n \in 0 .. PageSize : n = q.size
        BY <4>1
      <4>3. n \in 1 .. Most
        BY <4>1, <4>2, PageNumbers, AppsAssumption
      <4> QED
        BY <4>1, <4>2, <4>3
    <3>3. answer[c].parts \in Seq([by : Names, size : 1 .. Most])
      BY <2>6 DEF IsAnswer
    <3>4. Append(answer[c].parts, q) \in Seq([by : Names, size : 1 .. Most])
      BY <3>2, <3>3
    <3>5. PICK p \in Seq([by : Names, size : 1 .. Most]), m \in BOOLEAN : p = Append(answer[c].parts, q) /\ m = app[t].mixed
      BY <2>5, <3>4 DEF AppRecords
    <3>6. answer' = [answer EXCEPT ![c] = [answer[c] EXCEPT !.parts = p, !.mixed = m]]
      <4>1. answer' = [answer EXCEPT ![c] = [answer[c] EXCEPT !.parts = Append(answer[c].parts, PageAt(t)), !.mixed = app[t].mixed]]
        BY <2>10 DEF WritePage
      <4> QED
        BY <3>1, <3>5, <4>1
    <3> QED
      BY <2>6, <2>7, <3>5, <3>6, AnswerGoesOn
  <2>11. CASE EndPages(t, c)
    <3>1. PICK m \in BOOLEAN : m = app[t].mixed
      BY <2>5 DEF AppRecords
    <3>2. answer' = [answer EXCEPT ![c] = [answer[c] EXCEPT !.ended = TRUE, !.mixed = m]]
      BY <1>2, <2>4, <2>11, <3>1 DEF EndPages, FileInv
    <3>3. IsAnswer([answer[c] EXCEPT !.ended = TRUE, !.mixed = m])
      <4>1. <<>> \in Seq([by : Names, size : 1 .. Most])
        OBVIOUS
      <4> QED
        BY <2>6, <4>1, AnswerGoesOn
    <3> QED
      BY <2>7, <3>2, <3>3
  <2> QED
    BY <2>3, <2>8, <2>9, <2>10, <2>11
<1> QED
  BY <1>1, <1>2

-----------------------------------------------------------------------------
(* The clients. *)

\* The cookies, and the users the clients were told.
Remembered ==
  /\ cookie \in [Browser -> [id : SessionId \cup {NoSession}, secret : Secret \cup {""}]]
  /\ known \in [Secret -> User \cup {NoUser}]

\* The step of a client that leaves what is remembered, or learns it.
LEMMA RememberedMoves ==
  ASSUME [Next]_vars
  PROVE  UNCHANGED <<cookie, known>> \/ \E c \in Connection : Receive(c)
<1>1. ASSUME NEW c \in Connection, Client(c) PROVE UNCHANGED <<cookie, known>> \/ Receive(c)
  BY <1>1 DEF Client, Connect, Send, SendRest, GoAway, clients
<1>2. ASSUME NEW c \in Connection, Calling(c) PROVE UNCHANGED <<cookie, known>>
  BY <1>2 DEF Calling, clients
<1>3. ASSUME NEW t \in Thread, Serving(t) PROVE UNCHANGED <<cookie, known>>
  BY <1>3 DEF Serving, clients
<1>4. CASE Expires \/ UNCHANGED vars
  BY <1>4 DEF Expires, vars, clients
<1> QED
  BY <1>1, <1>2, <1>3, <1>4 DEF Next

\* A browser keeps the id it is told and the secret it sent.
LEMMA NextRemembered == FileInv /\ Carried /\ Responded /\ Remembered /\ [Next]_vars => Remembered'
<1> SUFFICES ASSUME FileInv, Carried, Responded, Remembered, [Next]_vars PROVE Remembered'
  OBVIOUS
<1>1. CASE UNCHANGED <<cookie, known>>
  BY <1>1 DEF Remembered
<1>2. ASSUME NEW c \in Connection, Receive(c) PROVE Remembered'
  <2>1. PICK x, a : x = coming[c].request.owner /\ a = answer[c]
    OBVIOUS
  <2>2. x \in Secret \cup {""} /\ a.id \in SessionId \cup {NoSession} /\ a.user \in User \cup {NoUser}
    <3>1. Waits(c)
      BY <1>2 DEF Receive, Answered
    <3>2. Sendable(coming[c].request) /\ IsAnswer(a)
      BY <2>1, <3>1 DEF Carried, Responded
    <3> QED
      BY <2>1, <3>2 DEF Sendable, IsAnswer
  <2>3. PICK j : j = (IF a.ok THEN [id |-> a.id, secret |-> x] ELSE NoCookie)
    OBVIOUS
  <2>4. j \in [id : SessionId \cup {NoSession}, secret : Secret \cup {""}]
    BY <2>2, <2>3 DEF NoCookie
  <2>5. \/ UNCHANGED cookie \/ cookie' = [cookie EXCEPT ![Jar(c)] = j]
    BY <1>2, <2>1, <2>3 DEF Receive
  <2>6. \/ UNCHANGED known \/ known' = [known EXCEPT ![x] = a.user]
    BY <1>2, <2>1 DEF Receive
  <2>7. cookie' \in [Browser -> [id : SessionId \cup {NoSession}, secret : Secret \cup {""}]]
    <3> DEFINE C == [id : SessionId \cup {NoSession}, secret : Secret \cup {""}]
    <3>1. cookie \in [Browser -> C] /\ j \in C
      BY <2>4 DEF Remembered
    <3> HIDE DEF C
    <3>2. cookie' \in [Browser -> C]
      BY <2>5, <3>1
    <3> QED
      BY <3>2 DEF C
  <2>8. known' \in [Secret -> User \cup {NoUser}]
    BY <2>2, <2>6 DEF Remembered
  <2> QED
    BY <2>7, <2>8 DEF Remembered
<1> QED
  BY <1>1, <1>2, RememberedMoves

\* What is sent is a request of the plan, with the cookie of its browser.
LEMMA SendTypes ==
  ASSUME HandInv, FileInv, Remembered, NEW c \in Connection, Send(c)
  PROVE  Sendable(coming'[c].request)
<1>1. PICK n : n = client[c].begun + 1
  OBVIOUS
<1>2. PICK p : p = Plans[plan].requests[c][n]
  OBVIOUS
<1>3. PICK j : j = cookie[Jar(c)]
  OBVIOUS
<1>4. PICK r : /\ r = [p EXCEPT !.id = <<c, n>>, !.cookie = j.id, !.owner = IF @ = "" THEN j.secret ELSE @]
               /\ coming' = [coming EXCEPT ![c] = [request |-> r, parts |-> 1]]
  BY <1>1, <1>2, <1>3 DEF Send
<1>5. p \in Requests
  <2>1. client[c] \in [begun : Nat, sent : Nat] /\ n \in Nat \ {0}
    BY <1>1 DEF FileInv, Comes
  <2>2. Plans[plan].requests[c] \in Seq(Requests)
    BY ServerAssumption DEF FileInv
  <2>3. More(c)
    BY DEF Send
  <2>4. n \in 1 .. Len(Plans[plan].requests[c])
    BY <1>1, <2>1, <2>2, <2>3 DEF More
  <2> QED
    BY <1>2, <2>2, <2>4
<1>6. j.id \in SessionId \cup {NoSession} /\ j.secret \in Secret \cup {""}
  <2>1. Jar(c) \in Browser
    BY PlanHas DEF FileInv, Jar
  <2> QED
    BY <1>3, <2>1 DEF Remembered
<1>7. /\ p.owner \in Secret \cup {""} /\ p.secret \in Secret \cup {""} /\ p.text \in STRING /\ p.length \in 0 .. Most
      /\ DOMAIN p = {"id", "cookie", "owner", "method", "path", "search", "ask", "secret", "text", "length", "json",
                     "valid", "fetch", "keep", "parts", "broken", "fails"}
  BY <1>5 DEF Requests, Most
<1>8. Sendable(r)
  <2>1. r.cookie = j.id /\ r.secret = p.secret /\ r.text = p.text /\ r.length = p.length
    BY <1>4, <1>7
  <2>2. r.owner = p.owner \/ r.owner = j.secret
    BY <1>4, <1>7
  <2> QED
    BY <1>6, <1>7, <2>1, <2>2 DEF Sendable
<1>9. coming'[c].request = r
  BY <1>4 DEF HandInv, Fields
<1> QED
  BY <1>8, <1>9

\* Each step keeps the requests that are on their way.
LEMMA NextCarried == HandInv /\ FileInv /\ Carried /\ Remembered /\ [Next]_vars => Carried'
<1> SUFFICES ASSUME HandInv, FileInv, Carried, Remembered, [Next]_vars PROVE Carried'
  OBVIOUS
<1>1. ASSUME NEW c \in Connection, Waits(c)' PROVE Sendable(coming'[c].request)
  BY <1>1, ComingMoves, SendTypes DEF Carried
<1>2. ASSUME NEW t \in Thread, Late(t)' PROVE Sendable(Req(t)')
  <2>1. CASE \E u \in Thread : Serving(u)
    <3>1. PICK u \in Thread : Serving(u)
      BY <2>1
    <3>2. CASE t = u
      <4>1. CASE Late(t) /\ Req(t)' = Req(t)
        BY <4>1 DEF Carried
      <4>2. CASE Waits(thread[t].c) /\ Req(t)' = coming[thread[t].c].request /\ thread[t].at = "handle"
        <5>1. thread[t].c \in Connection
          BY <4>2, ServedSession
        <5> QED
          BY <4>2, <5>1 DEF Carried
      <4> QED
        BY <1>2, <3>1, <3>2, <4>1, <4>2, TaskRequest
    <3>3. CASE t # u
      <4>1. thread'[t] = thread[t] /\ (Late(t) => Req(t)' = Req(t))
        BY <3>1, <3>3, TaskRequest
      <4> QED
        BY <1>2, <4>1 DEF Carried, Late
    <3> QED
      BY <3>2, <3>3
  <2>2. CASE ~ \E u \in Thread : Serving(u)
    <3>1. thread' = thread /\ (thread[t].at # "idle" => Req(t)' = Req(t))
      BY <2>2, ThreadsStay
    <3>2. Late(t)
      BY <1>2, <3>1 DEF Late
    <3>3. Req(t)' = Req(t)
      BY <3>1, <3>2 DEF Late
    <3> QED
      BY <3>2, <3>3 DEF Carried
  <2> QED
    BY <2>1, <2>2
<1> QED
  BY <1>1, <1>2 DEF Carried

\* Each step keeps the answers.
LEMMA NextResponded == HandInv /\ FileInv /\ PoolInv /\ Carried /\ Secured /\ Applied /\ Responded /\ [Next]_vars => Responded'
<1> SUFFICES ASSUME HandInv, FileInv, PoolInv, Carried, Secured, Applied, Responded, [Next]_vars PROVE Responded'
  OBVIOUS
<1>1. ASSUME NEW c \in Connection, Client(c) \/ Calling(c) PROVE Responded'
  <2>1. answer' = answer /\ (up' = up \/ (\E b \in BOOLEAN : up' = [up EXCEPT ![c] = b]))
    BY <1>1 DEF Client, Connect, Send, SendRest, Receive, GoAway, Calling, Callback, HandleAccept, HandleHandshake, HandleRead,
         answers, response
  <2> QED
    BY <2>1 DEF Responded
<1>2. ASSUME NEW t \in Thread, Serving(t) PROVE Responded'
  BY <1>2, ServingResponded
<1>3. CASE Expires \/ UNCHANGED vars
  BY <1>3 DEF Expires, vars, answers, response, Responded
<1> QED
  BY <1>1, <1>2, <1>3 DEF Next

-----------------------------------------------------------------------------
(* The sessions, and the locks of the handles. *)

\* What a session has of its request.
Sized(s) ==
  /\ s.life \in {"none", "handshake", "open", "gone"}
  /\ s.got \in Nat /\ s.temp \in Nat /\ s.temp <= s.got
  /\ s.got = 0 <=> s.request = NoRequest
  /\ s.request # NoRequest => s.got <= s.request.parts

\* Of all.
SizedAll == \A c \in Connection : Sized(session[c])

\* A session that begins or ends has nothing.
LEMMA NobodySized == Sized(Nobody) /\ Sized(Start) /\ Sized(Delete)
BY DEF Sized, Nobody, Start, Delete

\* The parts that are read are those that were sent.
LEMMA PartsSized ==
  ASSUME HandInv, FileInv, SizedAll, NEW t \in Thread, HandleParts(t)
  PROVE  \E s, at : Sized(s) /\ (Leave(t, s) \/ Proceed(t, s, at))
<1>1. PICK c : c = thread[t].c
  OBVIOUS
<1>2. /\ thread[t].at = "handle" /\ c \in Connection /\ IsSession(session[c])
      /\ Serves(c, t) /\ Comes(c) /\ Reads(c) /\ Sized(session[c]) /\ session[c].life = "open"
  <2>1. thread[t].at = "handle"
    BY DEF HandleParts
  <2>2. thread[t].at # "idle"
    BY <2>1
  <2>3. /\ c \in Connection /\ IsSession(session[c]) /\ Serves(c, t) /\ Comes(c) /\ Reads(c) /\ session[c].life = "open"
    BY <1>1, <2>2, Tasked, Zenon
  <2> QED
    BY <2>1, <2>3 DEF SizedAll
<1>3. PICK r, p, n : p \in Nat \ {0} /\ r = coming[c].request /\ p = thread[t].parts /\ n = session[c].got + p
  BY <1>2 DEF Reads
<1>4. /\ Waits(c) /\ session[c].got \in Nat /\ n + coming[c].parts = client[c].sent
      /\ Sent(c, r) /\ client[c].sent <= r.parts
  <2>1. Unread(c, p)
    BY <1>2, <1>3 DEF Reads
  <2>2. Waits(c) /\ session[c].got \in Nat /\ session[c].got + p + coming[c].parts = client[c].sent
    BY <1>3, <2>1 DEF Unread
  <2> QED
    BY <1>2, <1>3, <2>2 DEF Comes
<1>5. coming[c].parts \in Nat /\ client[c].sent \in Nat /\ r.parts \in Nat /\ n \in Nat /\ r # NoRequest
  BY <1>2, <1>3, <1>4 DEF HandInv, Fields, Comes, Sent
<1>6. n # 0 /\ n <= r.parts /\ session[c].temp \in Nat /\ session[c].temp <= n
  BY <1>2, <1>3, <1>4, <1>5 DEF Sized
<1>7. PICK s : s = [session[c] EXCEPT !.request = r, !.got = @ + thread[t].parts]
  OBVIOUS
<1>8. PICK w : w = [s EXCEPT !.temp = s.got]
  OBVIOUS
<1>9. /\ s.request = r /\ s.got = n /\ s.life = "open" /\ s.temp = session[c].temp
      /\ w.request = r /\ w.got = n /\ w.life = "open" /\ w.temp = n
      /\ ReadMore(w).request = r /\ ReadMore(w).got = n /\ ReadMore(w).life = "open" /\ ReadMore(w).temp = n
  BY <1>2, <1>3, <1>7, <1>8 DEF IsSession, ReadMore
<1>10. Sized(s) /\ Sized(w) /\ Sized(ReadMore(w))
  BY <1>5, <1>6, <1>9 DEF Sized
<1>11. \/ Leave(t, Delete) \/ Leave(t, ReadMore(w)) \/ Proceed(t, s, "respond") \/ Proceed(t, w, "append")
  BY <1>1, <1>3, <1>7, <1>8 DEF HandleParts
<1> QED
  BY <1>10, <1>11, NobodySized

\* A session gains the parts it reads, and loses all when it begins anew.
LEMMA NextSized == HandInv /\ FileInv /\ SizedAll /\ [Next]_vars => SizedAll'
<1> SUFFICES ASSUME HandInv, FileInv, SizedAll, [Next]_vars PROVE SizedAll'
  OBVIOUS
<1>1. ASSUME NEW c \in Connection, NEW s, Sized(s), session' = [session EXCEPT ![c] = s] PROVE SizedAll'
  BY <1>1 DEF SizedAll, HandInv, Fields
<1>2. CASE session' = session
  BY <1>2 DEF SizedAll
<1>3. ASSUME NEW c \in Connection, Client(c) PROVE session' = session
  BY <1>3 DEF Client, Connect, Send, SendRest, Receive, GoAway, tasks
<1>4. ASSUME NEW c \in Connection, Calling(c) PROVE SizedAll'
  <2>1. Sized(session[c]) /\ IsSession(session[c])
    BY DEF SizedAll, HandInv, Fields
  <2>2. Sized([session[c] EXCEPT !.life = "handshake"]) /\ Sized([session[c] EXCEPT !.reading = FALSE])
    BY <2>1 DEF Sized, IsSession
  <2>3. \/ session' = [session EXCEPT ![c] = [session[c] EXCEPT !.life = "handshake"]]
        \/ session' = [session EXCEPT ![c] = [session[c] EXCEPT !.reading = FALSE]]
        \/ session' = [session EXCEPT ![c] = Start] \/ session' = [session EXCEPT ![c] = Delete]
    BY <1>4 DEF Calling, Callback, HandleAccept, HandleHandshake, HandleRead
  <2> QED
    BY <1>1, <2>2, <2>3, NobodySized
<1>5. ASSUME NEW t \in Thread, Serving(t) PROVE SizedAll'
  <2>1. CASE TakeTask(t) \/ Answer(t)
    BY <1>2, <2>1 DEF TakeTask, Answer, tasks
  <2>2. CASE ~ TakeTask(t) /\ ~ Answer(t)
    <3>1. Task(t)
      BY <1>5 DEF Serving
    <3>2. thread[t].at # "idle" /\ thread[t].c \in Connection
      BY <2>2, <3>1, TaskMoves
    <3>3. ASSUME NEW s, Sized(s), Leave(t, s) \/ \E at : Proceed(t, s, at) PROVE SizedAll'
      BY <1>1, <3>2, <3>3 DEF Leave, Proceed
    <3>4. CASE HandleParts(t)
      <4>1. PICK s, at : Sized(s) /\ (Leave(t, s) \/ Proceed(t, s, at))
        BY <3>4, PartsSized
      <4> QED
        BY <3>3, <4>1
    <3>5. CASE HandleException(t) \/ CloseOrRestart(t)
      <4>1. Leave(t, Start) \/ Leave(t, Delete)
        BY <3>5 DEF HandleException, CloseOrRestart
      <4> QED
        BY <3>3, <4>1, NobodySized
    <3>6. CASE LockTransactions(t) \/ CopyPart(t) \/ HandleResponse(t)
      <4>1. UNCHANGED session \/ \E at : Proceed(t, session[thread[t].c], at)
        BY <3>6 DEF LockTransactions, CopyPart, HandleResponse
      <4> QED
        BY <1>2, <3>2, <3>3, <4>1 DEF SizedAll
    <3> QED
      BY <2>2, <3>1, <3>4, <3>5, <3>6 DEF Task
  <2> QED
    BY <2>1, <2>2
<1>6. CASE Expires \/ UNCHANGED vars
  BY <1>2, <1>6 DEF Expires, vars, tasks
<1> QED
  BY <1>2, <1>3, <1>4, <1>5, <1>6 DEF Next

\* The handles are numbered from 1.
Lent == DOMAIN databases = 1 .. Cardinality(DOMAIN databases) /\ signal \in BOOLEAN

\* There are as many handles as there were.
LEMMA NextLent == Lent /\ [Next]_vars => Lent'
<1> SUFFICES ASSUME Lent, [Next]_vars PROVE Lent'
  OBVIOUS
<1>1. ASSUME DOMAIN databases' = DOMAIN databases, signal' = signal \/ signal' \in BOOLEAN PROVE Lent'
  BY <1>1 DEF Lent
<1>2. CASE UNCHANGED <<databases, signal>>
  BY <1>1, <1>2
<1>3. ASSUME NEW t \in Thread, PoolStep(t) PROVE Lent'
  <2>1. signal' = signal \/ signal' \in BOOLEAN
    BY <1>3 DEF PoolStep, TryLock, Wake, Unlock, Signal
  <2>2. databases' = databases \/ \E i, x : databases' = [databases EXCEPT ![i] = x]
    BY <1>3 DEF PoolStep, TryLock, Wake, Unlock, Signal
  <2> QED
    BY <1>1, <2>1, <2>2
<1>4. ASSUME NEW t \in Thread, Serving(t), ~ PoolStep(t) PROVE UNCHANGED <<databases, signal>>
  <2>1. CASE TakeTask(t) \/ HandleParts(t) \/ LockTransactions(t) \/ CopyPart(t)
    <3>1. UNCHANGED answers
      BY <2>1 DEF TakeTask, HandleParts, LockTransactions, CopyPart
    <3> QED
      BY <3>1 DEF answers, pool
  <2>2. CASE HandleResponse(t) \/ HandleException(t) \/ CloseOrRestart(t)
    BY <2>2, Zenon DEF HandleResponse, HandleException, CloseOrRestart, pool
  <2>3. CASE Answer(t)
    <3>1. CASE AuthenticationStep(t)
      BY <3>1 DEF AuthenticationStep, Authenticate, CheckTime, StampTime, ReadUser, Logon, CreateUser,
           StoreSecret, StoreSession, StoreLast, Logoff
    <3>2. ASSUME NEW r, AppStep(t, r) PROVE UNCHANGED <<databases, signal>>
      BY <3>2 DEF AppStep, OptionsApp, FileSystemApp, NotFoundApp, AuthenticationApp, AuthenticationAnswer, StorageApp,
           StorageMethod, StorePage, StoreLength, StoreType, StoreCount, Stored, DropPage, Drop, FindText, FindLength, JSONApp,
           GetDocument, PostDocument, Change, pool
    <3>3. ASSUME NEW c, NEW r, WriteHeaders(t, c, r) \/ WriteContent(t, c, r) \/ WritePage(t, c) \/ EndPages(t, c)
          PROVE  UNCHANGED <<databases, signal>>
      BY <3>3 DEF WriteHeaders, WriteContent, WritePage, EndPages, pool
    <3> QED
      BY <1>4, <2>3, <3>1, <3>2, <3>3 DEF Answer, ResponseStep
  <2> QED
    BY <1>4, <2>1, <2>2, <2>3 DEF Serving, Task
<1>5. ASSUME NEW c \in Connection, Client(c) \/ Calling(c) PROVE UNCHANGED <<databases, signal>>
  BY <1>5 DEF Client, Connect, Send, SendRest, Receive, GoAway, Calling, Callback, HandleAccept, HandleHandshake, HandleRead,
       answers, pool
<1>6. CASE Expires \/ UNCHANGED vars
  BY <1>2, <1>6 DEF Expires, Expire, vars, answers, pool
<1> QED
  BY <1>2, <1>3, <1>4, <1>5, <1>6 DEF Next

\* There are no more tasks than connections.
LEMMA QueueBounded == HandInv => Len(queue) <= Cardinality(Connection)
<1> SUFFICES ASSUME HandInv PROVE Len(queue) <= Cardinality(Connection)
  OBVIOUS
<1>1. IsFiniteSet(Connection)
  BY PlansAssumption
<1>2. Len(queue) \in Nat /\ DOMAIN queue = 1 .. Len(queue)
  BY DEF HandInv, Fields
<1>3. PICK f : f = [i \in 1 .. Len(queue) |-> queue[i].c]
  OBVIOUS
<1>4. f \in [1 .. Len(queue) -> Connection]
  BY <1>2, <1>3, QueuedParts
<1>5. \A i, j \in 1 .. Len(queue) : f[i] = f[j] => i = j
  BY <1>2, <1>3, <1>4 DEF HandInv, Alone, Queued
<1>6. f \in Injection(1 .. Len(queue), Connection)
  <2>1. DOMAIN f = 1 .. Len(queue)
    BY <1>4
  <2>2. IsInjective(f)
    BY <1>5, <2>1 DEF IsInjective
  <2> QED
    BY <1>4, <2>2 DEF Injection
<1>7. Cardinality(1 .. Len(queue)) = Len(queue)
  <2>1. \A n \in Nat : Cardinality(1 .. n) = IF 1 > n THEN 0 ELSE n - 1 + 1
    BY FS_Interval
  <2> QED
    BY <1>2, <2>1
<1> QED
  BY <1>1, <1>6, <1>7, FS_Injection

-----------------------------------------------------------------------------
(* The types. *)

\* With HandInv, FileInv and PoolInv this is inductive, and has every type as a part.
TypeInv == Carried /\ Secured /\ Applied /\ Responded /\ Remembered /\ SizedAll /\ Lent

\* At first nothing is sent or answered, the cookies are those of the plan, and the handles are numbered.
LEMMA InitTypes == Init => TypeInv
<1> SUFFICES ASSUME Init PROVE TypeInv
  OBVIOUS
<1>1. PICK q : q = Plans[plan] /\ plan \in DOMAIN Plans
  BY DEF Init
<1>2. \A c \in Connection : coming[c] = Quiet /\ session[c] = Nobody /\ up[c] = FALSE /\ answer[c] = NoAnswer
  BY DEF Init, SessionInit, ResponseInit
<1>3. Carried
  <2>1. \A c \in Connection : ~ Waits(c)
    BY <1>2 DEF Waits, Quiet
  <2>2. \A t \in Thread : ~ Late(t)
    BY DEF Init, SessionInit, NoTask, Late
  <2> QED
    BY <2>1, <2>2 DEF Carried
<1>4. Responded
  <2> DEFINE P == Seq([by : Names, size : 1 .. Most])
  <2>1. <<>> \in P
    OBVIOUS
  <2>2. IsAnswer(NoAnswer)
    <3> HIDE DEF P
    <3> QED
      BY <2>1 DEF IsAnswer, NoAnswer, NoUser, NoSession, P
  <2>3. up \in [Connection -> BOOLEAN]
    BY DEF Init, ResponseInit
  <2> QED
    BY <1>2, <2>2, <2>3 DEF Responded
<1>5. Remembered
  <2>1. cookie = q.cookies /\ known = q.users
    BY <1>1 DEF Init
  <2>2. q.users \in [Secret -> User \cup {NoUser}]
    <3>1. PICK n \in 0 .. MaxUser : n = Cardinality({x \in Secret : q.users[x] # NoUser})
      BY <1>1, PlanHas
    <3>2. q.users \in [Secret -> 0 .. n]
      BY <1>1, <3>1, PlanHas
    <3> QED
      BY <3>1, <3>2, AuthenticationAssumption DEF User, NoUser
  <2>3. q.cookies \in [Browser -> [id : SessionId \cup {NoSession}, secret : Secret \cup {""}]]
    BY <1>1, PlanHas
  <2> QED
    BY <2>1, <2>2, <2>3 DEF Remembered
<1>6. SizedAll
  BY <1>2, NobodySized DEF SizedAll
<1>7. Lent
  <2>1. PICK n \in Nat \ {0} : databases = [i \in 1 .. n |-> NoThread]
    BY ServerAssumption DEF Init, PoolInit
  <2>2. \A m \in Nat : Cardinality(1 .. m) = IF 1 > m THEN 0 ELSE m - 1 + 1
    BY FS_Interval
  <2>3. signal = TRUE
    BY DEF Init, PoolInit
  <2> QED
    BY <2>1, <2>2, <2>3 DEF Lent
<1> QED
  BY <1>3, <1>4, <1>5, <1>6, <1>7, InitSecured, InitApplied DEF TypeInv

\* Every step keeps them.
LEMMA NextTypes == HandInv /\ FileInv /\ PoolInv /\ TypeInv /\ [Next]_vars => TypeInv'
BY NextCarried, NextSecured, NextApplied, NextResponded, NextRemembered, NextSized, NextLent DEF TypeInv

\* The invariants have the types as parts.
LEMMA Typed == HandInv /\ FileInv /\ PoolInv /\ TypeInv => TypeOK
<1> SUFFICES ASSUME HandInv, FileInv, PoolInv, TypeInv PROVE TypeOK
  OBVIOUS
<1>1. Carried /\ Secured /\ Applied /\ Responded /\ Remembered /\ SizedAll /\ Lent
  BY DEF TypeInv
<1>2. PoolTypeOK
  BY <1>1 DEF Lent, PoolInv, Locked, PoolTypeOK
<1>3. AuthenticationTypeOK
  BY <1>1 DEF Secured, Recorded, Auths, AuthenticationTypeOK
<1>4. AppsTypeOK
  <2>1. \A t \in Thread : app[t] \in AppRecords
    BY <1>1 DEF Applied
  <2>2. ASSUME NEW t \in Thread
        PROVE  /\ app[t].n \in 0 .. 7 /\ app[t].status \in Int
               /\ app[t].serve \in {"content", "file", "data", "json", "query", "http"}
               /\ app[t].length \in Int /\ app[t].page \in 0 .. MaxPage /\ app[t].sent \in Nat /\ app[t].mixed \in BOOLEAN
    BY <2>1, <2>2, PageNumbers DEF AppRecords, Ways
  <2>3. DOMAIN json = DOMAIN storage /\ \A u \in DOMAIN storage : storage[u].length \in Nat /\ storage[u].count \in 0 .. MaxPage
    BY <1>1, PageNumbers DEF Applied, Texted, Texts
  <2> QED
    BY <2>2, <2>3 DEF AppsTypeOK
<1>5. ResponseTypeOK
  <2>1. ASSUME NEW c \in Connection
        PROVE  /\ answer[c].user \in User \cup {NoUser} /\ answer[c].id \in SessionId \cup {NoSession}
               /\ answer[c].announced \in Nat \cup {-1}
               /\ \A i \in DOMAIN answer[c].parts : answer[c].parts[i].size \in 1 .. PageSize * MaxPage
    <3> DEFINE E == [by : Names, size : 1 .. Most]
               P == Seq(E)
    <3>1. /\ answer[c].user \in User \cup {NoUser} /\ answer[c].id \in SessionId \cup {NoSession}
          /\ answer[c].announced \in Nat \cup {-1} /\ answer[c].parts \in P
      <4> HIDE DEF P
      <4>1. IsAnswer(answer[c])
        BY <1>1 DEF Responded
      <4> QED
        BY <4>1 DEF IsAnswer, P
    <3>2. \A i \in DOMAIN answer[c].parts : answer[c].parts[i] \in E
      <4> HIDE DEF E
      <4>1. \A p \in Seq(E) : \A i \in DOMAIN p : p[i] \in E
        OBVIOUS
      <4> QED
        BY <3>1, <4>1
    <3> QED
      BY <3>1, <3>2 DEF Most
  <2> QED
    BY <1>1, <2>1 DEF Responded, ResponseTypeOK
<1>6. SessionTypeOK
  <2>1. ASSUME NEW c \in Connection
        PROVE  /\ session[c].life \in {"none", "handshake", "open", "gone"}
               /\ session[c].reading \in BOOLEAN
               /\ session[c].got = 0 <=> session[c].request = NoRequest
               /\ session[c].temp <= session[c].got
               /\ session[c].request # NoRequest => session[c].got <= session[c].request.parts
               /\ coming[c].request = NoRequest => coming[c].parts = 0
    <3>1. Sized(session[c]) /\ IsSession(session[c]) /\ Comes(c)
      BY <1>1 DEF SizedAll, HandInv, Fields, FileInv
    <3> QED
      BY <3>1 DEF Sized, IsSession, Comes, Waits
  <2>2. ASSUME NEW t \in Thread PROVE thread[t].at \in {"idle", "handle", "append", "copy", "respond", "answer"}
    <3>1. CASE thread[t].at = "idle"
      BY <3>1
    <3>2. CASE thread[t].at # "idle"
      <4>1. PICK c \in Connection : Reads(c) /\ Serves(c, t)
        BY <3>2, Tasked
      <4> QED
        BY <4>1 DEF Reads
    <3> QED
      BY <3>1, <3>2
  <2>3. mutex \in Thread \cup {NoThread}
    BY DEF FileInv, Filed
  <2> QED
    BY <2>1, <2>2, <2>3, QueueBounded DEF SessionTypeOK
<1> QED
  BY <1>1, <1>2, <1>3, <1>4, <1>5, <1>6 DEF TypeOK, Remembered

\* Whatever clients, threads and browsers there are, what the server keeps is in its range: the numbers
\* of the applications and of the pages, the lengths that are announced, the parts that a session has
\* read, the handles and who holds them, and the users and session ids (Session, Server, Authentication,
\* App and Response with the fields they declare).
THEOREM TypesCorrect == Spec => []TypeOK
<1>1. Init => HandInv /\ FileInv /\ PoolInv /\ TypeInv
  BY InitHand, InitFile, InitPool, InitTypes
<1>2. HandInv /\ FileInv /\ PoolInv /\ TypeInv /\ [Next]_vars => (HandInv /\ FileInv /\ PoolInv /\ TypeInv)'
  BY NextHand, NextFile, NextPool, NextTypes
<1>3. HandInv /\ FileInv /\ PoolInv /\ TypeInv => TypeOK
  BY Typed
<1> QED
  BY <1>1, <1>2, <1>3, PTL DEF Spec
=============================================================================
