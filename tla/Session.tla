------------------------------ MODULE Session ------------------------------
(***************************************************************************)
(* The life of a session (src/code/https/session.h, server.h).  One thread *)
(* runs the callbacks of the connections: accept, handshake, and each read *)
(* of what has come in, which is handed to the threads of the server.  One *)
(* of these reads it into the request and the temporary file, and asks for *)
(* more, or adds the file to the transactions and answers.  A session is   *)
(* deleted by whoever has it then, so only one may have it at any time.    *)
(***************************************************************************)
EXTENDS Response

CONSTANT NoConnection \* what an idle thread serves

ASSUME SessionAssumption == NoConnection \notin Connection

VARIABLES coming,      \* connection -> the request its client sends, and the parts not yet read
          session,     \* connection -> its Session
          queue,       \* the tasks of the server: a connection and the parts it read
          thread,      \* thread -> the connection it serves, what it does, and the parts
          mutex,       \* _mutex, of the file of transactions
          transactions \* the file: parts of requests, each with its connection and number

tasks == <<session, queue, thread>>
file == <<mutex, transactions>>
answers == <<response, apps, authentication, pool>>

\* What there is before the first part of a request.
NoRequest == [id |-> <<>>]

Nobody == [life |-> "none", reading |-> FALSE, request |-> NoRequest, got |-> 0, temp |-> 0]
NoTask == [c |-> NoConnection, at |-> "idle", parts |-> 0]
Quiet == [request |-> NoRequest, parts |-> 0]

SessionTypeOK ==
  /\ \A c \in Connection :
       /\ session[c].life \in {"none", "handshake", "open", "gone"}
       /\ session[c].reading \in BOOLEAN
       /\ session[c].got = 0 <=> session[c].request = NoRequest
       /\ session[c].temp <= session[c].got
       /\ session[c].request # NoRequest => session[c].got <= session[c].request.parts
       /\ coming[c].request = NoRequest => coming[c].parts = 0
  /\ Len(queue) <= Cardinality(Connection)
  /\ \A t \in Thread : thread[t].at \in {"idle", "handle", "append", "copy", "respond", "answer"}
  /\ mutex \in Thread \cup {NoThread}

SessionInit ==
  /\ coming = [c \in Connection |-> Quiet]
  /\ session = [c \in Connection |-> Nobody]
  /\ queue = <<>>
  /\ thread = [t \in Thread |-> NoTask]
  /\ mutex = NoThread
  /\ transactions = <<>>

\* start: a new request is read.
Start == [Nobody EXCEPT !.life = "open", !.reading = TRUE]

\* delete this: the request, the response and the temporary file go with it.
Delete == [Nobody EXCEPT !.life = "gone"]

Idle == {t \in Thread : thread[t] = NoTask}

-----------------------------------------------------------------------------
(* The callbacks. *)

\* A session waits for the next client already.
HandleAccept(c) ==
  /\ session[c].life = "none"
  /\ up[c]
  /\ session' = [session EXCEPT ![c].life = "handshake"]
  /\ UNCHANGED <<coming, queue, thread, file, answers>>

HandleHandshake(c) ==
  /\ session[c].life = "handshake"
  /\ session' = [session EXCEPT ![c] = IF up[c] THEN Start ELSE Delete]
  /\ UNCHANGED <<coming, queue, thread, file, answers>>

\* As HandleRead with more asked for at once.
HandleReadOn(c) ==
  /\ session[c].reading
  /\ coming[c].parts > 0
  /\ queue' = Append(queue, [c |-> c, parts |-> coming[c].parts])
  /\ coming' = [coming EXCEPT ![c].parts = 0]
  /\ UNCHANGED <<session, thread, file, answers>>

\* The bytes are handed on, or the client is gone.
HandleRead(c) ==
  /\ session[c].reading
  /\ \/ /\ coming[c].parts > 0
        /\ session' = [session EXCEPT ![c].reading = FALSE]
        /\ queue' = Append(queue, [c |-> c, parts |-> coming[c].parts])
        /\ coming' = [coming EXCEPT ![c].parts = 0]
     \/ /\ ~ up[c]
        /\ session' = [session EXCEPT ![c] = Delete]
        /\ UNCHANGED <<coming, queue>>
  /\ UNCHANGED <<thread, file, answers>>

-----------------------------------------------------------------------------
(* threadedHandleRead *)

\* The threads are alike: the task goes to any that is idle.
TakeTask(t) ==
  /\ queue # <<>>
  /\ Idle # {} /\ t = CHOOSE i \in Idle : TRUE
  /\ thread' = [thread EXCEPT ![t] = [c |-> Head(queue).c, at |-> "handle", parts |-> Head(queue).parts]]
  /\ queue' = Tail(queue)
  /\ UNCHANGED <<coming, session, file, answers>>

\* A task goes on, or ends and leaves the session as it is then.
Proceed(t, s, at) ==
  /\ session' = [session EXCEPT ![thread[t].c] = s]
  /\ thread' = [thread EXCEPT ![t].at = at]

Leave(t, s) ==
  /\ session' = [session EXCEPT ![thread[t].c] = s]
  /\ thread' = [thread EXCEPT ![t] = NoTask]

\* asyncRead
ReadMore(s) == [s EXCEPT !.reading = TRUE]

\* The parts are read into the request, and what is not answered from the
\* headers alone goes to the temporary file, which may fail to open.
HandleParts(t) ==
  /\ thread[t].at = "handle"
  /\ LET c == thread[t].c
         r == coming[c].request
         s == [session[c] EXCEPT !.request = r, !.got = @ + thread[t].parts]
         all == s.got = r.parts
         written == [s EXCEPT !.temp = s.got]
     IN CASE r.broken -> Leave(t, Delete)
          [] ~ r.broken /\ all /\ r.method \in {"GET", "OPTIONS"} -> Proceed(t, s, "respond")
          [] OTHER ->
               \/ s.temp = 0 /\ r.fails /\ Leave(t, Delete)
               \/ ~ r.fails /\ all /\ r.method = "POST" /\ Proceed(t, written, "append")
               \/ ~ r.fails /\ ~ (all /\ r.method = "POST") /\ Leave(t, ReadMore(written))
  /\ UNCHANGED <<coming, queue, file, answers>>

\* As LockTransactions without the lock.
LockTransactionsNot(t) ==
  /\ thread[t].at = "append"
  /\ Proceed(t, session[thread[t].c], "copy")
  /\ UNCHANGED <<coming, queue, file, answers>>

\* appendToTransactionFile
LockTransactions(t) ==
  /\ thread[t].at = "append"
  /\ mutex = NoThread
  /\ mutex' = t
  /\ Proceed(t, session[thread[t].c], "copy")
  /\ UNCHANGED <<coming, queue, transactions, answers>>

\* What is in the file of the text of a request.
Copied(r) == {i \in DOMAIN transactions : transactions[i].id = r.id}

CopyPart(t) ==
  /\ thread[t].at = "copy"
  /\ LET r == session[thread[t].c].request
         part == Cardinality(Copied(r)) + 1
     IN /\ transactions' = Append(transactions, [id |-> r.id, part |-> part, last |-> part > r.parts])
        /\ \/ part <= r.parts /\ UNCHANGED <<session, thread, mutex>>
           \/ part > r.parts /\ mutex' = NoThread /\ Proceed(t, session[thread[t].c], "respond")
  /\ UNCHANGED <<coming, queue, answers>>

\* handleResponse
HandleResponse(t) ==
  /\ thread[t].at = "respond"
  /\ NewResponse(t, session[thread[t].c].request)
  /\ Proceed(t, session[thread[t].c], "answer")
  /\ UNCHANGED <<coming, queue, file, response, storage, json, secrets, seen, made, raced, databases, signal>>

Forgotten(t) == auth' = [auth EXCEPT ![t] = NoAuth] /\ app' = [app EXCEPT ![t] = NoApp]

HandleException(t) ==
  /\ thread[t].at = "answer" /\ At(t, "thrown")
  /\ Leave(t, Delete)
  /\ Forgotten(t)
  /\ UNCHANGED <<coming, queue, file, response, storage, json, secrets, seen, made, raced, pool>>

\* As CloseOrRestart without the clearing of the request.
CloseOrRestartKept(t) ==
  /\ thread[t].at = "answer" /\ At(t, "written")
  /\ LET s == session[thread[t].c] IN Leave(t, IF s.request.keep THEN ReadMore(s) ELSE Delete)
  /\ Forgotten(t)
  /\ UNCHANGED <<coming, queue, file, response, storage, json, secrets, seen, made, raced, pool>>

CloseOrRestart(t) ==
  /\ thread[t].at = "answer" /\ At(t, "written")
  /\ Leave(t, IF session[thread[t].c].request.keep THEN Start ELSE Delete)
  /\ Forgotten(t)
  /\ UNCHANGED <<coming, queue, file, response, storage, json, secrets, seen, made, raced, pool>>

\* Whatever answers a request does.
Answer(t) ==
  /\ thread[t].at = "answer"
  /\ \/ ResponseStep(t, thread[t].c, session[thread[t].c].request)
     \/ PoolStep(t) /\ UNCHANGED <<response, apps, authentication>>
     \/ AuthenticationStep(t) /\ UNCHANGED <<response, apps>>
  /\ UNCHANGED <<coming, tasks, file>>

Callback(c) == HandleAccept(c) \/ HandleHandshake(c) \/ HandleRead(c)

Task(t) ==
  \/ TakeTask(t) \/ HandleParts(t) \/ LockTransactions(t) \/ CopyPart(t)
  \/ HandleResponse(t) \/ Answer(t) \/ HandleException(t) \/ CloseOrRestart(t)
=============================================================================
