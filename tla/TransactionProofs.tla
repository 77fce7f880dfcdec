------------------------- MODULE TransactionProofs -------------------------
(***************************************************************************)
(* A session of Server is in one hand at a time, for any connections,      *)
(* threads, browsers and plans of the clients.  The argument: the read of  *)
(* a session, the tasks of the queue and the threads are kept apart in     *)
(* pairs (Alone), so that a step takes the session from the one that has   *)
(* it and gives it to one other, or deletes it.                            *)
(*                                                                         *)
(* The file of transactions.  The argument: the parts of a request that    *)
(* were sent have not come in, are with a task, or are in the request      *)
(* (Unread), and only when all are is it copied (Dealt); who copies has    *)
(* the mutex, and the file ends with what it has copied (Copying).  Then   *)
(* the handles on the database, which a thread has only while it answers   *)
(* (PoolInv).                                                              *)
(***************************************************************************)
EXTENDS Server, FiniteSetTheorems, TLAPS

-----------------------------------------------------------------------------
(* The hands of a session. *)

\* What comes in, the sessions, the tasks and the threads have their fields.
IsSession(s) ==
  s \in [life : {s.life}, reading : BOOLEAN, request : {s.request}, got : {s.got}, temp : {s.temp}]

Fields ==
  /\ coming = [c \in Connection |-> coming[c]]
  /\ \A c \in Connection : coming[c] \in [request : {coming[c].request}, parts : Nat]
  /\ session = [c \in Connection |-> session[c]]
  /\ \A c \in Connection : IsSession(session[c])
  /\ queue \in Seq([c : Connection, parts : Nat])
  /\ thread = [t \in Thread |-> [c |-> thread[t].c, at |-> thread[t].at, parts |-> thread[t].parts]]
  /\ \A t \in Thread : thread[t] = NoTask \/ (thread[t].at # "idle" /\ thread[t].c \in Connection)

\* Who has a session besides its own read.
Queued(c, i) == i \in DOMAIN queue /\ queue[i].c = c
Serves(c, t) == t \in Thread /\ thread[t].c = c

\* No two have it.
Alone ==
  \A c \in Connection :
    /\ session[c].reading => \A x : ~ Queued(c, x) /\ ~ Serves(c, x)
    /\ \A i, t : ~ (Queued(c, i) /\ Serves(c, t))
    /\ \A i, j : Queued(c, i) /\ Queued(c, j) => i = j
    /\ \A t, u : Serves(c, t) /\ Serves(c, u) => t = u

\* Somebody has it for as long as it is open.
Kept ==
  \A c \in Connection :
    session[c].life = "open" <=> session[c].reading \/ (\E i : Queued(c, i)) \/ (\E t : Serves(c, t))

HandInv == Fields /\ Alone /\ Kept

-----------------------------------------------------------------------------

\* A record with the fields of a session is one.
LEMMA SessionFields ==
  ASSUME NEW l, NEW b \in BOOLEAN, NEW r, NEW n, NEW m
  PROVE  IsSession([life |-> l, reading |-> b, request |-> r, got |-> n, temp |-> m])
BY DEF IsSession

\* At first nobody has anything.
LEMMA InitHand == Init => HandInv
<1> SUFFICES ASSUME Init PROVE HandInv
  OBVIOUS
<1>1. Fields
  <2>1. \A c \in Connection : coming[c] = Quiet /\ session[c] = Nobody
    BY DEF Init, SessionInit
  <2>2. queue \in Seq([c : Connection, parts : Nat])
    BY DEF Init, SessionInit
  <2>3. \A c \in Connection : IsSession(session[c])
    BY <2>1, SessionFields DEF Nobody
  <2>4. \A t \in Thread : thread[t] = [c |-> NoConnection, at |-> "idle", parts |-> 0]
    BY DEF Init, SessionInit, NoTask
  <2>5. thread = [t \in Thread |-> [c |-> thread[t].c, at |-> thread[t].at, parts |-> thread[t].parts]]
    BY <2>4 DEF Init, SessionInit, NoTask
  <2>6. session = [c \in Connection |-> session[c]]
    BY DEF Init, SessionInit
  <2>7. coming = [c \in Connection |-> coming[c]]
        /\ \A c \in Connection : coming[c] \in [request : {coming[c].request}, parts : Nat]
    BY <2>1 DEF Init, SessionInit, Quiet
  <2> QED
    BY <2>2, <2>3, <2>4, <2>5, <2>6, <2>7 DEF Fields, NoTask
<1>2. ASSUME NEW c \in Connection, NEW x
      PROVE  ~ Queued(c, x) /\ ~ Serves(c, x) /\ ~ session[c].reading /\ session[c].life = "none"
  BY SessionAssumption DEF Init, SessionInit, Nobody, NoTask, Queued, Serves
<1> QED
  BY <1>1, <1>2 DEF HandInv, Alone, Kept

\* A step of the clients changes what comes in.
LEMMA ComingKept ==
  ASSUME HandInv, UNCHANGED tasks, NEW c \in Connection, NEW r, NEW n \in Nat,
         coming' = [coming EXCEPT ![c] = [request |-> r, parts |-> n]]
  PROVE  HandInv'
<1>1. Fields'
  BY DEF HandInv, Fields, tasks
<1>2. \A d, x : (Queued(d, x)' <=> Queued(d, x)) /\ (Serves(d, x)' <=> Serves(d, x))
  BY DEF tasks, Queued, Serves
<1> QED
  BY <1>1, <1>2 DEF HandInv, Alone, Kept, tasks

\* A task goes on with its session.
LEMMA ProceedKept ==
  ASSUME HandInv, NEW t \in Thread, NEW s, NEW at, thread[t].at # "idle", at # "idle", Proceed(t, s, at),
         IsSession(s), s.life = session[thread[t].c].life, s.reading = session[thread[t].c].reading,
         UNCHANGED <<coming, queue>>
  PROVE  HandInv'
<1>1. PICK c \in Connection : c = thread[t].c
  BY DEF HandInv, Fields, NoTask
<1>2. \A d \in Connection : session'[d] = IF d = c THEN s ELSE session[d]
  BY <1>1 DEF HandInv, Fields, Proceed
<1>3. \A u \in Thread : thread'[u] = IF u = t THEN [c |-> c, at |-> at, parts |-> thread[t].parts] ELSE thread[u]
  <2>1. thread[t] = [c |-> c, at |-> thread[t].at, parts |-> thread[t].parts]
    BY <1>1 DEF HandInv, Fields
  <2>2. [thread[t] EXCEPT !.at = at] = [c |-> c, at |-> at, parts |-> thread[t].parts]
    BY <2>1
  <2> QED
    BY <2>2 DEF HandInv, Fields, Proceed
<1>4. \A u \in Thread : thread'[u].c = thread[u].c
  BY <1>1, <1>3
<1>5. Fields'
  <2>1. \A u \in Thread : thread'[u] = NoTask \/ (thread'[u].at # "idle" /\ thread'[u].c \in Connection)
    <3>1. thread'[t].at = at /\ thread'[t].c = c
      BY <1>3
    <3>2. \A u \in Thread \ {t} : thread'[u] = thread[u]
      BY <1>3
    <3> QED
      BY <3>1, <3>2 DEF HandInv, Fields
  <2>2. thread' = [u \in Thread |-> [c |-> thread'[u].c, at |-> thread'[u].at, parts |-> thread'[u].parts]]
    BY <1>3 DEF HandInv, Fields, Proceed
  <2>3. session' = [d \in Connection |-> session'[d]] /\ \A d \in Connection : IsSession(session'[d])
    BY <1>2 DEF HandInv, Fields, Proceed
  <2> QED
    BY <2>1, <2>2, <2>3 DEF HandInv, Fields
<1>6. \A d, x : (Queued(d, x)' <=> Queued(d, x)) /\ (Serves(d, x)' <=> Serves(d, x))
  BY <1>4 DEF Queued, Serves
<1>7. \A d \in Connection : session'[d].life = session[d].life /\ session'[d].reading = session[d].reading
  BY <1>1, <1>2
<1> QED
  BY <1>5, <1>6, <1>7 DEF HandInv, Alone, Kept

\* A task ends: its session is read again, or deleted.
LEMMA LeaveKept ==
  ASSUME HandInv, NEW t \in Thread, NEW s, thread[t].at # "idle", Leave(t, s),
         IsSession(s), s.life = "open" <=> s.reading, UNCHANGED <<coming, queue>>
  PROVE  HandInv'
<1>1. PICK c \in Connection : c = thread[t].c /\ Serves(c, t)
  BY DEF HandInv, Fields, NoTask, Serves
<1>2. \A d \in Connection : session'[d] = IF d = c THEN s ELSE session[d]
  BY <1>1 DEF HandInv, Fields, Leave
<1>3. \A u \in Thread : thread'[u] = IF u = t THEN NoTask ELSE thread[u]
  BY DEF HandInv, Fields, Leave
<1>4. Fields'
  <2>1. thread' = [u \in Thread |-> [c |-> thread'[u].c, at |-> thread'[u].at, parts |-> thread'[u].parts]]
    BY <1>3 DEF HandInv, Fields, Leave, NoTask
  <2>2. session' = [d \in Connection |-> session'[d]] /\ \A d \in Connection : IsSession(session'[d])
    BY <1>2 DEF HandInv, Fields, Leave
  <2> QED
    BY <1>3, <2>1, <2>2 DEF HandInv, Fields
<1>5. \A d, x : Queued(d, x)' <=> Queued(d, x)
  BY DEF Queued
<1>6. ASSUME NEW d \in Connection, NEW x PROVE Serves(d, x)' <=> Serves(d, x) /\ x # t
  BY <1>3, SessionAssumption DEF Serves, NoTask
<1>7. ASSUME NEW x PROVE ~ Queued(c, x)' /\ ~ Serves(c, x)'
  BY <1>1, <1>5, <1>6 DEF HandInv, Alone
<1>8. ASSUME NEW d \in Connection, d # c, NEW x PROVE Serves(d, x)' <=> Serves(d, x)
  BY <1>1, <1>6, <1>8 DEF Serves
<1>9. Alone'
  BY <1>2, <1>5, <1>6, <1>7, <1>8 DEF HandInv, Alone
<1>10. Kept'
  BY <1>1, <1>2, <1>5, <1>7, <1>8 DEF HandInv, Kept
<1> QED
  BY <1>4, <1>9, <1>10 DEF HandInv

\* The callbacks that take no task change one session, which nobody else has.
LEMMA SessionKept ==
  ASSUME HandInv, NEW c \in Connection, NEW s, session' = [session EXCEPT ![c] = s],
         IsSession(s), s.life = "open" <=> s.reading,
         \A x : ~ Queued(c, x) /\ ~ Serves(c, x),
         UNCHANGED <<coming, queue, thread>>
  PROVE  HandInv'
<1>1. \A d \in Connection : session'[d] = IF d = c THEN s ELSE session[d]
  BY DEF HandInv, Fields
<1>2. Fields'
  BY <1>1 DEF HandInv, Fields
<1>3. \A d, x : (Queued(d, x)' <=> Queued(d, x)) /\ (Serves(d, x)' <=> Serves(d, x))
  BY DEF Queued, Serves
<1> QED
  BY <1>1, <1>2, <1>3 DEF HandInv, Alone, Kept

\* Accept and handshake: nobody else knows of the session yet.
LEMMA AcceptKeeps ==
  ASSUME HandInv, NEW c \in Connection, HandleAccept(c) \/ HandleHandshake(c)
  PROVE  HandInv'
<1>1. session[c].life # "open" /\ IsSession(session[c])
  BY DEF HandInv, Fields, HandleAccept, HandleHandshake
<1>2. ~ session[c].reading /\ \A x : ~ Queued(c, x) /\ ~ Serves(c, x)
  BY <1>1 DEF HandInv, Kept
<1>3. PICK s : /\ session' = [session EXCEPT ![c] = s]
               /\ IsSession(s) /\ (s.life = "open" <=> s.reading)
  <2>1. CASE HandleAccept(c)
    <3> DEFINE s == [session[c] EXCEPT !.life = "handshake"]
    <3>1. IsSession(s) /\ ~ s.reading /\ s.life # "open"
      BY <1>1, <1>2 DEF IsSession
    <3>2. session' = [session EXCEPT ![c] = s]
      BY <2>1 DEF HandleAccept
    <3> HIDE DEF s
    <3> QED
      BY <3>1, <3>2
  <2>2. CASE HandleHandshake(c)
    <3>1. IsSession(Start) /\ Start.life = "open" /\ Start.reading
      BY DEF IsSession, Start, Nobody
    <3>2. IsSession(Delete) /\ Delete.life # "open" /\ ~ Delete.reading
      BY DEF IsSession, Delete, Nobody
    <3>3. session' = [session EXCEPT ![c] = Start] \/ session' = [session EXCEPT ![c] = Delete]
      BY <2>2 DEF HandleHandshake
    <3> QED
      BY <3>1, <3>2, <3>3
  <2> QED
    BY <2>1, <2>2
<1> QED
  BY <1>2, <1>3, SessionKept DEF HandleAccept, HandleHandshake

\* What has come in becomes a task, and is not read again before the task asks.
LEMMA ReadKeeps ==
  ASSUME HandInv, NEW c \in Connection, HandleRead(c)
  PROVE  HandInv'
<1>1. session[c].reading /\ session[c].life = "open" /\ IsSession(session[c])
      /\ \A x : ~ Queued(c, x) /\ ~ Serves(c, x)
  BY DEF HandInv, Fields, Alone, Kept, HandleRead
<1>2. CASE session' = [session EXCEPT ![c] = Delete] /\ UNCHANGED <<coming, queue>>
  <2>1. IsSession(Delete) /\ Delete.life # "open" /\ ~ Delete.reading
    BY DEF IsSession, Delete, Nobody
  <2> QED
    BY <1>1, <1>2, <2>1, SessionKept DEF HandleRead
<1>3. CASE /\ session' = [session EXCEPT ![c].reading = FALSE]
           /\ queue' = Append(queue, [c |-> c, parts |-> coming[c].parts])
           /\ coming' = [coming EXCEPT ![c].parts = 0]
  <2> DEFINE s == [session[c] EXCEPT !.reading = FALSE]
             e == [c |-> c, parts |-> coming[c].parts]
  <2>1. session' = [session EXCEPT ![c] = s]
    BY <1>3
  <2>2. IsSession(s) /\ ~ s.reading /\ s.life = "open"
    BY <1>1 DEF IsSession
  <2>3. e \in [c : Connection, parts : Nat] /\ e.c = c /\ queue \in Seq([c : Connection, parts : Nat])
    BY DEF HandInv, Fields
  <2>4. queue' = Append(queue, e) /\ UNCHANGED thread
    BY <1>3 DEF HandleRead
  <2> HIDE DEF s, e
  <2>5. \A d \in Connection : session'[d] = IF d = c THEN s ELSE session[d]
    BY <2>1 DEF HandInv, Fields
  <2>6. Fields'
    <3>1. queue' \in Seq([c : Connection, parts : Nat])
      BY <2>3, <2>4
    <3>2. session' = [d \in Connection |-> session'[d]] /\ \A d \in Connection : IsSession(session'[d])
      BY <2>1, <2>2, <2>5 DEF HandInv, Fields
    <3>3. coming' = [d \in Connection |-> coming'[d]]
          /\ \A d \in Connection : coming'[d] \in [request : {coming'[d].request}, parts : Nat]
      BY <1>3 DEF HandInv, Fields
    <3> QED
      BY <2>4, <3>1, <3>2, <3>3 DEF HandInv, Fields
  <2>7. \A d, x : Serves(d, x)' <=> Serves(d, x)
    BY <2>4 DEF Serves
  <2>8. ASSUME NEW d \in Connection, NEW x
        PROVE  Queued(d, x)' <=> Queued(d, x) \/ (d = c /\ x = Len(queue) + 1)
    BY <2>3, <2>4 DEF Queued
  <2>9. Alone'
    BY <1>1, <2>2, <2>5, <2>7, <2>8 DEF HandInv, Alone
  <2>10. Kept'
    BY <1>1, <2>2, <2>5, <2>7, <2>8 DEF HandInv, Kept
  <2> QED
    BY <2>6, <2>9, <2>10 DEF HandInv
<1> QED
  BY <1>2, <1>3 DEF HandleRead

\* An idle thread takes the first task.
LEMMA TakeKeeps ==
  ASSUME HandInv, NEW t \in Thread, TakeTask(t)
  PROVE  HandInv'
<1> DEFINE N == Len(queue)
<1>1. thread[t] = NoTask
  BY DEF TakeTask, Idle
<1>2. queue \in Seq([c : Connection, parts : Nat]) /\ queue # <<>> /\ N \in Nat \ {0} /\ DOMAIN queue = 1 .. N
  BY DEF HandInv, Fields, TakeTask
<1>3. PICK c \in Connection : Head(queue).c = c /\ Queued(c, 1)
  <2>1. Head(queue) = queue[1] /\ 1 \in DOMAIN queue
    BY <1>2
  <2>2. ASSUME NEW S, queue \in Seq(S) PROVE queue[1] \in S
    BY <2>1, <2>2
  <2>3. queue[1] \in [c : Connection, parts : Nat]
    BY <1>2, <2>2
  <2> QED
    BY <2>1, <2>3 DEF Queued
<1>4. \A u \in Thread : thread'[u] = IF u = t THEN [c |-> c, at |-> "handle", parts |-> Head(queue).parts] ELSE thread[u]
  BY <1>3 DEF HandInv, Fields, TakeTask
<1>5. Fields'
  <2>1. \A u \in Thread : thread'[u] = NoTask \/ (thread'[u].at # "idle" /\ thread'[u].c \in Connection)
    <3>1. thread'[t].at = "handle" /\ thread'[t].c = c
      BY <1>4
    <3>2. \A u \in Thread \ {t} : thread'[u] = thread[u]
      BY <1>4
    <3> QED
      BY <3>1, <3>2 DEF HandInv, Fields
  <2>2. thread' = [u \in Thread |-> [c |-> thread'[u].c, at |-> thread'[u].at, parts |-> thread'[u].parts]]
    BY <1>4 DEF HandInv, Fields, TakeTask
  <2>3. queue' \in Seq([c : Connection, parts : Nat])
    BY <1>2 DEF TakeTask
  <2> QED
    BY <2>1, <2>2, <2>3 DEF HandInv, Fields, TakeTask
<1>6. ASSUME NEW d \in Connection, NEW x PROVE Serves(d, x)' <=> Serves(d, x) \/ (d = c /\ x = t)
  BY <1>1, <1>4, SessionAssumption DEF Serves, NoTask
<1>7. ASSUME NEW d, NEW x PROVE Queued(d, x)' <=> x \in 1 .. N - 1 /\ Queued(d, x + 1)
  BY <1>2 DEF Queued, TakeTask
<1>8. ASSUME NEW d \in Connection, NEW x, Queued(d, x)' PROVE x + 1 # 1 /\ Queued(d, x + 1) /\ x \in Nat
  BY <1>2, <1>7, <1>8
<1>9. \A x : ~ Queued(c, x)'
  BY <1>3, <1>8 DEF HandInv, Alone
<1>10. ASSUME NEW d \in Connection, d # c PROVE (\E x : Queued(d, x)) <=> (\E x : Queued(d, x)')
  <2>1. ASSUME NEW x, Queued(d, x) PROVE Queued(d, x - 1)'
    <3>1. x \in 2 .. N /\ (x - 1) + 1 = x
      BY <1>2, <1>3, <1>10, <2>1 DEF Queued
    <3> QED
      BY <1>7, <2>1, <3>1
  <2> QED
    BY <1>8, <2>1
<1>11. session' = session
  BY DEF TakeTask
<1>12. Alone'
  <2> SUFFICES ASSUME NEW d \in Connection
               PROVE  /\ session[d].reading => \A x : ~ Queued(d, x)' /\ ~ Serves(d, x)'
                      /\ \A i, u : ~ (Queued(d, i)' /\ Serves(d, u)')
                      /\ \A i, j : Queued(d, i)' /\ Queued(d, j)' => i = j
                      /\ \A u, v : Serves(d, u)' /\ Serves(d, v)' => u = v
    BY <1>11 DEF Alone
  <2>1. \A i, j : Queued(d, i)' /\ Queued(d, j)' => i = j
    <3> SUFFICES ASSUME NEW i, NEW j, Queued(d, i)', Queued(d, j)' PROVE i = j
      OBVIOUS
    <3>1. i \in Nat /\ j \in Nat /\ Queued(d, i + 1) /\ Queued(d, j + 1)
      BY <1>8
    <3>2. i + 1 = j + 1
      BY <3>1 DEF HandInv, Alone
    <3> QED
      BY <3>1, <3>2
  <2>2. \A u : ~ Serves(c, u)
    BY <1>3 DEF HandInv, Alone
  <2> QED
    BY <1>3, <1>6, <1>8, <1>9, <2>1, <2>2 DEF HandInv, Alone
<1>13. Kept'
  <2> SUFFICES ASSUME NEW d \in Connection
               PROVE  session[d].life = "open"
                        <=> session[d].reading \/ (\E i : Queued(d, i)') \/ (\E u : Serves(d, u)')
    BY <1>11 DEF Kept
  <2>1. CASE d = c
    BY <1>3, <1>6, <2>1 DEF HandInv, Kept
  <2>2. CASE d # c
    BY <1>6, <1>10, <2>2 DEF HandInv, Kept
  <2> QED
    BY <2>1, <2>2
<1> QED
  BY <1>5, <1>12, <1>13 DEF HandInv

\* What a thread does with the session it serves.
LEMMA ServedSession ==
  ASSUME HandInv, NEW t \in Thread, thread[t].at # "idle"
  PROVE  /\ thread[t].c \in Connection
         /\ IsSession(session[thread[t].c])
         /\ session[thread[t].c].life = "open" /\ session[thread[t].c].reading = FALSE
<1>1. thread[t].c \in Connection /\ Serves(thread[t].c, t)
  BY DEF HandInv, Fields, NoTask, Serves
<1>2. IsSession(session[thread[t].c])
  BY <1>1 DEF HandInv, Fields
<1>3. session[thread[t].c].reading \in BOOLEAN
  BY <1>2 DEF IsSession
<1> QED
  BY <1>1, <1>2, <1>3 DEF HandInv, Alone, Kept

\* Delete and Start leave the session to nobody and to its read.
LEMMA SessionEnds ==
  /\ IsSession(Start) /\ Start.life = "open" /\ Start.reading
  /\ IsSession(Delete) /\ Delete.life # "open" /\ ~ Delete.reading
BY DEF IsSession, Start, Delete, Nobody

\* A task reads on, goes on to the answer, or ends.
LEMMA PartsKeep ==
  ASSUME HandInv, NEW t \in Thread, HandleParts(t)
  PROVE  HandInv'
<1> DEFINE c == thread[t].c
           r == coming[c].request
           s == [session[c] EXCEPT !.request = r, !.got = @ + thread[t].parts]
           w == [s EXCEPT !.temp = s.got]
<1>1. thread[t].at # "idle" /\ UNCHANGED <<coming, queue>>
  BY DEF HandleParts
<1>2. IsSession(s) /\ s.life = session[c].life /\ s.reading = session[c].reading
  BY <1>1, ServedSession DEF IsSession
<1>3. IsSession(w) /\ w.life = session[c].life /\ w.reading = session[c].reading
  BY <1>2 DEF IsSession
<1>4. IsSession(ReadMore(w)) /\ ReadMore(w).life = "open" /\ ReadMore(w).reading
  BY <1>1, <1>3, ServedSession DEF IsSession, ReadMore
<1>5. \/ Leave(t, Delete) \/ Leave(t, ReadMore(w))
      \/ Proceed(t, s, "respond") \/ Proceed(t, w, "append")
  BY DEF HandleParts
<1> HIDE DEF s, w
<1> QED
  BY <1>1, <1>2, <1>3, <1>4, <1>5, SessionEnds, ProceedKept, LeaveKept

\* The transactions and the new response leave the session with its thread.
LEMMA CopyKeeps ==
  ASSUME HandInv, NEW t \in Thread, LockTransactions(t) \/ CopyPart(t) \/ HandleResponse(t)
  PROVE  HandInv'
<1> DEFINE s == session[thread[t].c]
<1>1. thread[t].at # "idle" /\ UNCHANGED <<coming, queue>>
  BY DEF LockTransactions, CopyPart, HandleResponse
<1>2. \/ \E at \in {"copy", "respond", "answer"} : Proceed(t, s, at)
      \/ UNCHANGED <<session, thread>>
  BY DEF LockTransactions, CopyPart, HandleResponse
<1>3. CASE UNCHANGED <<session, thread>>
  BY <1>1, <1>3 DEF HandInv, Fields, Alone, Kept, Queued, Serves
<1>4. CASE \E at \in {"copy", "respond", "answer"} : Proceed(t, s, at)
  BY <1>1, <1>4, ServedSession, ProceedKept
<1> QED
  BY <1>2, <1>3, <1>4

\* The answer ends: the session is read again, or deleted.
LEMMA EndKeeps ==
  ASSUME HandInv, NEW t \in Thread, HandleException(t) \/ CloseOrRestart(t)
  PROVE  HandInv'
<1>1. thread[t].at # "idle" /\ UNCHANGED <<coming, queue>>
  BY DEF HandleException, CloseOrRestart
<1>2. Leave(t, Start) \/ Leave(t, Delete)
  BY DEF HandleException, CloseOrRestart
<1> QED
  BY <1>1, <1>2, SessionEnds, LeaveKept

\* Every step keeps the sessions in one hand.
LEMMA NextHand == HandInv /\ [Next]_vars => HandInv'
<1> SUFFICES ASSUME HandInv, [Next]_vars PROVE HandInv'
  OBVIOUS
<1>1. ASSUME UNCHANGED <<coming, tasks>> PROVE HandInv'
  BY <1>1 DEF HandInv, Fields, Alone, Kept, Queued, Serves, tasks
<1>2. ASSUME NEW c \in Connection, Client(c) PROVE HandInv'
  <2>1. CASE Connect(c) \/ GoAway(c)
    BY <1>1, <2>1 DEF Connect, GoAway
  <2>2. CASE Send(c)
    <3>1. UNCHANGED tasks /\ \E r : coming' = [coming EXCEPT ![c] = [request |-> r, parts |-> 1]]
      BY <2>2 DEF Send
    <3> QED
      BY <3>1, ComingKept
  <2>3. CASE SendRest(c)
    <3> DEFINE n == coming[c].parts + 1
    <3>1. n \in Nat /\ coming[c] \in [request : {coming[c].request}, parts : Nat]
      BY DEF HandInv, Fields
    <3>2. [coming[c] EXCEPT !.parts = @ + 1] = [request |-> coming[c].request, parts |-> n]
      BY <3>1
    <3>3. UNCHANGED tasks /\ coming' = [coming EXCEPT ![c] = [request |-> coming[c].request, parts |-> n]]
      BY <2>3, <3>2 DEF SendRest
    <3> HIDE DEF n
    <3> QED
      BY <3>1, <3>3, ComingKept
  <2>4. CASE Receive(c)
    <3>1. UNCHANGED tasks /\ coming' = [coming EXCEPT ![c] = [request |-> NoRequest, parts |-> 0]]
      BY <2>4 DEF Receive, Quiet
    <3> QED
      BY <3>1, ComingKept
  <2> QED
    BY <1>2, <2>1, <2>2, <2>3, <2>4 DEF Client
<1>3. ASSUME NEW c \in Connection, Callback(c) PROVE HandInv'
  BY <1>3, AcceptKeeps, ReadKeeps DEF Callback
<1>4. ASSUME NEW t \in Thread, Task(t) PROVE HandInv'
  <2>1. CASE Answer(t)
    BY <1>1, <2>1 DEF Answer
  <2> QED
    BY <1>4, <2>1, TakeKeeps, PartsKeep, CopyKeeps, EndKeeps DEF Task
<1>5. CASE Expires
  BY <1>1, <1>5 DEF Expires
<1>6. CASE UNCHANGED vars
  BY <1>1, <1>6 DEF vars
<1> QED
  BY <1>2, <1>3, <1>4, <1>5, <1>6 DEF Next, Calling, Serving

-----------------------------------------------------------------------------
(* The theorem. *)

\* A set with at most one element has it, or is empty.
LEMMA AtMostOne ==
  ASSUME NEW S, \A x, y \in S : x = y
  PROVE  Cardinality(S) = IF S = {} THEN 0 ELSE 1
<1>1. CASE S = {}
  BY <1>1, FS_EmptySet
<1>2. CASE S # {}
  <2>1. PICK x \in S : TRUE
    BY <1>2
  <2>2. S = {x}
    BY <2>1
  <2> QED
    BY <1>2, <2>2, FS_Singleton
<1> QED
  BY <1>1, <1>2

\* An open session waits to be read, or is in the queue, or is served by a thread,
\* and never two of these, for any number of connections and threads
\* (Session::handleRead, threadedHandleRead, closeOrRestart, delete this).
THEOREM HandlerCorrect == Spec => []OneHandler
<1>1. HandInv => OneHandler
  <2> SUFFICES ASSUME HandInv, NEW c \in Connection
               PROVE  (IF session[c].reading THEN 1 ELSE 0)
                        + Cardinality({i \in DOMAIN queue : queue[i].c = c})
                        + Cardinality({t \in Thread : thread[t].c = c})
                      = IF session[c].life = "open" THEN 1 ELSE 0
    BY DEF OneHandler
  <2> DEFINE Q == {i \in DOMAIN queue : queue[i].c = c}
             T == {t \in Thread : thread[t].c = c}
  <2>1. \A x : (x \in Q <=> Queued(c, x)) /\ (x \in T <=> Serves(c, x))
    BY DEF Queued, Serves
  <2> HIDE DEF Q, T
  <2>2. Cardinality(Q) = IF Q = {} THEN 0 ELSE 1
    BY <2>1, AtMostOne DEF HandInv, Alone
  <2>3. Cardinality(T) = IF T = {} THEN 0 ELSE 1
    BY <2>1, AtMostOne DEF HandInv, Alone
  <2>4. /\ session[c].reading => Q = {} /\ T = {}
        /\ Q = {} \/ T = {}
        /\ session[c].life = "open" <=> session[c].reading \/ Q # {} \/ T # {}
    BY <2>1 DEF HandInv, Alone, Kept
  <2>5. (IF session[c].reading THEN 1 ELSE 0) + Cardinality(Q) + Cardinality(T)
          = IF session[c].life = "open" THEN 1 ELSE 0
    BY <2>2, <2>3, <2>4
  <2> QED
    BY <2>5 DEF Q, T
<1> QED
  BY <1>1, InitHand, NextHand, PTL DEF Spec

-----------------------------------------------------------------------------
(* The file of transactions. *)

\* A request that c sent.
Sent(c, r) ==
  /\ r # NoRequest /\ r.parts \in Nat \ {0}
  /\ \E m \in Nat : m \in 1 .. client[c].begun /\ r.id = <<c, m>>

\* Nothing is done yet with the request that comes in.
Fresh(c) == \A r \in {coming[c].request} : Copied(r) = {} /\ answer[c].to # r.id

\* The connection has what was sent, and its answer is for a request it sent.
Comes(c) ==
  /\ client[c] \in [begun : Nat, sent : Nat]
  /\ \A r \in {coming[c].request} :
       Waits(c) => Sent(c, r) /\ r.id = <<c, client[c].begun>> /\ client[c].sent <= r.parts
  /\ ~ Waits(c) => coming[c].parts = 0
  /\ "to" \in DOMAIN answer[c]
  /\ answer[c].to = <<>> \/ \E m \in Nat : m \in 1 .. client[c].begun /\ answer[c].to = <<c, m>>

\* Nothing was read of the request.
Untouched(c) == session[c].request = NoRequest /\ session[c].got = 0

\* The session is read, and a task has p parts of the request: no request comes
\* in, or it comes in, or it was dealt with and the client does not have the answer.
Unread(c, p) ==
  \/ ~ Waits(c) /\ Untouched(c) /\ p = 0
  \/ /\ Waits(c) /\ Fresh(c)
     /\ session[c].got \in Nat /\ session[c].got + p + coming[c].parts = client[c].sent
     /\ Untouched(c) \/ session[c].request = coming[c].request
  \/ /\ Waits(c) /\ Untouched(c) /\ p = 0
     /\ coming[c].parts = 0 /\ client[c].sent = coming[c].request.parts

\* The whole text of a request is in the file.
Whole(r) == \E i \in Copied(r) : transactions[i].last

\* The answer is begun.
Told(c) == Waits(c) /\ answer[c].to = coming[c].request.id

\* The file ends with the first parts of a request, or with a whole one.
Closed == transactions = <<>> \/ transactions[Len(transactions)].last

\* Its last k parts, of n, are those of r.
LastParts(r, n, k) ==
  /\ k <= n /\ Copied(r) = n - k + 1 .. n
  /\ \A j \in 1 .. k : transactions[n - k + j] = [id |-> r.id, part |-> j, last |-> FALSE]
  /\ k = 0 => Closed

Copying(r) == \E k \in 0 .. r.parts : LastParts(r, Len(transactions), k)

\* The request of c is dealt with by a thread: the client waits for its answer,
\* or has it, and may have begun the next.
Dealt(c, r, at) ==
  /\ Sent(c, r)
  /\ \/ coming[c].request = r /\ coming[c].parts = 0 /\ client[c].sent = r.parts
     \/ /\ at = "answer"
        /\ Waits(c) => coming[c].request.id # r.id /\ coming[c].parts = client[c].sent /\ Fresh(c)
  /\ at # "answer" => answer[c].to # r.id
  /\ at = "append" => r.method = "POST" /\ Copied(r) = {}
  /\ at = "copy" => Copying(r)
  /\ at \in {"respond", "answer"} /\ r.method = "POST" => Whole(r)

\* What a session has of its request, by who has the session.
Reads(c) ==
  /\ session[c].life \in {"none", "handshake"} => ~ Waits(c) /\ Untouched(c)
  /\ session[c].reading => Unread(c, 0)
  /\ \A i : Queued(c, i) => \A p \in {queue[i].parts} : p # 0 /\ Unread(c, p)
  /\ \A t : Serves(c, t) =>
       \A r \in {session[c].request}, at \in {thread[t].at}, p \in {thread[t].parts} :
         IF at = "handle" THEN p \in Nat \ {0} /\ Unread(c, p)
         ELSE at \in {"append", "copy", "respond", "answer"} /\ Dealt(c, r, at)
  /\ \A r \in {coming[c].request} : Told(c) /\ r.method = "POST" => Whole(r)

\* The mutex of the file is had by who copies, and the requests in it were sent.
Filed ==
  /\ mutex \in Thread \cup {NoThread}
  /\ \A t \in Thread : thread[t].at = "copy" <=> mutex = t
  /\ mutex = NoThread => Closed
  /\ transactions \in Seq([id : Connection \X Nat, part : Nat, last : BOOLEAN])
  /\ \A i \in DOMAIN transactions : \E c \in Connection, m \in Nat :
       m \in 1 .. client[c].begun /\ transactions[i].id = <<c, m>>

\* The parts of a request follow each other, and each is there once.
Ordered ==
  /\ \A i \in DOMAIN transactions :
       IF transactions[i].part = 1 THEN i = 1 \/ transactions[i - 1].last
       ELSE i > 1 /\ transactions[i - 1] = [id |-> transactions[i].id, part |-> transactions[i].part - 1, last |-> FALSE]
  /\ \A i, j \in DOMAIN transactions :
       i < j /\ transactions[i].id = transactions[j].id => transactions[i].part < transactions[j].part

FileInv ==
  /\ plan \in DOMAIN Plans
  /\ client = [c \in Connection |-> client[c]] /\ answer = [c \in Connection |-> answer[c]]
  /\ \A c \in Connection : Comes(c) /\ Reads(c)
  /\ Filed /\ Ordered

-----------------------------------------------------------------------------
(* What a step that is of another connection leaves. *)

\* The parts of other requests are not among those that one more part adds to.
LEMMA CopiedSame ==
  ASSUME Filed, NEW r, NEW e \in [id : Connection \X Nat, part : Nat, last : BOOLEAN], e.id # r.id,
         transactions' = Append(transactions, e)
  PROVE  Copied(r)' = Copied(r) /\ (Whole(r) => Whole(r)')
<1>1. transactions \in Seq([id : Connection \X Nat, part : Nat, last : BOOLEAN])
  BY DEF Filed
<1>2. DOMAIN transactions' = DOMAIN transactions \cup {Len(transactions) + 1}
      /\ transactions'[Len(transactions) + 1] = e
      /\ \A i \in DOMAIN transactions : transactions'[i] = transactions[i]
  BY <1>1
<1>3. Copied(r)' = Copied(r)
  BY <1>2 DEF Copied
<1> QED
  BY <1>2, <1>3 DEF Whole, Copied

\* What is in the file stays there.
LEMMA WholeStays ==
  ASSUME Filed, NEW r, NEW e \in [id : Connection \X Nat, part : Nat, last : BOOLEAN],
         transactions' = Append(transactions, e), Whole(r)
  PROVE  Whole(r)'
<1>1. transactions \in Seq([id : Connection \X Nat, part : Nat, last : BOOLEAN])
  BY DEF Filed
<1>2. DOMAIN transactions \subseteq DOMAIN transactions'
      /\ \A i \in DOMAIN transactions : transactions'[i] = transactions[i]
  BY <1>1
<1> QED
  BY <1>2 DEF Whole, Copied

\* A connection that a step leaves alone is as it was.
LEMMA ConnectionSame ==
  ASSUME Filed, NEW d \in Connection, Comes(d), Reads(d),
         client'[d] = client[d], coming'[d] = coming[d], session'[d] = session[d],
         "to" \in DOMAIN answer'[d], answer'[d].to = answer[d].to,
         \A i : Queued(d, i)' => \E j : Queued(d, j) /\ queue'[i].parts = queue[j].parts,
         \A t : Serves(d, t)' => Serves(d, t) /\ thread'[t] = thread[t],
         \/ transactions' = transactions
         \/ /\ \A t : Serves(d, t) => thread[t].at # "copy"
            /\ \E e \in [id : Connection \X Nat, part : Nat, last : BOOLEAN] :
                 transactions' = Append(transactions, e) /\ \A m \in Nat : e.id # <<d, m>>
  PROVE  Comes(d)' /\ Reads(d)'
<1>1. ASSUME NEW r, Sent(d, r) PROVE Sent(d, r)'
  BY <1>1 DEF Sent
<1>2. ASSUME NEW r, Sent(d, r) PROVE Copied(r)' = Copied(r) /\ (Whole(r) => Whole(r)')
  <2>1. CASE transactions' = transactions
    BY <2>1 DEF Copied, Whole
  <2>2. CASE transactions' # transactions
    <3>1. PICK e \in [id : Connection \X Nat, part : Nat, last : BOOLEAN] :
            transactions' = Append(transactions, e) /\ \A m \in Nat : e.id # <<d, m>>
      BY <2>2
    <3>2. e.id # r.id
      BY <1>2, <3>1 DEF Sent
    <3> QED
      BY <3>1, <3>2, CopiedSame
  <2> QED
    BY <2>1, <2>2
<1>3. Waits(d)' = Waits(d)
  BY DEF Waits
<1>4. Comes(d)'
  BY <1>1, <1>3 DEF Comes, Sent
<1>5. ASSUME Waits(d), Fresh(d) PROVE Fresh(d)'
  <2> SUFFICES ASSUME NEW r, r = coming[d].request PROVE Copied(r)' = {} /\ answer[d].to # r.id
    BY DEF Fresh
  <2>1. Sent(d, r)
    BY <1>5 DEF Comes
  <2> QED
    BY <1>2, <1>5, <2>1 DEF Fresh
<1>6. ASSUME NEW p, Unread(d, p) PROVE Unread(d, p)'
  BY <1>3, <1>5, <1>6 DEF Unread, Untouched
<1>7. ASSUME NEW t, Serves(d, t), UNCHANGED thread[t], NEW r, NEW at, at = thread[t].at, Dealt(d, r, at)
      PROVE  Dealt(d, r, at)'
  <2>1. at = "copy" => Copying(r)'
    BY <1>7, ZenonT(30) DEF Dealt, Copying, LastParts, Copied, Closed
  <2>2. Copied(r)' = Copied(r) /\ (Whole(r) => Whole(r)') /\ Sent(d, r)'
    BY <1>1, <1>2, <1>7 DEF Dealt
  <2> QED
    BY <1>3, <1>5, <1>7, <2>1, <2>2 DEF Dealt
<1>8. ASSUME NEW r, r = coming[d].request, Told(d)', r.method = "POST" PROVE Whole(r)'
  <2>1. Sent(d, r) /\ Whole(r)
    BY <1>3, <1>8 DEF Comes, Reads, Told
  <2> QED
    BY <1>2, <2>1
<1>9. Reads(d)'
  <2>1. ASSUME NEW i, Queued(d, i)', NEW p, p = queue'[i].parts PROVE p # 0 /\ Unread(d, p)'
    BY <1>6, <2>1 DEF Reads
  <2>2. ASSUME NEW t, Serves(d, t)', NEW r, r = session'[d].request, NEW at, at = thread'[t].at,
               NEW p, p = thread'[t].parts
        PROVE  IF at = "handle" THEN p \in Nat \ {0} /\ Unread(d, p)'
               ELSE at \in {"append", "copy", "respond", "answer"} /\ Dealt(d, r, at)'
    BY <1>6, <1>7, <2>2 DEF Reads
  <2>3. /\ session'[d].life \in {"none", "handshake"} => ~ Waits(d)' /\ Untouched(d)'
        /\ session'[d].reading => Unread(d, 0)'
    BY <1>3, <1>6 DEF Reads, Untouched
  <2> QED
    BY <1>8, <2>1, <2>2, <2>3 DEF Reads
<1> QED
  BY <1>4, <1>9

\* A step of one connection.
LEMMA OthersSame ==
  ASSUME FileInv, NEW c \in Connection, plan' = plan,
         client' = [d \in Connection |-> client'[d]], answer' = [d \in Connection |-> answer'[d]],
         \A d \in Connection \ {c} : /\ client'[d] = client[d] /\ coming'[d] = coming[d]
                                     /\ session'[d] = session[d] /\ answer'[d] = answer[d],
         \A d \in Connection \ {c} : \A i : Queued(d, i)' => \E j : Queued(d, j) /\ queue'[i].parts = queue[j].parts,
         \A d \in Connection \ {c} : \A t : Serves(d, t)' => Serves(d, t) /\ thread'[t] = thread[t],
         \/ transactions' = transactions
         \/ /\ \A d \in Connection \ {c} : \A t : Serves(d, t) => thread[t].at # "copy"
            /\ \E e \in [id : Connection \X Nat, part : Nat, last : BOOLEAN], m \in Nat :
                 transactions' = Append(transactions, e) /\ e.id = <<c, m>>,
         Comes(c)', Reads(c)', Filed', Ordered'
  PROVE  FileInv'
<1> SUFFICES ASSUME NEW d \in Connection, d # c PROVE Comes(d)' /\ Reads(d)'
  BY DEF FileInv
<1>1. Filed /\ Comes(d) /\ Reads(d)
  BY DEF FileInv
<1>2. client'[d] = client[d] /\ coming'[d] = coming[d] /\ session'[d] = session[d] /\ answer'[d] = answer[d]
  OBVIOUS
<1>3. "to" \in DOMAIN answer'[d] /\ answer'[d].to = answer[d].to
  BY <1>1, <1>2 DEF Comes
<1>4. \/ transactions' = transactions
      \/ /\ \A t : Serves(d, t) => thread[t].at # "copy"
         /\ \E e \in [id : Connection \X Nat, part : Nat, last : BOOLEAN] :
              transactions' = Append(transactions, e) /\ \A m \in Nat : e.id # <<d, m>>
  OBVIOUS
<1>5. /\ \A i : Queued(d, i)' => \E j : Queued(d, j) /\ queue'[i].parts = queue[j].parts
      /\ \A t : Serves(d, t)' => Serves(d, t) /\ thread'[t] = thread[t]
  OBVIOUS
<1> QED
  BY <1>1, <1>2, <1>3, <1>4, <1>5, ConnectionSame

\* A step that does not write the file.
LEMMA FiledSame ==
  ASSUME FileInv, UNCHANGED file,
         \A t \in Thread : thread'[t].at = "copy" <=> thread[t].at = "copy",
         \A c \in Connection : client'[c].begun \in Nat /\ client[c].begun <= client'[c].begun
  PROVE  Filed' /\ Ordered'
<1>1. Filed /\ Ordered /\ mutex' = mutex /\ transactions' = transactions
  BY DEF FileInv, file
<1>2. \A c \in Connection : client[c].begun \in Nat
  BY DEF FileInv, Comes
<1>3. \A c \in Connection : \A m \in Nat : m \in 1 .. client[c].begun => m \in 1 .. client'[c].begun
  BY <1>2
<1>4. Closed' = Closed
  BY <1>1 DEF Closed
<1>5. Filed'
  BY <1>1, <1>3, <1>4 DEF Filed
<1>6. Ordered'
  BY <1>1 DEF Ordered
<1> QED
  BY <1>5, <1>6

\* A step that changes nothing of this, or what an answer tells.
LEMMA AnswerSame ==
  ASSUME FileInv, UNCHANGED <<plan, client, coming, tasks, file>>,
         answer' = [d \in Connection |-> answer'[d]],
         \A d \in Connection : "to" \in DOMAIN answer'[d] /\ answer'[d].to = answer[d].to
  PROVE  FileInv'
<1>1. Filed' /\ Ordered'
  BY FiledSame DEF tasks, FileInv, Comes
<1>2. ASSUME NEW d \in Connection PROVE Comes(d)' /\ Reads(d)'
  <2>1. /\ \A i : Queued(d, i)' => \E j : Queued(d, j) /\ queue'[i].parts = queue[j].parts
        /\ \A t : Serves(d, t)' => Serves(d, t) /\ thread'[t] = thread[t]
    BY DEF Queued, Serves, tasks
  <2>2. Filed /\ Comes(d) /\ Reads(d) /\ transactions' = transactions /\ session' = session
    BY DEF FileInv, file, tasks
  <2> QED
    BY <2>1, <2>2, ConnectionSame
<1> QED
  BY <1>1, <1>2 DEF FileInv

\* At first nothing has come in.
LEMMA InitFile == Init => FileInv
<1> SUFFICES ASSUME Init PROVE FileInv
  OBVIOUS
<1>1. ASSUME NEW c \in Connection
      PROVE  client[c] = [begun |-> 0, sent |-> 0] /\ coming[c] = Quiet /\ session[c] = Nobody /\ answer[c] = NoAnswer
  BY DEF Init, SessionInit, ResponseInit
<1>2. ASSUME NEW c \in Connection, NEW x PROVE ~ Queued(c, x) /\ ~ Serves(c, x)
  BY SessionAssumption DEF Init, SessionInit, NoTask, Queued, Serves
<1>3. ASSUME NEW c \in Connection PROVE Comes(c) /\ Reads(c)
  <2>1. ~ Waits(c) /\ coming[c].parts = 0
    BY <1>1 DEF Waits, Quiet
  <2>2. "to" \in DOMAIN answer[c] /\ answer[c].to = <<>>
    BY <1>1 DEF NoAnswer
  <2>3. Comes(c)
    BY <1>1, <2>1, <2>2 DEF Comes
  <2>4. Untouched(c) /\ ~ session[c].reading
    BY <1>1 DEF Untouched, Nobody
  <2> QED
    BY <1>2, <2>1, <2>3, <2>4 DEF Reads, Told
<1>4. Filed /\ Ordered
  BY SessionAssumption, PoolAssumption DEF Init, SessionInit, Filed, Ordered, Closed, NoTask
<1> QED
  BY <1>3, <1>4 DEF FileInv, Init, ResponseInit

-----------------------------------------------------------------------------
(* The clients. *)

\* The requests of the plans have their fields.
LEMMA RequestFields ==
  ASSUME NEW p \in Requests
  PROVE  /\ DOMAIN p = {"id", "cookie", "owner", "method", "path", "search", "ask", "secret", "text", "length", "json",
                         "valid", "fetch", "keep", "parts", "broken", "fails"}
         /\ p.parts \in Nat \ {0}
BY DEF Requests

\* A request is sent when the one before was answered, and has a number of its own.
LEMMA SendKeeps ==
  ASSUME HandInv, FileInv, NEW c \in Connection, Send(c)
  PROVE  FileInv'
<1>1. PICK n : n = client[c].begun + 1
  OBVIOUS
<1>2. PICK p : p = Plans[plan].requests[c][n]
  OBVIOUS
<1>3. PICK r : /\ r = [p EXCEPT !.id = <<c, n>>, !.cookie = cookie[Jar(c)].id,
                                 !.owner = IF @ = "" THEN cookie[Jar(c)].secret ELSE @]
               /\ coming' = [coming EXCEPT ![c] = [request |-> r, parts |-> 1]]
               /\ client' = [client EXCEPT ![c] = [begun |-> n, sent |-> 1]]
               /\ UNCHANGED <<plan, tasks, file, answer>>
  BY <1>1, <1>2 DEF Send, answers, response
<1>4. /\ client[c] \in [begun : Nat, sent : Nat] /\ n \in Nat \ {0}
      /\ r # NoRequest /\ r.parts \in Nat \ {0} /\ r.id = <<c, n>>
  <2>1. client[c] \in [begun : Nat, sent : Nat] /\ n \in Nat \ {0}
    BY <1>1 DEF FileInv, Comes
  <2>2. Plans[plan].requests[c] \in Seq(Requests)
    BY ServerAssumption DEF FileInv
  <2>3. More(c)
    BY DEF Send
  <2>4. n \in 1 .. Len(Plans[plan].requests[c])
    BY <1>1, <2>1, <2>2, <2>3 DEF More
  <2>5. p \in Requests
    BY <1>2, <2>2, <2>4
  <2>6. DOMAIN r = DOMAIN p /\ "id" \in DOMAIN p /\ "parts" \in DOMAIN p /\ p.parts \in Nat \ {0}
    BY <1>3, <2>5, RequestFields
  <2>7. r.parts = p.parts /\ r.id = <<c, n>>
    BY <1>3, <2>6
  <2>8. "parts" \notin DOMAIN NoRequest
    BY DEF NoRequest
  <2> QED
    BY <2>1, <2>6, <2>7, <2>8
<1>5. coming'[c] = [request |-> r, parts |-> 1] /\ client'[c] = [begun |-> n, sent |-> 1]
  BY <1>3 DEF FileInv, HandInv, Fields
<1>6. /\ session[c].life = "open" /\ ~ Waits(c) /\ Comes(c) /\ Reads(c)
      /\ client[c].begun \in Nat /\ n = client[c].begun + 1
      /\ session' = session /\ answer' = answer /\ transactions' = transactions
  BY <1>1, <1>3, <1>4 DEF FileInv, Send, tasks, file
<1>7. Waits(c)' /\ coming'[c].request = r /\ coming'[c].parts = 1 /\ client'[c].sent = 1
  BY <1>4, <1>5 DEF Waits
<1>8. ASSUME NEW q, Sent(c, q) PROVE Sent(c, q)' /\ q.id # r.id
  <2>1. PICK m \in Nat : m \in 1 .. client[c].begun /\ q.id = <<c, m>>
    BY <1>8 DEF Sent
  <2>2. m \in 1 .. client'[c].begun /\ m # n
    BY <1>5, <1>6, <2>1
  <2> QED
    BY <1>4, <1>8, <2>1, <2>2 DEF Sent
<1>9. Sent(c, r)'
  <2>1. n \in Nat /\ n \in 1 .. client'[c].begun
    BY <1>4, <1>5
  <2> QED
    BY <1>4, <2>1 DEF Sent
<1>10. Fresh(c)'
  <2>1. \A i \in DOMAIN transactions : transactions[i].id # <<c, n>>
    BY <1>6 DEF FileInv, Filed
  <2>2. answer[c].to # <<c, n>>
    <3>1. CASE answer[c].to = <<>>
      BY <3>1
    <3>2. CASE answer[c].to # <<>>
      BY <1>6, <3>2 DEF Comes
    <3> QED
      BY <3>1, <3>2
  <2> QED
    BY <1>4, <1>6, <1>7, <2>1, <2>2 DEF Fresh, Copied
<1>11. Comes(c)'
  <2>1. client'[c] \in [begun : Nat, sent : Nat] /\ r.id = <<c, client'[c].begun>> /\ client'[c].sent <= r.parts
    BY <1>4, <1>5
  <2>2. answer[c].to = <<>> \/ \E m \in Nat : m \in 1 .. client'[c].begun /\ answer[c].to = <<c, m>>
    BY <1>5, <1>6 DEF Comes
  <2> QED
    BY <1>6, <1>7, <1>9, <2>1, <2>2 DEF Comes
<1>12. Reads(c)'
  <2>1. ASSUME NEW x, Queued(c, x) PROVE FALSE
    BY <1>6, <2>1 DEF Reads, Unread
  <2>2. session[c].reading => Unread(c, 0)'
    BY <1>6, <1>7, <1>10 DEF Reads, Unread, Untouched
  <2>3. ASSUME NEW t, Serves(c, t), NEW q, q = session[c].request, NEW at, at = thread[t].at
        PROVE  at = "answer" /\ Dealt(c, q, at)'
    <3>1. at \in {"append", "copy", "respond", "answer"} /\ Dealt(c, q, at)
      BY <1>6, <2>3 DEF Reads, Unread
    <3>2. Sent(c, q) /\ coming[c].request # q /\ at = "answer" /\ (q.method = "POST" => Whole(q))
      BY <1>6, <3>1 DEF Dealt, Waits, Sent
    <3>3. Whole(q)' = Whole(q)
      BY <1>6 DEF Whole, Copied
    <3> QED
      BY <1>7, <1>8, <1>10, <3>2, <3>3 DEF Dealt
  <2>4. ~ Told(c)'
    BY <1>7, <1>10 DEF Told, Fresh
  <2>5. queue' = queue /\ thread' = thread
    BY <1>3 DEF tasks
  <2> QED
    BY <1>6, <2>1, <2>2, <2>3, <2>4, <2>5 DEF Reads, Queued, Serves
<1>13. Filed' /\ Ordered'
  <2>1. \A d \in Connection : client'[d].begun \in Nat /\ client[d].begun <= client'[d].begun
    BY <1>3, <1>4, <1>5, <1>6 DEF FileInv, Comes
  <2> QED
    BY <1>3, <2>1, FiledSame DEF tasks
<1>14. \A d \in Connection \ {c} : client'[d] = client[d] /\ coming'[d] = coming[d]
  BY <1>3 DEF FileInv, HandInv, Fields
<1>15. client' = [d \in Connection |-> client'[d]] /\ answer' = [d \in Connection |-> answer'[d]]
  BY <1>3, <1>6 DEF FileInv
<1>16. \A d, x : (Queued(d, x)' <=> Queued(d, x)) /\ (Serves(d, x)' <=> Serves(d, x)) /\ queue' = queue /\ thread' = thread
  BY <1>3 DEF tasks, Queued, Serves
<1> QED
  BY <1>3, <1>6, <1>11, <1>12, <1>13, <1>14, <1>15, <1>16, OthersSame

\* What a step of one client leaves when it begins no request.
LEMMA ClientKept ==
  ASSUME HandInv, FileInv, NEW c \in Connection, UNCHANGED <<plan, tasks, file, answer>>, NEW q, NEW n, NEW m \in Nat,
         coming' = [coming EXCEPT ![c] = [request |-> q, parts |-> n]],
         client' = [client EXCEPT ![c] = [begun |-> client[c].begun, sent |-> m]],
         q = coming[c].request \/ q = NoRequest, q = NoRequest => n = 0,
         q = coming[c].request /\ Waits(c) => m <= q.parts,
         coming'[c] = [request |-> q, parts |-> n] => Reads(c)'
  PROVE  FileInv'
<1>1. coming'[c] = [request |-> q, parts |-> n] /\ client'[c] = [begun |-> client[c].begun, sent |-> m]
  BY DEF FileInv, HandInv, Fields
<1>2. Comes(c) /\ client[c].begun \in Nat /\ session' = session /\ answer' = answer /\ transactions' = transactions
  BY DEF FileInv, Comes, tasks, file
<1>3. Comes(c)'
  <2>1. ASSUME NEW r, Sent(c, r) PROVE Sent(c, r)'
    BY <1>1, <2>1 DEF Sent
  <2>2. ASSUME NEW r, r = coming'[c].request, Waits(c)'
        PROVE  Sent(c, r)' /\ r.id = <<c, client'[c].begun>> /\ client'[c].sent <= r.parts
    <3>1. r = q /\ r = coming[c].request /\ Waits(c)
      BY <1>1, <2>2 DEF Waits
    <3> QED
      BY <1>1, <1>2, <2>1, <3>1 DEF Comes
  <2>3. ~ Waits(c)' => coming'[c].parts = 0
    BY <1>1 DEF Waits
  <2> QED
    BY <1>1, <1>2, <2>2, <2>3 DEF Comes
<1>4. Filed' /\ Ordered'
  <2>1. \A d \in Connection : client'[d].begun \in Nat /\ client[d].begun <= client'[d].begun
    BY <1>1, <1>2 DEF FileInv, Comes
  <2> QED
    BY <2>1, FiledSame DEF tasks
<1>5. \A d \in Connection \ {c} : client'[d] = client[d] /\ coming'[d] = coming[d]
  BY DEF FileInv, HandInv, Fields
<1>6. client' = [d \in Connection |-> client'[d]] /\ answer' = [d \in Connection |-> answer'[d]]
  BY <1>2 DEF FileInv
<1>7. \A d, x : (Queued(d, x)' <=> Queued(d, x)) /\ (Serves(d, x)' <=> Serves(d, x)) /\ queue' = queue /\ thread' = thread
  BY DEF tasks, Queued, Serves
<1> QED
  BY <1>1, <1>2, <1>3, <1>4, <1>5, <1>6, <1>7, OthersSame

\* A task has some parts.
LEMMA QueuedParts ==
  ASSUME HandInv, NEW i \in DOMAIN queue
  PROVE  queue[i].c \in Connection /\ queue[i].parts \in Nat
<1>1. queue \in Seq([c : Connection, parts : Nat])
  BY DEF HandInv, Fields
<1>2. ASSUME NEW S, queue \in Seq(S) PROVE queue[i] \in S
  BY <1>2
<1>3. queue[i] \in [c : Connection, parts : Nat]
  BY <1>1, <1>2
<1> QED
  BY <1>3

\* One more part of a request is sent.
LEMMA SendRestKeeps ==
  ASSUME HandInv, FileInv, NEW c \in Connection, SendRest(c)
  PROVE  FileInv'
<1>1. PICK q, n, m : q = coming[c].request /\ n = coming[c].parts + 1 /\ m = client[c].sent + 1
  OBVIOUS
<1>2. /\ coming[c] \in [request : {q}, parts : Nat] /\ client[c] \in [begun : Nat, sent : Nat]
      /\ Waits(c) /\ Sent(c, q) /\ q # NoRequest /\ q.parts \in Nat /\ client[c].sent < q.parts /\ Comes(c) /\ Reads(c)
  BY <1>1 DEF HandInv, Fields, FileInv, Comes, SendRest, Waits, Sent
<1>3. m \in Nat /\ m <= q.parts /\ n \in Nat
  BY <1>1, <1>2
<1>4. UNCHANGED <<plan, tasks, file, answer>>
  BY DEF SendRest, answers, response
<1>5. coming' = [coming EXCEPT ![c] = [request |-> q, parts |-> n]]
  <2>1. [coming[c] EXCEPT !.parts = @ + 1] = [request |-> q, parts |-> n]
    BY <1>1, <1>2
  <2> QED
    BY <2>1 DEF SendRest
<1>6. client' = [client EXCEPT ![c] = [begun |-> client[c].begun, sent |-> m]]
  <2>1. [client[c] EXCEPT !.sent = @ + 1] = [begun |-> client[c].begun, sent |-> m]
    BY <1>1, <1>2
  <2> QED
    BY <2>1 DEF SendRest
<1>7. ASSUME coming'[c] = [request |-> q, parts |-> n] PROVE Reads(c)'
  <2>1. client'[c] = [begun |-> client[c].begun, sent |-> m]
    BY <1>6 DEF FileInv
  <2>2. coming'[c].request = q /\ coming'[c].parts = n /\ client'[c].sent = m /\ Waits(c)'
        /\ session' = session /\ answer' = answer /\ transactions' = transactions
        /\ queue' = queue /\ thread' = thread
    BY <1>2, <1>4, <1>7, <2>1 DEF tasks, file, Waits
  <2>3. Fresh(c) => Fresh(c)'
    BY <1>1, <2>2 DEF Fresh, Copied
  <2>4. ASSUME NEW p, p \in Nat, Unread(c, p) PROVE Unread(c, p)'
    <3>1. /\ Fresh(c) /\ session[c].got \in Nat /\ session[c].got + p + coming[c].parts = client[c].sent
          /\ Untouched(c) \/ session[c].request = q
      BY <1>1, <1>2, <2>4 DEF Unread
    <3>2. session[c].got + p + n = m
      BY <1>1, <1>2, <2>4, <3>1
    <3> QED
      BY <2>2, <2>3, <3>1, <3>2 DEF Unread, Untouched
  <2>5. ASSUME NEW r, NEW at, Dealt(c, r, at) PROVE Dealt(c, r, at)'
    <3>1. at = "answer" /\ q.id # r.id /\ coming[c].parts = client[c].sent /\ Fresh(c)
      BY <1>1, <1>2, <2>5 DEF Dealt
    <3>2. Sent(c, r)' /\ n = m
      BY <1>1, <2>1, <2>5, <3>1 DEF Dealt, Sent
    <3>3. r.method = "POST" => Whole(r)'
      BY <2>2, <2>5, <3>1 DEF Dealt, Whole, Copied
    <3> QED
      BY <2>2, <2>3, <3>1, <3>2, <3>3 DEF Dealt
  <2>6. ASSUME Told(c)', q.method = "POST" PROVE Whole(q)'
    <3>1. Told(c)
      BY <1>1, <1>2, <2>2, <2>6 DEF Told
    <3> QED
      BY <1>1, <1>2, <2>2, <2>6, <3>1 DEF Reads, Whole, Copied
  <2>7. ASSUME NEW i, Queued(c, i), NEW p, p = queue[i].parts PROVE p # 0 /\ Unread(c, p)'
    <3>1. p \in Nat
      BY <2>7, QueuedParts DEF Queued
    <3> QED
      BY <1>2, <2>4, <2>7, <3>1 DEF Reads
  <2>8. ASSUME NEW t, Serves(c, t), NEW r, r = session[c].request, NEW at, at = thread[t].at, NEW p, p = thread[t].parts
        PROVE  IF at = "handle" THEN p \in Nat \ {0} /\ Unread(c, p)'
               ELSE at \in {"append", "copy", "respond", "answer"} /\ Dealt(c, r, at)'
    BY <1>2, <2>4, <2>5, <2>8 DEF Reads
  <2> QED
    BY <1>2, <2>2, <2>4, <2>6, <2>7, <2>8 DEF Reads, Queued, Serves
<1> QED
  BY <1>1, <1>2, <1>3, <1>4, <1>5, <1>6, <1>7, ClientKept

\* The client has the answer: nothing of its request is with the server but what answers it.
LEMMA ReceiveKeeps ==
  ASSUME HandInv, FileInv, NEW c \in Connection, Receive(c)
  PROVE  FileInv'
<1>1. UNCHANGED <<plan, client, tasks, file, answer>> /\ Told(c) /\ Waits(c) /\ ~ Fresh(c) /\ Comes(c) /\ Reads(c)
  BY DEF Receive, answers, response, Answered, Told, Waits, Fresh, FileInv
<1>2. PICK m \in Nat : m = client[c].sent /\ client' = [client EXCEPT ![c] = [begun |-> client[c].begun, sent |-> m]]
  <2>1. client[c] \in [begun : Nat, sent : Nat]
    BY <1>1 DEF Comes
  <2>2. client[c] = [begun |-> client[c].begun, sent |-> client[c].sent]
    BY <2>1
  <2>3. client' = [client EXCEPT ![c] = client[c]]
    BY <1>1 DEF FileInv
  <2> QED
    BY <2>1, <2>2, <2>3
<1>3. coming' = [coming EXCEPT ![c] = [request |-> NoRequest, parts |-> 0]]
  BY DEF Receive, Quiet
<1>4. ASSUME coming'[c] = [request |-> NoRequest, parts |-> 0] PROVE Reads(c)'
  <2>1. ~ Waits(c)' /\ coming'[c].parts = 0 /\ session' = session /\ answer' = answer /\ transactions' = transactions
        /\ queue' = queue /\ thread' = thread /\ client' = client
    BY <1>1, <1>4 DEF tasks, file, Waits
  <2>2. ASSUME NEW p, Unread(c, p) PROVE p = 0 /\ Unread(c, p)'
    BY <1>1, <2>1, <2>2 DEF Unread, Untouched
  <2>3. ASSUME NEW r, NEW at, Dealt(c, r, at) PROVE Dealt(c, r, at)'
    <3>1. at = "answer" /\ Sent(c, r)
      BY <1>1, <2>3 DEF Dealt, Told
    <3>2. Sent(c, r)' /\ (r.method = "POST" => Whole(r)')
      BY <2>1, <2>3, <3>1 DEF Dealt, Whole, Copied, Sent
    <3> QED
      BY <2>1, <3>1, <3>2 DEF Dealt
  <2>4. ASSUME NEW t, Serves(c, t), NEW r, r = session[c].request, NEW at, at = thread[t].at, NEW p, p = thread[t].parts
        PROVE  IF at = "handle" THEN p \in Nat \ {0} /\ Unread(c, p)'
               ELSE at \in {"append", "copy", "respond", "answer"} /\ Dealt(c, r, at)'
    BY <1>1, <2>2, <2>3, <2>4 DEF Reads
  <2>5. \A i : ~ Queued(c, i)
    BY <1>1, <2>2 DEF Reads
  <2> QED
    BY <1>1, <2>1, <2>2, <2>4, <2>5 DEF Reads, Queued, Serves, Told, Untouched
<1> QED
  BY <1>1, <1>2, <1>3, <1>4, ClientKept DEF Waits

-----------------------------------------------------------------------------
(* The callbacks. *)

\* A connection that nobody else has, and whose request nobody has begun to read.
LEMMA SessionChanged ==
  ASSUME HandInv, FileInv, NEW c \in Connection, NEW s, session' = [session EXCEPT ![c] = s],
         UNCHANGED <<plan, client, coming, queue, thread, file, answer>>,
         \A x : ~ Queued(c, x) /\ ~ Serves(c, x),
         session'[c] = s => /\ s.life \in {"none", "handshake"} => ~ Waits(c)' /\ Untouched(c)'
                            /\ s.reading => Unread(c, 0)'
  PROVE  FileInv'
<1>1. session'[c] = s /\ \A d \in Connection \ {c} : session'[d] = session[d]
  BY DEF HandInv, Fields
<1>2. Comes(c) /\ Reads(c) /\ transactions' = transactions
  BY DEF FileInv, file
<1>3. Comes(c)'
  BY <1>2 DEF Comes, Sent, Waits
<1>4. \A d, x : (Queued(d, x)' <=> Queued(d, x)) /\ (Serves(d, x)' <=> Serves(d, x))
  BY DEF Queued, Serves
<1>5. \A r : Whole(r)' = Whole(r)
  BY <1>2 DEF Whole, Copied
<1>6. Reads(c)'
  BY <1>1, <1>2, <1>4, <1>5 DEF Reads, Told, Waits
<1>7. Filed' /\ Ordered'
  BY FiledSame DEF FileInv, Comes
<1> QED
  BY <1>1, <1>2, <1>3, <1>4, <1>6, <1>7, OthersSame DEF FileInv

\* A new session waits for the first request.
LEMMA AcceptFile ==
  ASSUME HandInv, FileInv, NEW c \in Connection, HandleAccept(c) \/ HandleHandshake(c), UNCHANGED <<plan, client>>
  PROVE  FileInv'
<1>1. /\ session[c].life \in {"none", "handshake"} /\ IsSession(session[c]) /\ ~ session[c].reading
      /\ ~ Waits(c) /\ Untouched(c) /\ \A x : ~ Queued(c, x) /\ ~ Serves(c, x)
  BY DEF HandInv, Fields, Kept, FileInv, Reads, HandleAccept, HandleHandshake
<1>2. UNCHANGED <<plan, client, coming, queue, thread, file, answer>>
  BY DEF HandleAccept, HandleHandshake, answers, response
<1>3. PICK s : session' = [session EXCEPT ![c] = s] /\ s.request = NoRequest /\ s.got = 0
  <2>1. CASE HandleAccept(c)
    <3>1. PICK s : s = [session[c] EXCEPT !.life = "handshake"]
      OBVIOUS
    <3>2. s.request = NoRequest /\ s.got = 0
      BY <1>1, <3>1 DEF IsSession, Untouched
    <3>3. session' = [session EXCEPT ![c] = s]
      BY <2>1, <3>1 DEF HandleAccept
    <3> QED
      BY <3>2, <3>3
  <2>2. CASE HandleHandshake(c)
    <3>1. /\ Start.request = NoRequest /\ Start.got = 0 /\ Delete.request = NoRequest /\ Delete.got = 0
      BY DEF Start, Delete, Nobody
    <3>2. session' = [session EXCEPT ![c] = Start] \/ session' = [session EXCEPT ![c] = Delete]
      BY <2>2 DEF HandleHandshake
    <3> QED
      BY <3>1, <3>2
  <2> QED
    BY <2>1, <2>2
<1>4. ASSUME session'[c] = s PROVE ~ Waits(c)' /\ Untouched(c)' /\ Unread(c, 0)'
  BY <1>1, <1>2, <1>3, <1>4 DEF Waits, Untouched, Unread
<1> QED
  BY <1>1, <1>2, <1>3, <1>4, SessionChanged

\* What has come in is given to a task, or the session ends.
LEMMA ReadFile ==
  ASSUME HandInv, FileInv, NEW c \in Connection, HandleRead(c), UNCHANGED <<plan, client>>
  PROVE  FileInv'
<1>1. /\ session[c].reading /\ session[c].life = "open" /\ IsSession(session[c]) /\ Comes(c) /\ Reads(c) /\ Unread(c, 0)
      /\ \A x : ~ Queued(c, x) /\ ~ Serves(c, x)
  BY DEF HandInv, Fields, Alone, Kept, FileInv, Reads, HandleRead
<1>2. UNCHANGED <<plan, client, thread, file, answer>> /\ transactions' = transactions
  BY DEF HandleRead, answers, response, file
<1>3. CASE session' = [session EXCEPT ![c] = Delete] /\ UNCHANGED <<coming, queue>>
  <2>1. Delete.life = "gone" /\ Delete.reading = FALSE
    BY DEF Delete, Nobody
  <2> QED
    BY <1>1, <1>2, <1>3, <2>1, SessionChanged
<1>4. CASE /\ coming[c].parts > 0
           /\ session' = [session EXCEPT ![c].reading = FALSE]
           /\ queue' = Append(queue, [c |-> c, parts |-> coming[c].parts])
           /\ coming' = [coming EXCEPT ![c].parts = 0]
  <2>1. PICK q, n, e : q = coming[c].request /\ n = coming[c].parts /\ e = [c |-> c, parts |-> n]
    OBVIOUS
  <2>2. coming[c] \in [request : {q}, parts : Nat] /\ n \in Nat \ {0} /\ e \in [c : Connection, parts : Nat]
        /\ queue \in Seq([c : Connection, parts : Nat])
    BY <1>4, <2>1 DEF HandInv, Fields
  <2>3. /\ coming'[c].request = q /\ coming'[c].parts = 0 /\ \A d \in Connection \ {c} : coming'[d] = coming[d]
    BY <1>4, <2>1, <2>2 DEF HandInv, Fields
  <2>4. /\ session'[c].request = session[c].request /\ session'[c].got = session[c].got
        /\ session'[c].life = "open" /\ ~ session'[c].reading /\ \A d \in Connection \ {c} : session'[d] = session[d]
    BY <1>1, <1>4 DEF HandInv, Fields, IsSession
  <2>5. ASSUME NEW d \in Connection, NEW x
        PROVE  Queued(d, x)' <=> Queued(d, x) \/ (d = c /\ x = Len(queue) + 1)
    BY <1>4, <2>1, <2>2 DEF Queued
  <2>6. \A x : Queued(c, x)' => queue'[x].parts = n
    BY <1>1, <1>4, <2>1, <2>2, <2>5
  <2>7. \A d \in Connection : \A x : Queued(d, x) => queue'[x] = queue[x]
    BY <1>4, <2>1, <2>2 DEF Queued
  <2>8. \A d, x : Serves(d, x)' <=> Serves(d, x)
    BY <1>2 DEF Serves
  <2>9. Waits(c)' = Waits(c) /\ Waits(c) /\ answer' = answer
    BY <1>1, <1>2, <2>1, <2>2, <2>3 DEF Waits, Comes
  <2>10. Unread(c, n)'
    <3>1. /\ Fresh(c) /\ session[c].got \in Nat /\ session[c].got + n = client[c].sent
          /\ Untouched(c) \/ session[c].request = q
      BY <1>1, <2>1, <2>2, <2>9 DEF Unread
    <3>2. session[c].got + n + 0 = client[c].sent
      BY <2>2, <3>1
    <3>3. Fresh(c)'
      BY <1>2, <2>1, <2>3, <3>1 DEF Fresh, Copied
    <3> QED
      BY <1>2, <2>3, <2>4, <2>9, <3>1, <3>2, <3>3 DEF Unread, Untouched
  <2>11. Comes(c)'
    BY <1>1, <1>2, <2>1, <2>3, <2>9 DEF Comes, Sent
  <2>12. ASSUME Told(c)', q.method = "POST" PROVE Whole(q)'
    BY <1>1, <1>2, <2>1, <2>3, <2>9, <2>12 DEF Reads, Told, Whole, Copied
  <2>13. Reads(c)'
    BY <1>1, <2>2, <2>3, <2>4, <2>6, <2>8, <2>10, <2>12 DEF Reads
  <2>14. Filed' /\ Ordered'
    BY <1>2, FiledSame DEF FileInv, Comes
  <2> QED
    BY <1>2, <2>3, <2>4, <2>5, <2>7, <2>8, <2>11, <2>13, <2>14, OthersSame DEF FileInv
<1> QED
  BY <1>3, <1>4 DEF HandleRead

-----------------------------------------------------------------------------
(* The threads. *)

\* A task is of one connection, which no other has.
LEMMA Tasked ==
  ASSUME HandInv, FileInv, NEW t \in Thread, thread[t].at # "idle", NEW c, c = thread[t].c
  PROVE  /\ c \in Connection /\ IsSession(session[c]) /\ session[c].life = "open" /\ session[c].reading = FALSE
         /\ Serves(c, t) /\ (\A u : Serves(c, u) => u = t) /\ (\A i : ~ Queued(c, i))
         /\ thread[t] = [c |-> c, at |-> thread[t].at, parts |-> thread[t].parts]
         /\ Comes(c) /\ Reads(c) /\ Filed /\ Ordered
<1>1. c \in Connection /\ IsSession(session[c]) /\ session[c].life = "open" /\ session[c].reading = FALSE
  BY ServedSession
<1>2. Serves(c, t)
  BY DEF Serves
<1>3. thread[t] = [c |-> c, at |-> thread[t].at, parts |-> thread[t].parts]
  BY DEF HandInv, Fields
<1> QED
  BY <1>1, <1>2, <1>3 DEF HandInv, Alone, FileInv

\* What a task leaves when it goes on, and when it ends.
LEMMA Proceeds ==
  ASSUME HandInv, FileInv, NEW t \in Thread, thread[t].at # "idle", NEW c, c = thread[t].c, NEW s, NEW at, Proceed(t, s, at)
  PROVE  /\ session'[c] = s /\ \A d \in Connection \ {c} : session'[d] = session[d]
         /\ thread'[t].c = c /\ thread'[t].at = at /\ \A u \in Thread \ {t} : thread'[u] = thread[u]
<1>1. c \in Connection /\ thread[t] = [c |-> c, at |-> thread[t].at, parts |-> thread[t].parts]
  BY Tasked
<1>2. [thread[t] EXCEPT !.at = at] = [c |-> c, at |-> at, parts |-> thread[t].parts]
  BY <1>1
<1>3. thread'[t] = [c |-> c, at |-> at, parts |-> thread[t].parts]
  BY <1>2 DEF Proceed, HandInv, Fields
<1>4. \A u \in Thread \ {t} : thread'[u] = thread[u]
  BY DEF Proceed, HandInv, Fields
<1>5. session'[c] = s /\ \A d \in Connection \ {c} : session'[d] = session[d]
  BY <1>1 DEF Proceed, HandInv, Fields
<1> QED
  BY <1>3, <1>4, <1>5

\* A thread that leaves its session is idle, and nothing else changes in the hands.
LEMMA Leaves ==
  ASSUME HandInv, FileInv, NEW t \in Thread, thread[t].at # "idle", NEW c, c = thread[t].c, NEW s, Leave(t, s)
  PROVE  /\ session'[c] = s /\ \A d \in Connection \ {c} : session'[d] = session[d]
         /\ thread'[t].c = NoConnection /\ thread'[t].at = "idle" /\ \A u \in Thread \ {t} : thread'[u] = thread[u]
<1>1. c \in Connection
  BY Tasked
<1>2. thread'[t] = NoTask /\ \A u \in Thread \ {t} : thread'[u] = thread[u]
  BY DEF Leave, HandInv, Fields
<1>3. session'[c] = s /\ \A d \in Connection \ {c} : session'[d] = session[d]
  BY <1>1 DEF Leave, HandInv, Fields
<1> QED
  BY <1>2, <1>3 DEF NoTask

\* A step of a task changes its connection.
LEMMA TaskKept ==
  ASSUME HandInv, FileInv, NEW t \in Thread, thread[t].at # "idle", NEW c, c = thread[t].c,
         UNCHANGED <<plan, client, coming, queue>>, answer' = [d \in Connection |-> answer'[d]],
         \A d \in Connection \ {c} : answer'[d] = answer[d] /\ session'[d] = session[d],
         \A u \in Thread \ {t} : thread'[u] = thread[u],
         thread'[t].c \in {c, NoConnection},
         "to" \in DOMAIN answer'[c],
         answer'[c].to = answer[c].to \/ (\E r : Sent(c, r) /\ answer'[c].to = r.id),
         \/ transactions' = transactions
         \/ /\ thread[t].at = "copy"
            /\ \E e \in [id : Connection \X Nat, part : Nat, last : BOOLEAN], m \in Nat :
                 transactions' = Append(transactions, e) /\ e.id = <<c, m>>,
         session'[c].life \notin {"none", "handshake"},
         session'[c].reading => Unread(c, 0)',
         thread'[t].c = c =>
           \A r \in {session'[c].request}, at \in {thread'[t].at} :
             at \in {"append", "copy", "respond", "answer"} /\ Dealt(c, r, at)',
         \A r \in {coming[c].request} : Told(c)' /\ r.method = "POST" => Whole(r)',
         Filed', Ordered'
  PROVE  FileInv'
<1>1. /\ c \in Connection /\ Serves(c, t) /\ (\A u : Serves(c, u) => u = t) /\ (\A i : ~ Queued(c, i))
      /\ Comes(c) /\ Filed
  BY Tasked
<1>2. \A d, x : Queued(d, x)' <=> Queued(d, x)
  BY DEF Queued
<1>3. ASSUME NEW d \in Connection, NEW u, Serves(d, u)'
      PROVE  (u = t /\ d = c /\ thread'[t].c = c) \/ (u # t /\ d # c /\ Serves(d, u) /\ thread'[u] = thread[u])
  BY <1>1, <1>3, SessionAssumption DEF Serves
<1>4. Comes(c)'
  <2>1. \A r : Sent(c, r) => Sent(c, r)'
    BY DEF Sent
  <2>2. \A r : Sent(c, r) => \E m \in Nat : m \in 1 .. client[c].begun /\ r.id = <<c, m>>
    BY DEF Sent
  <2>3. answer'[c].to = <<>> \/ \E m \in Nat : m \in 1 .. client[c].begun /\ answer'[c].to = <<c, m>>
    <3>1. CASE answer'[c].to = answer[c].to
      BY <1>1, <3>1 DEF Comes
    <3>2. CASE \E r : Sent(c, r) /\ answer'[c].to = r.id
      <4>1. PICK r : Sent(c, r) /\ answer'[c].to = r.id
        BY <3>2
      <4>2. PICK m \in Nat : m \in 1 .. client[c].begun /\ r.id = <<c, m>>
        BY <2>2, <4>1
      <4> QED
        BY <4>1, <4>2
    <3> QED
      BY <3>1, <3>2
  <2> QED
    BY <1>1, <2>1, <2>3 DEF Comes, Waits
<1>5. Reads(c)'
  <2>1. ASSUME NEW u, Serves(c, u)', NEW r, r = session'[c].request, NEW at, at = thread'[u].at
        PROVE  at \in {"append", "copy", "respond", "answer"} /\ Dealt(c, r, at)'
    <3>1. u = t /\ thread'[t].c = c
      BY <1>1, <1>3, <2>1
    <3> QED
      BY <2>1, <3>1
  <2> QED
    BY <1>1, <1>2, <2>1 DEF Reads
<1>6. \A d \in Connection \ {c} : \A u : Serves(d, u) /\ thread[u].at = "copy" => thread[t].at # "copy"
  BY <1>1 DEF Filed, Serves
<1>7. \A d \in Connection \ {c} : \A u : Serves(d, u)' => Serves(d, u) /\ thread'[u] = thread[u]
  BY <1>3
<1> QED
  BY <1>1, <1>2, <1>4, <1>5, <1>6, <1>7, OthersSame, SMTT(30) DEF FileInv

\* A task begins with what was read.
LEMMA TakeFile ==
  ASSUME HandInv, FileInv, NEW t \in Thread, TakeTask(t), UNCHANGED <<plan, client>>
  PROVE  FileInv'
<1>1. thread[t] = NoTask /\ UNCHANGED <<plan, client, coming, session, file, answer>>
  BY DEF TakeTask, Idle, answers, response
<1>2. queue \in Seq([c : Connection, parts : Nat]) /\ queue # <<>>
  BY DEF HandInv, Fields, TakeTask
<1>3. /\ 1 \in DOMAIN queue /\ Head(queue) = queue[1]
      /\ \A i \in DOMAIN queue' : i + 1 \in DOMAIN queue /\ queue'[i] = queue[i + 1]
  BY <1>2 DEF TakeTask
<1>4. queue[1].c \in Connection /\ queue[1].parts \in Nat
  BY <1>3, QueuedParts
<1>5. PICK c \in Connection, p \in Nat : c = queue[1].c /\ p = queue[1].parts /\ Queued(c, 1)
  BY <1>3, <1>4 DEF Queued
<1>6. thread'[t] = [c |-> c, at |-> "handle", parts |-> p] /\ \A u \in Thread \ {t} : thread'[u] = thread[u]
  BY <1>3, <1>5 DEF HandInv, Fields, TakeTask
<1>7. ASSUME NEW d \in Connection, NEW i, Queued(d, i)' PROVE d # c /\ Queued(d, i + 1) /\ queue'[i].parts = queue[i + 1].parts
  <2>1. Queued(d, i + 1) /\ i \in Nat \ {0} /\ queue'[i].parts = queue[i + 1].parts
    BY <1>2, <1>3, <1>7 DEF Queued, TakeTask
  <2> QED
    BY <1>5, <2>1 DEF HandInv, Alone
<1>8. ASSUME NEW d \in Connection, NEW u, Serves(d, u)'
      PROVE  (u = t /\ d = c) \/ (u # t /\ d # c /\ Serves(d, u) /\ thread'[u] = thread[u])
  <2>1. CASE u = t
    BY <1>6, <1>8, <2>1 DEF Serves
  <2>2. CASE u # t
    BY <1>5, <1>6, <1>8, <2>2 DEF Serves, HandInv, Alone
  <2> QED
    BY <2>1, <2>2
<1>9. Comes(c) /\ Reads(c) /\ Comes(c)' /\ transactions' = transactions /\ answer' = answer
  BY <1>1 DEF FileInv, Comes, Sent, Waits, file
<1>10. p # 0 /\ Unread(c, p)
  BY <1>5, <1>9 DEF Reads
<1>11. Unread(c, p)' /\ (Told(c)' <=> Told(c)) /\ \A r : Whole(r)' = Whole(r)
  BY <1>1, <1>9, <1>10 DEF Unread, Untouched, Fresh, Waits, Told, Copied, Whole
<1>12. Reads(c)'
  <2>1. ~ session[c].reading
    BY <1>5 DEF HandInv, Alone
  <2>2. ASSUME NEW u, Serves(c, u)' PROVE thread'[u].at = "handle" /\ thread'[u].parts = p
    BY <1>6, <1>8, <2>2
  <2>3. session' = session /\ coming' = coming /\ (Waits(c)' <=> Waits(c)) /\ (Untouched(c)' <=> Untouched(c))
    BY <1>1 DEF Waits, Untouched
  <2>4. \A i : ~ Queued(c, i)'
    BY <1>7
  <2> QED
    BY <1>9, <1>10, <1>11, <2>1, <2>2, <2>3, <2>4 DEF Reads
<1>13. \A u \in Thread : thread'[u].at = "copy" <=> thread[u].at = "copy"
  <2>1. thread'[t].at # "copy" /\ thread[t].at # "copy"
    BY <1>1, <1>6 DEF NoTask
  <2> QED
    BY <1>6, <2>1
<1>14. Filed' /\ Ordered'
  BY <1>1, <1>13, FiledSame DEF FileInv, Comes
<1> QED
  BY <1>1, <1>7, <1>8, <1>9, <1>12, <1>14, OthersSame DEF FileInv

\* The parts of a task go to the request, which is dealt with when it is whole.
LEMMA PartsFile ==
  ASSUME HandInv, FileInv, NEW t \in Thread, HandleParts(t), UNCHANGED <<plan, client>>
  PROVE  FileInv'
<1>1. PICK c : c = thread[t].c
  OBVIOUS
<1>2. /\ thread[t].at = "handle" /\ c \in Connection /\ IsSession(session[c]) /\ session[c].life = "open"
      /\ session[c].reading = FALSE /\ Serves(c, t) /\ Comes(c) /\ Reads(c) /\ Filed
      /\ UNCHANGED <<plan, client, coming, queue, file, answer>> /\ transactions' = transactions /\ answer' = answer
  <2>1. thread[t].at = "handle" /\ UNCHANGED <<coming, queue, file, answers>>
    BY DEF HandleParts
  <2> QED
    BY <1>1, <2>1, Tasked, ZenonT(30) DEF answers, response, file
<1>3. PICK r, p, n : p \in Nat \ {0} /\ r = coming[c].request /\ p = thread[t].parts /\ n = session[c].got + p
  BY <1>2 DEF Reads
<1>4. /\ Waits(c) /\ Fresh(c) /\ session[c].got \in Nat /\ n + coming[c].parts = client[c].sent
      /\ Sent(c, r) /\ client[c].sent <= r.parts
  <2>1. Unread(c, p)
    BY <1>2, <1>3 DEF Reads
  <2>2. Waits(c) /\ Fresh(c) /\ session[c].got \in Nat /\ session[c].got + p + coming[c].parts = client[c].sent
    BY <1>3, <2>1 DEF Unread
  <2> QED
    BY <1>2, <1>3, <2>2 DEF Comes
<1>5. coming[c].parts \in Nat /\ client[c].sent \in Nat /\ r.parts \in Nat /\ n \in Nat
  BY <1>2, <1>3, <1>4 DEF HandInv, Fields, Comes, Sent
<1>6. PICK s : s = [session[c] EXCEPT !.request = r, !.got = @ + thread[t].parts]
  OBVIOUS
<1>7. PICK w : w = [s EXCEPT !.temp = s.got]
  OBVIOUS
<1>8. /\ s.request = r /\ s.got = n /\ s.life = "open" /\ s.reading = FALSE
      /\ w.request = r /\ w.got = n /\ w.life = "open" /\ w.reading = FALSE
      /\ ReadMore(w).request = r /\ ReadMore(w).got = n /\ ReadMore(w).life = "open" /\ ReadMore(w).reading
  BY <1>2, <1>3, <1>6, <1>7 DEF IsSession, ReadMore
<1>9. /\ Delete.life = "gone" /\ Delete.reading = FALSE
  BY DEF Delete, Nobody
<1>10. \/ Leave(t, Delete) \/ Leave(t, ReadMore(w))
       \/ n = r.parts /\ r.method # "POST" /\ Proceed(t, s, "respond")
       \/ n = r.parts /\ r.method = "POST" /\ Proceed(t, w, "append")
  BY <1>1, <1>3, <1>6, <1>7, <1>8 DEF HandleParts
<1>11. \A q : Sent(c, q)' = Sent(c, q) /\ Copied(q)' = Copied(q) /\ Whole(q)' = Whole(q)
  BY <1>2 DEF Sent, Copied, Whole
<1>12. Fresh(c)' /\ Waits(c)' /\ ~ Told(c)'
  BY <1>2, <1>4, <1>11 DEF Fresh, Waits, Told
<1>13. Copied(r) = {} /\ answer[c].to # r.id
  BY <1>3, <1>4 DEF Fresh
<1>14. ASSUME thread'[t].at # "copy", \A u \in Thread \ {t} : thread'[u] = thread[u]
       PROVE  Filed' /\ Ordered'
  <2>1. \A u \in Thread : thread'[u].at = "copy" <=> thread[u].at = "copy"
    BY <1>2, <1>14
  <2> QED
    BY <1>2, <2>1, FiledSame DEF FileInv, Comes
<1>15. "to" \in DOMAIN answer'[c] /\ answer'[c].to = answer[c].to /\ answer' = [d \in Connection |-> answer'[d]]
       /\ \A d \in Connection : answer'[d] = answer[d]
  BY <1>2 DEF FileInv, Comes
<1>16. CASE Leave(t, Delete) \/ Leave(t, ReadMore(w))
  <2>1. PICK x \in {Delete, ReadMore(w)} : Leave(t, x)
    BY <1>16
  <2>2. /\ session'[c] = x /\ \A d \in Connection \ {c} : session'[d] = session[d]
        /\ thread'[t].c = NoConnection /\ thread'[t].at = "idle" /\ \A u \in Thread \ {t} : thread'[u] = thread[u]
    BY <1>1, <1>2, <2>1, Leaves
  <2>3. ASSUME session'[c].reading PROVE Unread(c, 0)'
    <3>1. session'[c].got = n /\ session'[c].request = r /\ n + 0 + coming[c].parts = client[c].sent
      BY <1>4, <1>5, <1>8, <1>9, <2>1, <2>2, <2>3
    <3> QED
      BY <1>2, <1>3, <1>5, <1>12, <3>1 DEF Unread
  <2>4. session'[c].life \notin {"none", "handshake"}
    BY <1>8, <1>9, <2>1, <2>2
  <2> QED
    BY <1>1, <1>2, <1>12, <1>14, <1>15, <2>2, <2>3, <2>4, SessionAssumption, TaskKept
<1>17. ASSUME NEW x \in {s, w}, NEW at \in {"append", "respond"}, Proceed(t, x, at), n = r.parts,
              at = "append" <=> r.method = "POST"
       PROVE  FileInv'
  <2>1. /\ session'[c] = x /\ \A d \in Connection \ {c} : session'[d] = session[d]
        /\ thread'[t].c = c /\ thread'[t].at = at /\ \A u \in Thread \ {t} : thread'[u] = thread[u]
    BY <1>1, <1>2, <1>17, Proceeds
  <2>2. session'[c].request = r /\ session'[c].life = "open" /\ ~ session'[c].reading
    BY <1>8, <1>17, <2>1
  <2>3. coming[c].parts = 0 /\ client[c].sent = r.parts
    BY <1>4, <1>5, <1>17
  <2>4. Dealt(c, r, at)'
    BY <1>2, <1>3, <1>4, <1>11, <1>13, <1>17, <2>3 DEF Dealt
  <2>5. \A q \in {session'[c].request}, a \in {thread'[t].at} :
          a \in {"append", "copy", "respond", "answer"} /\ Dealt(c, q, a)'
    BY <2>1, <2>2, <2>4
  <2> QED
    BY <1>1, <1>2, <1>12, <1>14, <1>15, <2>1, <2>2, <2>5, TaskKept
<1> QED
  BY <1>10, <1>16, <1>17

\* An answered request, or one that failed, leaves the session without a request.
LEMMA EndFile ==
  ASSUME HandInv, FileInv, NEW t \in Thread, HandleException(t) \/ CloseOrRestart(t), UNCHANGED <<plan, client>>
  PROVE  FileInv'
<1>1. PICK c : c = thread[t].c
  OBVIOUS
<1>2. /\ thread[t].at = "answer" /\ c \in Connection /\ Serves(c, t) /\ Comes(c) /\ Reads(c)
      /\ UNCHANGED <<plan, client, coming, queue, file, answer>> /\ transactions' = transactions /\ answer' = answer
  BY <1>1, Tasked DEF HandleException, CloseOrRestart, answers, response, file
<1>3. PICK s \in {Start, Delete} : Leave(t, s)
  BY DEF HandleException, CloseOrRestart
<1>4. /\ session'[c] = s /\ \A d \in Connection \ {c} : session'[d] = session[d]
      /\ thread'[t].c = NoConnection /\ thread'[t].at = "idle" /\ \A u \in Thread \ {t} : thread'[u] = thread[u]
  BY <1>1, <1>2, <1>3, Leaves
<1>5. s.request = NoRequest /\ s.got = 0 /\ s.life \in {"open", "gone"}
  BY <1>3 DEF Start, Delete, Nobody
<1>6. PICK r : r = session[c].request /\ Dealt(c, r, "answer")
  BY <1>2 DEF Reads
<1>7. Untouched(c)' /\ (Waits(c)' <=> Waits(c)) /\ (Fresh(c)' <=> Fresh(c)) /\ (Told(c)' <=> Told(c))
  BY <1>2, <1>4, <1>5 DEF Untouched, Waits, Fresh, Told, Copied
<1>8. Unread(c, 0)'
  <2>1. CASE ~ Waits(c)
    BY <1>7, <2>1 DEF Unread
  <2>2. CASE Waits(c) /\ coming[c].request = r
    BY <1>2, <1>6, <1>7, <2>2 DEF Unread, Dealt
  <2>3. CASE Waits(c) /\ coming[c].request # r
    <3>1. coming[c].parts = client[c].sent /\ Fresh(c) /\ client[c].sent \in Nat
      BY <1>2, <1>6, <2>3 DEF Dealt, Comes
    <3>2. session'[c].got = 0 /\ 0 + 0 + coming[c].parts = client[c].sent
      BY <1>4, <1>5, <3>1
    <3> QED
      BY <1>2, <1>7, <2>3, <3>1, <3>2 DEF Unread
  <2> QED
    BY <2>1, <2>2, <2>3
<1>9. \A q \in {coming[c].request} : Told(c)' /\ q.method = "POST" => Whole(q)'
  BY <1>2, <1>7 DEF Reads, Whole, Copied
<1>10. Filed' /\ Ordered'
  <2>1. \A u \in Thread : thread'[u].at = "copy" <=> thread[u].at = "copy"
    BY <1>2, <1>4
  <2> QED
    BY <1>2, <2>1, FiledSame DEF FileInv, Comes
<1>11. "to" \in DOMAIN answer'[c] /\ answer'[c].to = answer[c].to /\ answer' = [d \in Connection |-> answer'[d]]
       /\ \A d \in Connection : answer'[d] = answer[d]
  BY <1>2 DEF FileInv, Comes
<1>12. session'[c].life \notin {"none", "handshake"}
  BY <1>4, <1>5
<1> QED
  BY <1>1, <1>2, <1>4, <1>8, <1>9, <1>10, <1>11, <1>12, SessionAssumption, TaskKept

\* The file is locked at a whole request, and the text of this one is not in it.
LEMMA LockedFile ==
  ASSUME HandInv, FileInv, NEW t \in Thread, LockTransactions(t), UNCHANGED <<plan, client>>
  PROVE  FileInv'
<1>1. PICK c : c = thread[t].c
  OBVIOUS
<1>2. /\ thread[t].at = "append" /\ c \in Connection /\ session[c].life = "open" /\ session[c].reading = FALSE
      /\ Serves(c, t) /\ Comes(c) /\ Reads(c) /\ Filed /\ Ordered
      /\ UNCHANGED <<plan, client, coming, queue, transactions, answer>>
      /\ mutex = NoThread /\ mutex' = t /\ Proceed(t, session[c], "copy")
  <2>1. /\ thread[t].at = "append" /\ UNCHANGED <<coming, queue, transactions, answers>>
        /\ mutex = NoThread /\ mutex' = t /\ Proceed(t, session[c], "copy")
    BY <1>1 DEF LockTransactions
  <2> QED
    BY <1>1, <2>1, Tasked, ZenonT(30) DEF answers, response
<1>3. /\ session'[c] = session[c] /\ \A d \in Connection \ {c} : session'[d] = session[d]
      /\ thread'[t].c = c /\ thread'[t].at = "copy" /\ \A u \in Thread \ {t} : thread'[u] = thread[u]
  BY <1>1, <1>2, Proceeds
<1>4. PICK r : r = session[c].request /\ Dealt(c, r, "append")
  BY <1>2 DEF Reads
<1>5. Copying(r)'
  <2>1. Copied(r) = {} /\ Len(transactions) \in Nat /\ Closed /\ r.parts \in Nat
    BY <1>2, <1>4 DEF Dealt, Filed, Sent
  <2>2. 0 \in 0 .. r.parts /\ 0 <= Len(transactions) /\ Len(transactions) - 0 + 1 .. Len(transactions) = {}
        /\ 1 .. 0 = {}
    BY <2>1
  <2> QED
    BY <1>2, <2>1, <2>2 DEF Copying, LastParts, Copied, Closed
<1>6. Dealt(c, r, "copy")'
  BY <1>2, <1>4, <1>5 DEF Dealt, Sent
<1>7. Filed' /\ Ordered'
  <2>1. \A u \in Thread : thread'[u].at = "copy" <=> mutex' = u
    BY <1>2, <1>3, PoolAssumption DEF Filed
  <2>2. mutex' \in Thread /\ mutex' # NoThread
    BY <1>2, PoolAssumption
  <2>3. Filed'
    BY <1>2, <2>1, <2>2 DEF Filed
  <2> QED
    BY <1>2, <2>3 DEF Ordered
<1>8. \A q \in {coming[c].request} : Told(c)' /\ q.method = "POST" => Whole(q)'
  BY <1>2 DEF Reads, Told, Waits, Whole, Copied
<1>9. "to" \in DOMAIN answer'[c] /\ answer'[c].to = answer[c].to /\ answer' = [d \in Connection |-> answer'[d]]
      /\ \A d \in Connection : answer'[d] = answer[d]
  BY <1>2 DEF FileInv, Comes
<1>10. \A q \in {session'[c].request}, at \in {thread'[t].at} :
         at \in {"append", "copy", "respond", "answer"} /\ Dealt(c, q, at)'
  BY <1>3, <1>4, <1>6
<1> QED
  BY <1>1, <1>2, <1>3, <1>7, <1>8, <1>9, <1>10, TaskKept

\* One more part keeps the file in order.
LEMMA OneMore ==
  ASSUME Filed, Ordered, NEW r, NEW k \in Nat, NEW n \in Nat, n = Len(transactions), LastParts(r, n, k),
         NEW e, e.id = r.id, e.part = k + 1,
         e \in [id : Connection \X Nat, part : Nat, last : BOOLEAN], transactions' = Append(transactions, e)
  PROVE  Ordered' /\ Copied(r)' = n - k + 1 .. n + 1
<1>1. /\ transactions \in Seq([id : Connection \X Nat, part : Nat, last : BOOLEAN])
      /\ k <= n /\ Copied(r) = n - k + 1 .. n /\ (k = 0 => Closed)
      /\ \A j \in 1 .. k : transactions[n - k + j] = [id |-> r.id, part |-> j, last |-> FALSE]
  BY DEF Filed, LastParts
<1>2. DOMAIN transactions = 1 .. n /\ DOMAIN transactions' = 1 .. n + 1 /\ transactions'[n + 1] = e
      /\ \A i \in 1 .. n : transactions'[i] = transactions[i]
  BY <1>1
<1>3. Copied(r)' = n - k + 1 .. n + 1
  <2>1. \A i : i \in Copied(r)' <=> i \in Copied(r) \/ i = n + 1
    BY <1>2 DEF Copied
  <2>2. \A i : i \in n - k + 1 .. n + 1 <=> i \in n - k + 1 .. n \/ i = n + 1
    BY <1>1
  <2> QED
    BY <1>1, <2>1, <2>2
<1>4. ASSUME NEW i \in 1 .. n + 1, NEW x, x = transactions'[i]
      PROVE  IF x.part = 1 THEN i = 1 \/ transactions'[i - 1].last
             ELSE i > 1 /\ transactions'[i - 1] = [id |-> x.id, part |-> x.part - 1, last |-> FALSE]
  <2>1. CASE i \in 1 .. n
    <3>1. x = transactions[i] /\ (i > 1 => transactions'[i - 1] = transactions[i - 1])
      BY <1>2, <1>4, <2>1
    <3>2. IF x.part = 1 THEN i = 1 \/ transactions[i - 1].last
          ELSE i > 1 /\ transactions[i - 1] = [id |-> x.id, part |-> x.part - 1, last |-> FALSE]
      BY <1>2, <2>1, <3>1 DEF Ordered
    <3> QED
      BY <2>1, <3>1, <3>2
  <2>2. CASE i = n + 1 /\ k = 0
    <3>1. x.part = 1 /\ (n = 0 \/ transactions[n].last)
      BY <1>1, <1>2, <1>4, <2>2 DEF Closed
    <3>2. n # 0 => transactions'[n] = transactions[n]
      BY <1>2
    <3> QED
      BY <2>2, <3>1, <3>2
  <2>3. CASE i = n + 1 /\ k # 0
    <3>1a. k <= n /\ k # 0 /\ i = n + 1
      BY <1>1, <2>3
    <3>1. k \in 1 .. k /\ n - k + k = n /\ n \in 1 .. n /\ i - 1 = n /\ i > 1
      BY <3>1a
    <3>2. transactions[n - k + k] = [id |-> r.id, part |-> k, last |-> FALSE]
      BY <1>1, <3>1
    <3>3. transactions'[i - 1] = [id |-> r.id, part |-> k, last |-> FALSE]
      BY <1>2, <3>1, <3>2
    <3>4. x.id = r.id /\ x.part = k + 1 /\ x.part - 1 = k /\ x.part # 1
      BY <1>2, <1>4, <2>3
    <3> QED
      BY <3>1, <3>3, <3>4
  <2> QED
    BY <2>1, <2>2, <2>3
<1>5. ASSUME NEW i \in 1 .. n + 1, NEW j \in 1 .. n + 1, i < j, transactions'[i].id = transactions'[j].id
      PROVE  transactions'[i].part < transactions'[j].part
  <2>1. i \in 1 .. n /\ transactions'[i] = transactions[i]
    BY <1>2, <1>5
  <2>2. CASE j \in 1 .. n
    BY <1>2, <1>5, <2>1, <2>2 DEF Ordered
  <2>3. CASE j = n + 1
    <3>1. i \in Copied(r)
      BY <1>2, <1>5, <2>1, <2>3 DEF Copied
    <3>2. PICK m : m = i - (n - k)
      OBVIOUS
    <3>3. i \in n - k + 1 .. n
      BY <1>1, <3>1
    <3>4. m \in 1 .. k /\ n - k + m = i
      BY <3>2, <3>3
    <3>5. transactions[n - k + m] = [id |-> r.id, part |-> m, last |-> FALSE]
      BY <1>1, <3>4
    <3>6. transactions[i].part = m
      BY <3>4, <3>5
    <3> QED
      BY <1>2, <2>1, <2>3, <3>4, <3>6
  <2> QED
    BY <2>2, <2>3
<1>6. Ordered'
  BY <1>2, <1>4, <1>5 DEF Ordered
<1> QED
  BY <1>3, <1>6

\* The thread that has the mutex adds the next part, and its end.
LEMMA CopyFile ==
  ASSUME HandInv, FileInv, NEW t \in Thread, CopyPart(t), UNCHANGED <<plan, client>>
  PROVE  FileInv'
<1>1. PICK c : c = thread[t].c
  OBVIOUS
<1>2. PICK r, part, e : /\ r = session[c].request /\ part = Cardinality(Copied(r)) + 1
                        /\ e = [id |-> r.id, part |-> part, last |-> part > r.parts]
  OBVIOUS
<1>3. /\ thread[t].at = "copy" /\ UNCHANGED <<coming, queue, answers>>
      /\ transactions' = Append(transactions, e)
      /\ \/ part <= r.parts /\ UNCHANGED <<session, thread, mutex>>
         \/ part > r.parts /\ mutex' = NoThread /\ Proceed(t, session[c], "respond")
  BY <1>1, <1>2 DEF CopyPart
<1>4. /\ c \in Connection /\ session[c].life = "open" /\ session[c].reading = FALSE
      /\ Serves(c, t) /\ Comes(c) /\ Reads(c) /\ Filed /\ Ordered /\ answer' = answer
  BY <1>1, <1>3, Tasked, ZenonT(30) DEF answers, response
<1>5. Dealt(c, r, "copy") /\ Copying(r) /\ Sent(c, r) /\ r.parts \in Nat
  BY <1>2, <1>3, <1>4 DEF Reads, Dealt, Sent
<1>6. PICK n \in Nat : n = Len(transactions)
  BY <1>4 DEF Filed
<1>7. PICK k \in 0 .. r.parts : LastParts(r, n, k)
  BY <1>5, <1>6 DEF Copying
<1>8. k \in Nat /\ part = k + 1
  <2>1. k \in Nat /\ n - k + 1 \in Int /\ n \in Int /\ k <= n /\ Copied(r) = n - k + 1 .. n
    BY <1>5, <1>6, <1>7 DEF LastParts
  <2>2. Cardinality(n - k + 1 .. n) = IF n - k + 1 > n THEN 0 ELSE n - (n - k + 1) + 1
    BY <2>1, FS_Interval
  <2> QED
    BY <1>2, <1>6, <1>7, <2>1, <2>2
<1>9. PICK m \in Nat : m \in 1 .. client[c].begun /\ r.id = <<c, m>>
  BY <1>5 DEF Sent
<1>10. e \in [id : Connection \X Nat, part : Nat, last : BOOLEAN] /\ e.id = <<c, m>> /\ e.id = r.id /\ e.part = k + 1
       /\ e.last = (k + 1 > r.parts)
  BY <1>2, <1>4, <1>8, <1>9
<1>11. Ordered' /\ Copied(r)' = n - k + 1 .. n + 1
  <2>1. /\ Filed /\ Ordered /\ k \in Nat /\ n \in Nat /\ n = Len(transactions) /\ LastParts(r, n, k)
        /\ e.id = r.id /\ e.part = k + 1 /\ e \in [id : Connection \X Nat, part : Nat, last : BOOLEAN]
        /\ transactions' = Append(transactions, e)
    BY <1>3, <1>4, <1>6, <1>7, <1>8, <1>10
  <2> QED
    BY <2>1, OneMore, ZenonT(30)
<1>12. transactions \in Seq([id : Connection \X Nat, part : Nat, last : BOOLEAN])
  BY <1>4 DEF Filed
<1>13. Len(transactions') = n + 1 /\ DOMAIN transactions' = 1 .. n + 1 /\ transactions'[n + 1] = e
       /\ DOMAIN transactions = 1 .. n /\ \A i \in 1 .. n : transactions'[i] = transactions[i]
  BY <1>3, <1>6, <1>10, <1>12
<1>14. mutex = t /\ mutex # NoThread
  BY <1>3, <1>4, PoolAssumption DEF Filed
<1>15. ASSUME mutex' \in Thread \cup {NoThread}, \A u \in Thread : thread'[u].at = "copy" <=> mutex' = u,
              mutex' = NoThread => e.last
       PROVE  Filed'
  <2>1. mutex' = NoThread => Closed'
    BY <1>13, <1>15 DEF Closed
  <2>2. transactions' \in Seq([id : Connection \X Nat, part : Nat, last : BOOLEAN])
    BY <1>3, <1>10, <1>12
  <2>3. ASSUME NEW i \in DOMAIN transactions'
        PROVE  \E d \in Connection, x \in Nat : x \in 1 .. client[d].begun /\ transactions'[i].id = <<d, x>>
    <3>1. CASE i = n + 1
      BY <1>4, <1>9, <1>10, <1>13, <3>1
    <3>2. CASE i # n + 1
      <4>1. i \in DOMAIN transactions /\ transactions'[i] = transactions[i]
        BY <1>13, <3>2
      <4> QED
        BY <1>4, <4>1 DEF Filed
    <3> QED
      BY <3>1, <3>2
  <2> QED
    BY <1>15, <2>1, <2>2, <2>3 DEF Filed
<1>16. \A q \in {coming[c].request} : Told(c)' /\ q.method = "POST" => Whole(q)'
  <2> SUFFICES ASSUME NEW q, q = coming[c].request, Told(c), q.method = "POST" PROVE Whole(q)'
    BY <1>3, <1>4 DEF Told, Waits
  <2>1. Whole(q)
    BY <1>4 DEF Reads
  <2> QED
    BY <1>3, <1>4, <1>10, <2>1, WholeStays
<1>17. "to" \in DOMAIN answer'[c] /\ answer'[c].to = answer[c].to /\ answer' = [d \in Connection |-> answer'[d]]
       /\ \A d \in Connection : answer'[d] = answer[d]
  BY <1>4 DEF FileInv, Comes
<1>18. CASE part <= r.parts /\ UNCHANGED <<session, thread, mutex>>
  <2>1. Copying(r)'
    <3>1. k + 1 \in 0 .. r.parts /\ k + 1 <= n + 1 /\ n + 1 - (k + 1) + 1 = n - k + 1 /\ e.last = FALSE /\ k + 1 # 0
      BY <1>5, <1>6, <1>7, <1>8, <1>10, <1>18 DEF LastParts
    <3>2. e = [id |-> r.id, part |-> k + 1, last |-> FALSE]
      BY <1>2, <1>8, <3>1
    <3>3. ASSUME NEW j \in 1 .. k + 1
          PROVE  transactions'[n + 1 - (k + 1) + j] = [id |-> r.id, part |-> j, last |-> FALSE]
      <4>1. CASE j = k + 1
        <5>1. n + 1 - (k + 1) + j = n + 1
          BY <1>6, <1>8, <4>1
        <5> QED
          BY <1>13, <3>2, <4>1, <5>1
      <4>2. CASE j # k + 1
        <5>1. j \in 1 .. k /\ n + 1 - (k + 1) + j = n - k + j /\ n - k + j \in 1 .. n
          BY <1>6, <1>7, <1>8, <4>2 DEF LastParts
        <5> QED
          BY <1>7, <1>13, <5>1 DEF LastParts
      <4> QED
        BY <4>1, <4>2
    <3> QED
      BY <1>11, <1>13, <3>1, <3>3 DEF Copying, LastParts
  <2>2. Dealt(c, r, "copy")'
    BY <1>3, <1>4, <1>5, <2>1 DEF Dealt, Sent
  <2>3. Filed'
    BY <1>4, <1>14, <1>15, <1>18 DEF Filed
  <2>4. thread'[t].c = c /\ thread'[t].at = "copy" /\ session'[c] = session[c]
    BY <1>1, <1>3, <1>18
  <2>5. \A q \in {session'[c].request}, at \in {thread'[t].at} :
          at \in {"append", "copy", "respond", "answer"} /\ Dealt(c, q, at)'
    BY <1>2, <2>2, <2>4
  <2> QED
    BY <1>1, <1>3, <1>4, <1>10, <1>11, <1>16, <1>17, <1>18, <2>3, <2>4, <2>5, TaskKept, ZenonT(30)
<1>19. CASE part > r.parts /\ mutex' = NoThread /\ Proceed(t, session[c], "respond")
  <2>1. /\ session'[c] = session[c] /\ \A d \in Connection \ {c} : session'[d] = session[d]
        /\ thread'[t].c = c /\ thread'[t].at = "respond" /\ \A u \in Thread \ {t} : thread'[u] = thread[u]
    BY <1>1, <1>3, <1>19, Proceeds
  <2>2. e.last /\ Whole(r)'
    <3>1. e.last /\ n + 1 \in n - k + 1 .. n + 1
      BY <1>6, <1>8, <1>10, <1>19
    <3> QED
      BY <1>11, <1>13, <3>1 DEF Whole
  <2>3. \A u \in Thread : thread'[u].at = "copy" <=> mutex' = u
    BY <1>4, <1>14, <1>19, <2>1, PoolAssumption DEF Filed
  <2>4. Filed'
    BY <1>15, <1>19, <2>2, <2>3
  <2>5. Dealt(c, r, "respond")'
    BY <1>3, <1>4, <1>5, <2>2 DEF Dealt, Sent
  <2>6. \A q \in {session'[c].request}, at \in {thread'[t].at} :
          at \in {"append", "copy", "respond", "answer"} /\ Dealt(c, q, at)'
    BY <1>2, <2>1, <2>5
  <2> QED
    BY <1>1, <1>3, <1>4, <1>10, <1>11, <1>16, <1>17, <2>1, <2>4, <2>6, TaskKept, ZenonT(30)
<1> QED
  BY <1>3, <1>18, <1>19

\* The answer begins, of a request that is copied.
LEMMA RespondFile ==
  ASSUME HandInv, FileInv, NEW t \in Thread, HandleResponse(t), UNCHANGED <<plan, client>>
  PROVE  FileInv'
<1>1. PICK c : c = thread[t].c
  OBVIOUS
<1>2. /\ thread[t].at = "respond" /\ c \in Connection /\ session[c].life = "open" /\ session[c].reading = FALSE
      /\ Serves(c, t) /\ Comes(c) /\ Reads(c)
      /\ UNCHANGED <<plan, client, coming, queue, file, answer>> /\ transactions' = transactions /\ answer' = answer
      /\ Proceed(t, session[c], "answer")
  <2>1. thread[t].at = "respond" /\ UNCHANGED <<coming, queue, file, response>> /\ Proceed(t, session[c], "answer")
    BY <1>1 DEF HandleResponse
  <2> QED
    BY <1>1, <2>1, Tasked, ZenonT(30) DEF response, file
<1>3. /\ session'[c] = session[c] /\ \A d \in Connection \ {c} : session'[d] = session[d]
      /\ thread'[t].c = c /\ thread'[t].at = "answer" /\ \A u \in Thread \ {t} : thread'[u] = thread[u]
  BY <1>1, <1>2, Proceeds
<1>4. PICK r : r = session[c].request /\ Dealt(c, r, "respond")
  BY <1>2 DEF Reads
<1>5. Dealt(c, r, "answer")'
  BY <1>2, <1>4 DEF Dealt, Sent, Whole, Copied
<1>6. Filed' /\ Ordered'
  <2>1. \A u \in Thread : thread'[u].at = "copy" <=> thread[u].at = "copy"
    BY <1>2, <1>3
  <2> QED
    BY <1>2, <2>1, FiledSame DEF FileInv, Comes
<1>7. \A q \in {coming[c].request} : Told(c)' /\ q.method = "POST" => Whole(q)'
  BY <1>2 DEF Reads, Told, Waits, Whole, Copied
<1>8. "to" \in DOMAIN answer'[c] /\ answer'[c].to = answer[c].to /\ answer' = [d \in Connection |-> answer'[d]]
      /\ \A d \in Connection : answer'[d] = answer[d]
  BY <1>2 DEF FileInv, Comes
<1>9. \A q \in {session'[c].request}, at \in {thread'[t].at} :
        at \in {"append", "copy", "respond", "answer"} /\ Dealt(c, q, at)'
  BY <1>3, <1>4, <1>5
<1> QED
  BY <1>1, <1>2, <1>3, <1>6, <1>7, <1>8, <1>9, TaskKept

\* The headers tell whose answer it is: that of the request that was dealt with.
LEMMA HeadersFile ==
  ASSUME HandInv, FileInv, NEW t \in Thread, thread[t].at = "answer", NEW c, c = thread[t].c,
         NEW r, r = session[c].request, WriteHeaders(t, c, r), UNCHANGED <<plan, client, coming, tasks, file>>
  PROVE  FileInv'
<1>1. /\ c \in Connection /\ session[c].life = "open" /\ session[c].reading = FALSE
      /\ Serves(c, t) /\ Comes(c) /\ Reads(c) /\ answer = [d \in Connection |-> answer[d]]
      /\ transactions' = transactions /\ session' = session /\ thread' = thread /\ queue' = queue
  <2>1. answer = [d \in Connection |-> answer[d]]
    BY DEF FileInv
  <2>2. transactions' = transactions /\ session' = session /\ thread' = thread /\ queue' = queue
    BY DEF tasks, file
  <2> QED
    BY <2>1, <2>2, Tasked, ZenonT(30)
<1>2. Dealt(c, r, "answer")
  BY <1>1 DEF Reads
<1>3. CASE answer' = answer
  BY <1>1, <1>3, AnswerSame DEF FileInv, Comes
<1>4. CASE answer' # answer
  <2>1. PICK a : answer' = [answer EXCEPT ![c] = a] /\ a.to = r.id /\ "to" \in DOMAIN a
    <3>1. PICK a : /\ answer' = [answer EXCEPT ![c] = a]
                   /\ a = [NoAnswer EXCEPT !.to = r.id, !.status = app[t].status, !.announced = Announced(app[t]),
                                           !.ok = auth[t].ok, !.user = auth[t].user, !.id = auth[t].id,
                                           !.cookie = app[t].n > 1]
      BY <1>4 DEF WriteHeaders
    <3>2. "to" \in DOMAIN NoAnswer
      BY DEF NoAnswer
    <3> QED
      BY <3>1, <3>2
  <2>2. answer'[c] = a /\ (\A d \in Connection \ {c} : answer'[d] = answer[d])
        /\ answer' = [d \in Connection |-> answer'[d]]
    BY <1>1, <2>1
  <2>3. Waits(c)' = Waits(c) /\ Sent(c, r) /\ (r.method = "POST" => Whole(r)) /\ Sent(c, r)'
        /\ (r.method = "POST" => Whole(r)')
    BY <1>1, <1>2 DEF Dealt, Waits, Sent, Whole, Copied
  <2>4. ASSUME Waits(c), coming[c].request # r
        PROVE  coming[c].request.id # r.id /\ coming[c].parts = client[c].sent /\ Fresh(c)'
    <3>1. coming[c].request.id # r.id /\ coming[c].parts = client[c].sent /\ Fresh(c)
      BY <1>2, <2>4 DEF Dealt
    <3> QED
      BY <1>1, <2>1, <2>2, <3>1 DEF Fresh, Copied
  <2>5. Dealt(c, r, "answer")'
    <3>1. CASE coming[c].request = r /\ Waits(c)
      <4>1. coming[c].parts = 0 /\ client[c].sent = r.parts
        BY <1>2, <3>1 DEF Dealt
      <4> QED
        BY <2>3, <3>1, <4>1 DEF Dealt
    <3>2. CASE coming[c].request # r \/ ~ Waits(c)
      BY <2>3, <2>4, <3>2 DEF Dealt
    <3> QED
      BY <3>1, <3>2
  <2>6. ASSUME NEW q, q = coming[c].request, Told(c)', q.method = "POST" PROVE Whole(q)'
    <3>1. Waits(c) /\ q.id = r.id
      BY <2>1, <2>2, <2>3, <2>6 DEF Told
    <3> QED
      BY <2>3, <2>4, <2>6, <3>1
  <2>7. Filed' /\ Ordered'
    <3>1. \A d \in Connection : client'[d].begun \in Nat /\ client[d].begun <= client'[d].begun
      <4>1. \A d \in Connection : client[d].begun \in Nat /\ client'[d] = client[d]
        BY <1>1 DEF FileInv, Comes
      <4>2. \A n \in Nat : n <= n
        OBVIOUS
      <4> QED
        BY <4>1, <4>2
    <3>2. \A u \in Thread : thread'[u].at = "copy" <=> thread[u].at = "copy"
      BY <1>1
    <3>3. UNCHANGED file
      BY <1>1
    <3> QED
      BY <3>1, <3>2, <3>3, FiledSame
  <2>8. \A q \in {session'[c].request}, at \in {thread'[t].at} :
          at \in {"append", "copy", "respond", "answer"} /\ Dealt(c, q, at)'
    BY <1>1, <2>5
  <2>9. "to" \in DOMAIN answer'[c] /\ \E q : Sent(c, q) /\ answer'[c].to = q.id
    BY <2>1, <2>2, <2>3
  <2> QED
    BY <1>1, <2>2, <2>6, <2>7, <2>8, <2>9, TaskKept
<1> QED
  BY <1>3, <1>4

\* More of an answer leaves whose it is.
LEMMA OneAnswer ==
  ASSUME FileInv, UNCHANGED <<plan, client, coming, tasks, file>>, NEW c \in Connection, NEW a,
         "to" \in DOMAIN a, a.to = answer[c].to, answer' = answer \/ answer' = [answer EXCEPT ![c] = a]
  PROVE  FileInv'
<1>1. answer = [d \in Connection |-> answer[d]] /\ \A d \in Connection : "to" \in DOMAIN answer[d]
  BY DEF FileInv, Comes
<1>2. /\ answer' = [d \in Connection |-> answer'[d]]
      /\ \A d \in Connection : "to" \in DOMAIN answer'[d] /\ answer'[d].to = answer[d].to
  BY <1>1
<1> QED
  BY <1>2, AnswerSame

\* The other steps of an answer leave whose it is.
LEMMA AnswerFile ==
  ASSUME HandInv, FileInv, NEW t \in Thread, Answer(t), UNCHANGED <<plan, client>>
  PROVE  FileInv'
<1>1. PICK c, r : c = thread[t].c /\ r = session[c].request
  OBVIOUS
<1>2. thread[t].at = "answer" /\ UNCHANGED <<plan, client, coming, tasks, file>>
  BY DEF Answer
<1>3. c \in Connection /\ answer = [d \in Connection |-> answer[d]] /\ \A d \in Connection : "to" \in DOMAIN answer[d]
  BY <1>1, <1>2, Tasked DEF FileInv, Comes
<1>4. CASE answer' = answer
  BY <1>2, <1>3, <1>4, AnswerSame
<1>5. CASE WriteHeaders(t, c, r)
  BY <1>1, <1>2, <1>5, HeadersFile
<1>6. CASE WriteContent(t, c, r) \/ WritePage(t, c) \/ EndPages(t, c)
  <2>1. CASE WriteContent(t, c, r)
    <3>1. PICK a : a = [answer[c] EXCEPT !.parts = Content(t), !.ended = TRUE, !.mixed = app[t].mixed]
      OBVIOUS
    <3>2. answer' = answer \/ answer' = [answer EXCEPT ![c] = a]
      BY <2>1, <3>1 DEF WriteContent
    <3> QED
      BY <1>2, <1>3, <3>1, <3>2, OneAnswer
  <2>2. CASE WritePage(t, c)
    <3>1. answer' = [answer EXCEPT ![c].parts = Append(@, PageAt(t)), ![c].mixed = app[t].mixed]
      BY <2>2 DEF WritePage
    <3>2. /\ answer' = [d \in Connection |-> answer'[d]]
          /\ \A d \in Connection \ {c} : answer'[d] = answer[d]
          /\ "to" \in DOMAIN answer'[c] /\ answer'[c].to = answer[c].to
      BY <1>3, <3>1
    <3> QED
      BY <1>2, <1>3, <3>2, AnswerSame
  <2>3. CASE EndPages(t, c)
    <3>1. PICK a : a = [answer[c] EXCEPT !.ended = TRUE, !.mixed = app[t].mixed]
      OBVIOUS
    <3>2. answer' = answer \/ answer' = [answer EXCEPT ![c] = a]
      BY <2>3, <3>1 DEF EndPages
    <3> QED
      BY <1>2, <1>3, <3>1, <3>2, OneAnswer
  <2> QED
    BY <1>6, <2>1, <2>2, <2>3
<1> QED
  BY <1>1, <1>4, <1>5, <1>6 DEF Answer, ResponseStep, response

-----------------------------------------------------------------------------
(* The theorem. *)

\* Every step keeps the file and what the sessions have.
LEMMA NextFile == HandInv /\ FileInv /\ [Next]_vars => FileInv'
<1> SUFFICES ASSUME HandInv, FileInv, [Next]_vars PROVE FileInv'
  OBVIOUS
<1>1. ASSUME UNCHANGED <<plan, client, coming, tasks, file, answer>> PROVE FileInv'
  BY <1>1, AnswerSame DEF FileInv, Comes
<1>2. ASSUME NEW c \in Connection, Client(c) PROVE FileInv'
  <2>1. CASE Connect(c) \/ GoAway(c)
    BY <1>1, <2>1 DEF Connect, GoAway, clients
  <2> QED
    BY <1>2, <2>1, SendKeeps, SendRestKeeps, ReceiveKeeps DEF Client
<1>3. ASSUME NEW c \in Connection, Calling(c) PROVE FileInv'
  BY <1>3, AcceptFile, ReadFile DEF Calling, Callback, clients
<1>4. ASSUME NEW t \in Thread, Serving(t) PROVE FileInv'
  BY <1>4, TakeFile, PartsFile, LockedFile, CopyFile, RespondFile, AnswerFile, EndFile DEF Serving, Task, clients
<1>5. CASE Expires
  BY <1>1, <1>5 DEF Expires, clients, response
<1>6. CASE UNCHANGED vars
  BY <1>1, <1>6 DEF vars, clients, answers, response
<1> QED
  BY <1>2, <1>3, <1>4, <1>5, <1>6 DEF Next

\* An entry of the file, and the one before it.
LEMMA Entry ==
  ASSUME Filed, NEW i \in DOMAIN transactions
  PROVE  transactions[i] \in [id : Connection \X Nat, part : Nat, last : BOOLEAN]
<1>1. transactions \in Seq([id : Connection \X Nat, part : Nat, last : BOOLEAN])
  BY DEF Filed
<1>2. ASSUME NEW S, transactions \in Seq(S) PROVE transactions[i] \in S
  BY <1>2
<1> QED
  BY <1>1, <1>2

\* The entry before a part, written as a record.
LEMMA PartBefore ==
  ASSUME NEW e \in [id : Connection \X Nat, part : Nat, last : BOOLEAN]
  PROVE  [e EXCEPT !.part = @ - 1, !.last = FALSE] = [id |-> e.id, part |-> e.part - 1, last |-> FALSE]
<1>1. PICK q, k, l, m : q = e.id /\ k = e.part /\ l = e.last /\ m = e.part - 1
  OBVIOUS
<1>2. e = [id |-> q, part |-> k, last |-> l]
  BY <1>1
<1>3. PICK y : y = [e EXCEPT !.part = m, !.last = FALSE]
  OBVIOUS
<1>4. y = [id |-> q, part |-> m, last |-> FALSE]
  BY <1>2, <1>3
<1> QED
  BY <1>1, <1>3, <1>4

\* In the file of transactions each request is whole, once, and not mixed with another,
\* however the threads interleave, and that of a POST that is answered is there, for any
\* number of connections and threads (Session::appendToTransactionFile).
THEOREM TransactionsCorrect == Spec => []Transactions
<1>1. HandInv /\ FileInv => Transactions
  <2> SUFFICES ASSUME HandInv, FileInv PROVE Transactions
    OBVIOUS
  <2>1. transactions \in Seq([id : Connection \X Nat, part : Nat, last : BOOLEAN]) /\ Ordered
    BY DEF FileInv, Filed
  <2>9. Filed
    BY DEF FileInv
  <2>2. ASSUME NEW i \in DOMAIN transactions, NEW e, e = transactions[i]
        PROVE  IF e.part = 1 THEN i = 1 \/ transactions[i - 1].last
               ELSE i > 1 /\ transactions[i - 1] = [e EXCEPT !.part = @ - 1, !.last = FALSE]
    <3>1. e \in [id : Connection \X Nat, part : Nat, last : BOOLEAN]
      BY <2>9, <2>2, Entry
    <3>2. [e EXCEPT !.part = @ - 1, !.last = FALSE] = [id |-> e.id, part |-> e.part - 1, last |-> FALSE]
      BY <3>1, PartBefore
    <3> QED
      BY <2>1, <2>2, <3>2 DEF Ordered
  <2>3. ASSUME NEW i \in DOMAIN transactions, NEW j \in DOMAIN transactions, i # j
        PROVE  transactions[i] # transactions[j]
    <3>1. transactions[i].part \in Nat /\ transactions[j].part \in Nat /\ i \in Nat /\ j \in Nat
      BY <2>9, <2>1, Entry
    <3>2. i < j \/ j < i
      BY <2>3, <3>1
    <3>3. \A k, l \in DOMAIN transactions :
             k < l /\ transactions[k].id = transactions[l].id => transactions[k].part < transactions[l].part
      BY <2>1 DEF Ordered
    <3> QED
      BY <3>1, <3>2, <3>3
  <2>4. ASSUME NEW c \in Connection, Answered(c), coming[c].request.method = "POST"
        PROVE  \E i \in Copied(coming[c].request) : transactions[i].last
    BY <2>4 DEF FileInv, Reads, Told, Answered, Whole
  <2> QED
    BY <2>2, <2>3, <2>4 DEF Transactions
<1> QED
  BY <1>1, InitHand, NextHand, InitFile, NextFile, PTL DEF Spec

-----------------------------------------------------------------------------
(* The handles on the database.  A thread asks for one only while it       *)
(* answers, and a task ends only when its application has given it back.   *)

\* What a client may send.
Proper(r) == r.method \in {"GET", "POST", "OPTIONS", "DELETE"} /\ r.ask \in {"none", "logon", "logoff"} /\ r.path \in DOMAIN Files

\* What a thread deals with is such a request, and none that is never read to its end.
Tends(t) ==
  thread[t].at \in {"append", "copy", "respond", "answer"} =>
    \A r \in {session[thread[t].c].request} : Proper(r) /\ r.method # "DELETE"

\* The applications have their fields.
AppForm == app = [o \in Thread |-> app[o]] /\ \A o \in Thread : {"n", "in"} \subseteq DOMAIN app[o]

\* An application that asks for a handle has a request that is not for OptionsApp.
Applies(t) ==
  /\ thread[t].at = "answer" =>
       /\ app[t].n \in Nat \ {0}
       /\ app[t].n = 1 => app[t].in \in {"start", "decided", "content", "written"}
       /\ app[t].n # 1 => session[thread[t].c].request.method # "OPTIONS"
  /\ thread[t].at # "answer" => Outside(t)

\* A thread has the handle it is at.
Has(t, i) == ask[t].at \in {"held", "unlock"} /\ ask[t].i = i

\* The lock of a handle says who has it.
Locked ==
  /\ 1 \in DOMAIN databases
  /\ databases \in [DOMAIN databases -> Thread \cup {NoThread}]
  /\ ask \in [Thread -> [at : Asks, i : DOMAIN databases]]
  /\ \A t \in Thread, i \in DOMAIN databases : databases[i] = t <=> Has(t, i)

PoolInv ==
  /\ \A c \in Connection : \A r \in {coming[c].request} : Waits(c) => Proper(r)
  /\ AppForm
  /\ \A t \in Thread : Tends(t) /\ Applies(t)
  /\ Locked

-----------------------------------------------------------------------------

\* What a step of an answer does to the handles.
Begins(t) == Outside(t) /\ Request(t) /\ UNCHANGED <<databases, signal>>
Frees(t) == Holds(t) /\ Release(t) /\ UNCHANGED <<databases, signal>>

\* What it does to the application: t is at a, and the others stay where they are.
Puts(t, n, in) ==
  /\ app' = [o \in Thread |-> app'[o]]
  /\ \A o \in Thread : {"n", "in"} \subseteq DOMAIN app'[o]
  /\ \A o \in Thread \ {t} : app'[o].n = app[o].n /\ app'[o].in = app[o].in
  /\ app'[t].n = n /\ app'[t].in = in

\* The ways an application goes on.
LEMMA DoPuts ==
  ASSUME AppForm, NEW t \in Thread, NEW a, {"n", "in"} \subseteq DOMAIN a, Do(t, a)
  PROVE  Puts(t, a.n, a.in)
BY DEF AppForm, Do, Puts

\* A change that others see moves t alone.
LEMMA MixPuts ==
  ASSUME AppForm, NEW t \in Thread, NEW a, {"n", "in"} \subseteq DOMAIN a, Mix(t, a)
  PROVE  Puts(t, a.n, a.in)
<1>1. \A o \in Thread : DOMAIN [app[o] EXCEPT !.mixed = TRUE] = DOMAIN app[o]
                        /\ [app[o] EXCEPT !.mixed = TRUE].n = app[o].n /\ [app[o] EXCEPT !.mixed = TRUE].in = app[o].in
  BY DEF AppForm
<1>2. app'[t] = a /\ app' = [o \in Thread |-> app'[o]]
  BY DEF Mix
<1>3. \A o \in Thread \ {t} : app'[o] \in {app[o], [app[o] EXCEPT !.mixed = TRUE]}
  BY DEF Mix
<1>4. \A o \in Thread \ {t} : {"n", "in"} \subseteq DOMAIN app'[o] /\ app'[o].n = app[o].n /\ app'[o].in = app[o].in
  <2> TAKE o \in Thread \ {t}
  <2>1. CASE app'[o] = app[o]
    BY <2>1 DEF AppForm
  <2>2. CASE app'[o] = [app[o] EXCEPT !.mixed = TRUE]
    <3>1. DOMAIN app'[o] = DOMAIN app[o] /\ app'[o].n = app[o].n /\ app'[o].in = app[o].in
      BY <1>1, <2>2
    <3> QED
      BY <3>1 DEF AppForm
  <2> QED
    BY <1>3, <2>1, <2>2
<1> QED
  BY <1>2, <1>4 DEF Puts

\* To go on, to pass, to decide and to throw.
LEMMA StepPuts ==
  ASSUME AppForm, NEW t \in Thread
  PROVE  /\ \A in : Continue(t, in) => Puts(t, app[t].n, in)
         /\ Pass(t) => Puts(t, app[t].n + 1, "start")
         /\ \A status, serve : Decide(t, status, serve) => Puts(t, app[t].n, "decided")
         /\ \A status, serve, n : Serve(t, status, serve, n) => Puts(t, app[t].n, "decided")
         /\ Throw(t) => Puts(t, app[t].n, "thrown")
<1>0. {"n", "in"} \subseteq DOMAIN app[t]
  BY DEF AppForm
<1>1. ASSUME NEW in, Continue(t, in) PROVE Puts(t, app[t].n, in)
  <2>1. PICK a : a = [app[t] EXCEPT !.in = in]
    OBVIOUS
  <2>2. {"n", "in"} \subseteq DOMAIN a /\ a.n = app[t].n /\ a.in = in
    BY <1>0, <2>1
  <2>3. Do(t, a)
    BY <1>1, <2>1 DEF Continue
  <2> QED
    BY <2>2, <2>3, DoPuts
<1>2. ASSUME Pass(t) PROVE Puts(t, app[t].n + 1, "start")
  <2>1. PICK a : a = [app[t] EXCEPT !.n = @ + 1, !.in = "start"]
    OBVIOUS
  <2>2. {"n", "in"} \subseteq DOMAIN a /\ a.n = app[t].n + 1 /\ a.in = "start"
    BY <1>0, <2>1
  <2>3. Do(t, a)
    BY <1>2, <2>1 DEF Pass
  <2> QED
    BY <2>2, <2>3, DoPuts
<1>3. ASSUME NEW status, NEW serve, Decide(t, status, serve) PROVE Puts(t, app[t].n, "decided")
  <2>1. PICK a : a = [app[t] EXCEPT !.in = "decided", !.status = status, !.serve = serve]
    OBVIOUS
  <2>2. {"n", "in"} \subseteq DOMAIN a /\ a.n = app[t].n /\ a.in = "decided"
    BY <1>0, <2>1
  <2>3. Do(t, a)
    BY <1>3, <2>1 DEF Decide
  <2> QED
    BY <2>2, <2>3, DoPuts
<1>4. ASSUME NEW status, NEW serve, NEW n, Serve(t, status, serve, n) PROVE Puts(t, app[t].n, "decided")
  <2>1. PICK a : a = [app[t] EXCEPT !.in = "decided", !.status = status, !.serve = serve, !.length = n]
    OBVIOUS
  <2>2. {"n", "in"} \subseteq DOMAIN a /\ a.n = app[t].n /\ a.in = "decided"
    BY <1>0, <2>1
  <2>3. Do(t, a)
    BY <1>4, <2>1 DEF Serve
  <2> QED
    BY <2>2, <2>3, DoPuts
<1> QED
  BY <1>1, <1>2, <1>3, <1>4 DEF Throw

\* A step of t that asks for a handle, gives it back, or does neither.
PoolMove(t) == UNCHANGED pool \/ Begins(t) \/ Frees(t)

\* A step of t that stays in its application, or goes on to the next.
AppMove(t, r) ==
  \/ \E in : Puts(t, app[t].n, in) /\ (app[t].n = 1 => in \in {"start", "decided", "content", "written"})
  \/ Puts(t, app[t].n + 1, "start") /\ (app[t].n = 1 => r.method # "OPTIONS")

\* The request of t, and its application.
Answering(t, r) ==
  /\ AppForm /\ Proper(r) /\ r.method # "DELETE"
  /\ app[t].n \in Nat \ {0}
  /\ app[t].n = 1 => app[t].in \in {"start", "decided", "content", "written"}
  /\ app[t].n # 1 => r.method # "OPTIONS"

\* A method of Authentication has a handle, and gives it back when it returns.
LEMMA MethodMoves ==
  ASSUME NEW t \in Thread, AuthenticationStep(t)
  PROVE  PoolMove(t)
BY DEF AuthenticationStep, PoolMove, Frees, pool, Authenticate, CheckTime, StampTime, ReadUser, Logon, CreateUser,
       StoreSecret, StoreSession, StoreLast, Logoff, In, Go, Return

\* The applications that have no handle.
LEMMA PlainMoves ==
  ASSUME NEW t \in Thread, NEW r, Answering(t, r), OptionsApp(t, r) \/ FileSystemApp(t, r) \/ NotFoundApp(t, r)
  PROVE  PoolMove(t) /\ AppMove(t, r)
<1>1. PoolMove(t)
  BY DEF OptionsApp, FileSystemApp, NotFoundApp, PoolMove
<1>2. CASE OptionsApp(t, r)
  BY <1>1, <1>2, StepPuts DEF OptionsApp, AppMove, Answering
<1>3. CASE FileSystemApp(t, r)
  <2>1. app[t].n = 4
    BY <1>3, Zenon DEF FileSystemApp
  <2>2. Pass(t) \/ Throw(t) \/ \E status, serve : Decide(t, status, serve)
    <3>1. Files[r.path] \in {"none", "outside", "bare directory", "directory", "index", "file", "unknown"}
      BY AppsAssumption DEF Answering, Proper, Kinds
    <3> QED
      BY <1>3, <3>1 DEF FileSystemApp
  <2> QED
    BY <1>1, <2>1, <2>2, StepPuts DEF AppMove, Answering
<1>4. CASE NotFoundApp(t, r)
  BY <1>1, <1>4, StepPuts DEF NotFoundApp, AppMove, Answering
<1> QED
  BY <1>1, <1>2, <1>3, <1>4

\* AuthenticationApp asks for a handle only when it begins a method.
LEMMA AuthenticationMoves ==
  ASSUME NEW t \in Thread, NEW r, Answering(t, r), AuthenticationApp(t, r) \/ AuthenticationAnswer(t, r)
  PROVE  PoolMove(t) /\ AppMove(t, r)
<1>1. CASE AuthenticationApp(t, r)
  <2>1. app[t].n = 2 /\ Outside(t) /\ UNCHANGED <<databases, signal>>
    BY <1>1 DEF AuthenticationApp, At, Resting
  <2>2. Asked(r) \in {"getStatus", "logon", "logoff", "none", "other"}
    BY DEF Asked, Answering, Proper
  <2>3. (Request(t) \/ UNCHANGED ask) /\ (Pass(t) \/ Throw(t) \/ \E in : Continue(t, in))
    BY <1>1, <2>2 DEF AuthenticationApp, CallAuthenticate, CallLogon, CallLogoff, Call
  <2> QED
    BY <2>1, <2>3, StepPuts DEF PoolMove, Begins, pool, AppMove, Answering
<1>2. CASE AuthenticationAnswer(t, r)
  <2>1. app[t].n # 1 /\ UNCHANGED pool
    BY <1>2 DEF AuthenticationAnswer, At, Answering
  <2>2. Pass(t) \/ \E status, serve : Decide(t, status, serve)
    BY <1>2 DEF AuthenticationAnswer
  <2> QED
    BY <2>1, <2>2, StepPuts DEF PoolMove, AppMove, Answering
<1> QED
  BY <1>1, <1>2

\* A change of a text leaves the application it is of.
LEMMA ChangePuts ==
  ASSUME AppForm, NEW t \in Thread, NEW text, NEW step, NEW page, Change(t, text, step, page)
  PROVE  Puts(t, app[t].n, step) /\ UNCHANGED <<databases, signal>>
<1>1. PICK a : a = [app[t] EXCEPT !.in = step, !.page = page]
  OBVIOUS
<1>2. {"n", "in"} \subseteq DOMAIN a /\ a.n = app[t].n /\ a.in = step
  BY <1>1 DEF AppForm
<1>3. Mix(t, a)
  BY <1>1 DEF Change
<1> QED
  BY <1>2, <1>3, MixPuts DEF Change

\* An application that has a handle is not OptionsApp.
LEMMA WithinMoves ==
  ASSUME NEW t \in Thread, NEW r, Answering(t, r), NEW step, Within(t, step), step \notin {"start", "decided", "content", "written"},
         UNCHANGED <<databases, signal>>, Release(t) \/ UNCHANGED ask,
         (\E in : Puts(t, app[t].n, in)) \/ Puts(t, app[t].n + 1, "start")
  PROVE  PoolMove(t) /\ AppMove(t, r)
<1>1. Holds(t) /\ app[t].n # 1
  BY DEF Within, Answering
<1> QED
  BY <1>1 DEF PoolMove, Frees, pool, AppMove

\* StorageApp has one handle from its method to its answer.
LEMMA StorageMoves ==
  ASSUME NEW t \in Thread, NEW r, Answering(t, r),
         \/ StorageApp(t, r) \/ StorageMethod(t, r) \/ StorePage(t, r) \/ StoreLength(t, r)
         \/ StoreType(t) \/ StoreCount(t, r) \/ Stored(t) \/ DropPage(t) \/ Drop(t)
         \/ FindText(t) \/ FindLength(t)
  PROVE  PoolMove(t) /\ AppMove(t, r)
<1>1. AppForm
  BY DEF Answering
<1>2. CASE StorageApp(t, r)
  <2>1. app[t].n = 3 /\ Outside(t) /\ UNCHANGED <<databases, signal>>
    BY <1>2 DEF StorageApp, At, Resting
  <2>2. (Request(t) /\ Continue(t, "storage")) \/ (Pass(t) /\ UNCHANGED ask)
    BY <1>2 DEF StorageApp
  <2> QED
    BY <1>1, <2>1, <2>2, StepPuts DEF PoolMove, Begins, pool, AppMove, Answering
<1>3. CASE StorageMethod(t, r)
  <2>1. Within(t, "storage") /\ UNCHANGED <<databases, signal>>
    BY <1>3 DEF StorageMethod
  <2>2. app[t].n # 1 /\ r.method \in {"GET", "POST"}
    BY <2>1 DEF Within, Answering, Proper
  <2>3. /\ Release(t) \/ UNCHANGED ask
        /\ Pass(t) \/ \E in : Continue(t, in)
    BY <1>3, <2>2 DEF StorageMethod
  <2> QED
    BY <1>1, <2>1, <2>3, StepPuts, WithinMoves
<1>4. CASE StorePage(t, r) \/ StoreLength(t, r) \/ StoreType(t) \/ StoreCount(t, r) \/ DropPage(t) \/ Drop(t)
  <2>1. PICK step \in {"page", "length", "type", "count", "drop"} :
          Within(t, step) /\ UNCHANGED ask /\ \E text, next, page : Change(t, text, next, page)
    BY <1>4 DEF StorePage, StoreLength, StoreType, StoreCount, DropPage, Drop
  <2> QED
    BY <1>1, <2>1, ChangePuts, WithinMoves
<1>5. CASE Stored(t) \/ FindText(t) \/ FindLength(t)
  <2>1. PICK step \in {"stored", "has", "size"} : Within(t, step)
    BY <1>5 DEF Stored, FindText, FindLength
  <2>2. UNCHANGED <<databases, signal>> /\ (Release(t) \/ UNCHANGED ask)
    BY <1>5 DEF Stored, FindText, FindLength
  <2>3. \E in : Puts(t, app[t].n, in)
    <3>1. CASE Stored(t)
      BY <1>1, <3>1, StepPuts DEF Stored
    <3>2. CASE FindText(t)
      <4>1. PICK mixed, a : a = [app[t] EXCEPT !.in = "size", !.mixed = mixed]
                            /\ (Do(t, a) \/ Decide(t, 404, "content"))
        BY <3>2 DEF FindText
      <4>2. {"n", "in"} \subseteq DOMAIN a /\ a.n = app[t].n
        BY <1>1, <4>1 DEF AppForm
      <4> QED
        BY <1>1, <4>1, <4>2, DoPuts, StepPuts
    <3>3. CASE FindLength(t)
      BY <1>1, <3>3, StepPuts DEF FindLength
    <3> QED
      BY <1>5, <3>1, <3>2, <3>3
  <2> QED
    BY <2>1, <2>2, <2>3, WithinMoves
<1> QED
  BY <1>2, <1>3, <1>4, <1>5

\* So has JSONApp.
LEMMA JSONMoves ==
  ASSUME NEW t \in Thread, NEW r, Answering(t, r), JSONApp(t, r) \/ GetDocument(t, r) \/ PostDocument(t, r)
  PROVE  PoolMove(t) /\ AppMove(t, r)
<1>1. AppForm
  BY DEF Answering
<1>2. CASE JSONApp(t, r)
  <2>1. app[t].n = 5 /\ Outside(t) /\ UNCHANGED <<databases, signal>>
    BY <1>2 DEF JSONApp, At, Resting
  <2>2. /\ Request(t) \/ UNCHANGED ask
        /\ Pass(t) \/ Continue(t, "json") \/ Decide(t, 500, "content")
    BY <1>2 DEF JSONApp
  <2> QED
    BY <1>1, <2>1, <2>2, StepPuts DEF PoolMove, Begins, pool, AppMove, Answering
<1>3. CASE GetDocument(t, r)
  <2>1. Within(t, "json") /\ UNCHANGED <<databases, signal>> /\ Release(t)
    BY <1>3 DEF GetDocument
  <2>2. PICK document, exists : document = json[auth[t].user] /\ exists = Exists(t, r)
    OBVIOUS
  <2>3. Pass(t) \/ \E status, serve, n : Serve(t, status, serve, n)
    BY <1>3 DEF GetDocument
  <2> QED
    BY <1>1, <2>1, <2>3, StepPuts, WithinMoves
<1>4. CASE PostDocument(t, r)
  <2>1. Within(t, "json") /\ UNCHANGED <<databases, signal>> /\ Release(t)
    BY <1>4 DEF PostDocument
  <2>2. CASE Pass(t)
    BY <1>1, <2>1, <2>2, StepPuts, WithinMoves
  <2>3. CASE ~ Pass(t)
    <3>1. PICK status, a : a = [app[t] EXCEPT !.in = "decided", !.serve = "content", !.status = status] /\ Mix(t, a)
      BY <1>4, <2>3 DEF PostDocument
    <3>2. {"n", "in"} \subseteq DOMAIN a /\ a.n = app[t].n /\ a.in = "decided"
      BY <1>1, <3>1 DEF AppForm
    <3> QED
      BY <1>1, <2>1, <3>1, <3>2, MixPuts, WithinMoves
  <2> QED
    BY <2>2, <2>3
<1> QED
  BY <1>2, <1>3, <1>4

\* What is written of an answer.
LEMMA ResponseMoves ==
  ASSUME NEW t \in Thread, NEW r, Answering(t, r), NEW c,
         WriteHeaders(t, c, r) \/ WriteContent(t, c, r) \/ WritePage(t, c) \/ EndPages(t, c)
  PROVE  PoolMove(t) /\ AppMove(t, r)
<1>1. AppForm
  BY DEF Answering
<1>2. CASE WriteHeaders(t, c, r)
  <2>1. Outside(t) /\ UNCHANGED <<databases, signal>>
    BY <1>2 DEF WriteHeaders, At, Resting
  <2>2. (Continue(t, "written") /\ UNCHANGED ask) \/ (Continue(t, "content") /\ Request(t))
    BY <1>2 DEF WriteHeaders
  <2> QED
    BY <1>1, <2>1, <2>2, StepPuts DEF PoolMove, Begins, pool, AppMove
<1>3. CASE WriteContent(t, c, r) \/ EndPages(t, c)
  <2>1. Holds(t) /\ UNCHANGED <<databases, signal>> /\ Written(t)
    BY <1>3 DEF WriteContent, EndPages, Within
  <2> QED
    BY <1>1, <2>1, StepPuts DEF Written, PoolMove, Frees, AppMove
<1>4. CASE WritePage(t, c)
  <2>1. app[t].in = "content" /\ UNCHANGED pool
    BY <1>4 DEF WritePage, Within
  <2>2. PICK n, a : a = [app[t] EXCEPT !.sent = n] /\ Do(t, a)
    BY <1>4 DEF WritePage
  <2>3. {"n", "in"} \subseteq DOMAIN a /\ a.n = app[t].n /\ a.in = app[t].in
    BY <1>1, <2>2 DEF AppForm
  <2>4. Puts(t, app[t].n, "content")
    BY <1>1, <2>1, <2>2, <2>3, DoPuts
  <2> QED
    BY <2>1, <2>4 DEF PoolMove, AppMove
<1> QED
  BY <1>2, <1>3, <1>4
-----------------------------------------------------------------------------

\* The lock of a handle says who has it after a step of a thread, too.
LEMMA LockedStep ==
  ASSUME Locked, NEW t \in Thread, PoolMove(t) \/ PoolStep(t)
  PROVE  Locked' /\ \A u \in Thread \ {t} : ask'[u] = ask[u]
<1> DEFINE D == DOMAIN databases
<1>1. /\ 1 \in D /\ databases \in [D -> Thread \cup {NoThread}] /\ ask \in [Thread -> [at : Asks, i : D]]
      /\ \A u \in Thread, i \in D : databases[i] = u <=> Has(u, i)
  BY DEF Locked
<1>2. PICK at \in Asks, i \in D : ask[t] = [at |-> at, i |-> i]
  <2>1. ask[t] \in [at : Asks, i : D]
    BY <1>1
  <2>2. ask[t].at \in Asks /\ ask[t].i \in D /\ ask[t] = [at |-> ask[t].at, i |-> ask[t].i]
    BY <2>1
  <2> HIDE DEF D
  <2> QED
    BY <2>2
<1>3. ASSUME NEW a \in Asks, NEW j \in D, ask' = [ask EXCEPT ![t] = [at |-> a, i |-> j]], UNCHANGED databases,
             a \in {"held", "unlock"} <=> at \in {"held", "unlock"}, a \in {"held", "unlock"} => j = i
      PROVE  Locked' /\ \A u \in Thread \ {t} : ask'[u] = ask[u]
  <2>1. ask'[t] = [at |-> a, i |-> j] /\ \A u \in Thread \ {t} : ask'[u] = ask[u]
    BY <1>1, <1>3
  <2>2. ask' \in [Thread -> [at : Asks, i : D]]
    BY <1>1, <1>3
  <2>3. \A k : Has(t, k)' <=> Has(t, k)
    BY <1>2, <1>3, <2>1 DEF Has
  <2>4. \A k : \A u \in Thread : Has(u, k)' <=> Has(u, k)
    BY <2>1, <2>3 DEF Has
  <2> QED
    BY <1>1, <1>3, <2>1, <2>2, <2>4 DEF Locked
<1>4. CASE UNCHANGED pool
  BY <1>1, <1>4 DEF pool, Locked, Has
<1>5. CASE Begins(t)
  <2>1. at = "none" /\ ask' = [ask EXCEPT ![t] = [at |-> "scan", i |-> 1]] /\ UNCHANGED databases
    BY <1>2, <1>5 DEF Begins, Outside, Request
  <2>2. "scan" \in Asks /\ 1 \in D
    BY <1>1 DEF Asks
  <2> QED
    BY <1>3, <2>1, <2>2
<1>6. CASE Frees(t)
  <2>1. at = "held" /\ ask' = [ask EXCEPT ![t].at = "unlock"] /\ UNCHANGED databases
    BY <1>2, <1>6 DEF Frees, Holds, Release
  <2>2. [ask[t] EXCEPT !.at = "unlock"] = [at |-> "unlock", i |-> i]
    BY <1>2
  <2>3. ask' = [ask EXCEPT ![t] = [at |-> "unlock", i |-> i]]
    BY <2>1, <2>2
  <2> QED
    BY <1>3, <2>1, <2>3 DEF Asks
<1>7. CASE TryLock(t)
  <2>1. at = "scan"
    BY <1>2, <1>7 DEF TryLock
  <2>2. CASE databases[i] # NoThread
    <3>1. UNCHANGED databases
      BY <1>2, <1>7, <2>2 DEF TryLock
    <3>2. PICK b : b = IF i + 1 \in D THEN [ask[t] EXCEPT !.i = i + 1] ELSE [ask[t] EXCEPT !.at = "sleep"]
      OBVIOUS
    <3>3. ask' = [ask EXCEPT ![t] = b]
      BY <1>2, <1>7, <2>2, <3>2 DEF TryLock
    <3>4. b = IF i + 1 \in D THEN [at |-> "scan", i |-> i + 1] ELSE [at |-> "sleep", i |-> i]
      BY <1>2, <2>1, <3>2
    <3> QED
      BY <1>3, <2>1, <3>1, <3>3, <3>4 DEF Asks
  <2>3. CASE databases[i] = NoThread
    <3>1. databases' = [databases EXCEPT ![i] = t] /\ ask' = [ask EXCEPT ![t].at = "held"]
      BY <1>2, <1>7, <2>3 DEF TryLock
    <3>2. ask'[t] = [at |-> "held", i |-> i] /\ \A u \in Thread \ {t} : ask'[u] = ask[u]
      BY <1>1, <1>2, <3>1
    <3>3. ask' \in [Thread -> [at : Asks, i : D]] /\ databases' \in [D -> Thread \cup {NoThread}] /\ DOMAIN databases' = D
      BY <1>1, <1>2, <3>1, <3>2 DEF Asks
    <3>4. databases'[i] = t /\ \A k \in D \ {i} : databases'[k] = databases[k]
      BY <1>1, <3>1
    <3>5. ASSUME NEW u \in Thread, NEW k \in D PROVE databases'[k] = u <=> Has(u, k)'
      <4>1. CASE u = t
        BY <1>1, <1>2, <2>1, <3>2, <3>4, <4>1 DEF Has
      <4>2. CASE u # t
        BY <1>1, <2>3, <3>2, <3>4, <4>2, PoolAssumption DEF Has
      <4> QED
        BY <4>1, <4>2
    <3> QED
      BY <1>1, <3>2, <3>3, <3>5 DEF Locked
  <2> QED
    BY <2>2, <2>3
<1>8. CASE Wake(t)
  <2>1. at = "sleep" /\ ask' = [ask EXCEPT ![t] = [at |-> "scan", i |-> 1]] /\ UNCHANGED databases
    BY <1>2, <1>8 DEF Wake, Request
  <2>2. "scan" \in Asks /\ 1 \in D
    BY <1>1 DEF Asks
  <2> QED
    BY <1>3, <2>1, <2>2
<1>9. CASE Unlock(t)
  <2>1. at = "unlock" /\ databases' = [databases EXCEPT ![i] = NoThread] /\ ask' = [ask EXCEPT ![t].at = "signal"]
    BY <1>2, <1>9 DEF Unlock
  <2>2. ask'[t] = [at |-> "signal", i |-> i] /\ \A u \in Thread \ {t} : ask'[u] = ask[u]
    BY <1>1, <1>2, <2>1
  <2>3. ask' \in [Thread -> [at : Asks, i : D]] /\ databases' \in [D -> Thread \cup {NoThread}] /\ DOMAIN databases' = D
    BY <1>1, <1>2, <2>1, <2>2 DEF Asks
  <2>4. databases'[i] = NoThread /\ \A k \in D \ {i} : databases'[k] = databases[k]
    BY <1>1, <2>1
  <2>5. databases[i] = t
    BY <1>1, <1>2, <2>1 DEF Has
  <2>6. ASSUME NEW u \in Thread, NEW k \in D PROVE databases'[k] = u <=> Has(u, k)'
    <3>1. CASE u = t
      BY <1>1, <1>2, <2>1, <2>2, <2>4, <3>1, PoolAssumption DEF Has
    <3>2. CASE u # t
      BY <1>1, <2>2, <2>4, <2>5, <3>2, PoolAssumption DEF Has
    <3> QED
      BY <3>1, <3>2
  <2> QED
    BY <1>1, <2>2, <2>3, <2>6 DEF Locked
<1>10. CASE Signal(t)
  <2>1. at = "signal" /\ ask' = [ask EXCEPT ![t] = [at |-> "none", i |-> 1]] /\ UNCHANGED databases
    BY <1>2, <1>10 DEF Signal, NoAsk
  <2>2. "none" \in Asks /\ 1 \in D
    BY <1>1 DEF Asks
  <2> QED
    BY <1>3, <2>1, <2>2
<1> QED
  BY <1>4, <1>5, <1>6, <1>7, <1>8, <1>9, <1>10 DEF PoolMove, PoolStep

\* What one thread does leaves what another deals with.
LEMMA PoolKept ==
  ASSUME PoolInv, NEW t \in Thread,
         \A c \in Connection : \A r \in {coming'[c].request} : Waits(c)' => Proper(r),
         \A u \in Thread \ {t} :
           /\ thread'[u] = thread[u] /\ ask'[u] = ask[u] /\ app'[u].n = app[u].n /\ app'[u].in = app[u].in
           /\ thread[u].at # "idle" => session'[thread[u].c].request = session[thread[u].c].request,
         AppForm', Locked', Tends(t)', Applies(t)'
  PROVE  PoolInv'
<1>1. ASSUME NEW u \in Thread \ {t} PROVE Tends(u)' /\ Applies(u)'
  BY <1>1 DEF PoolInv, Tends, Applies, Outside
<1> QED
  BY <1>1 DEF PoolInv

\* No thread does anything.
LEMMA PoolSame ==
  ASSUME PoolInv, UNCHANGED <<thread, app, ask, databases>>,
         \A c \in Connection : \A r \in {coming'[c].request} : Waits(c)' => Proper(r),
         \A u \in Thread : thread[u].at # "idle" => session'[thread[u].c].request = session[thread[u].c].request
  PROVE  PoolInv'
<1>1. ASSUME NEW u \in Thread PROVE Tends(u)' /\ Applies(u)'
  BY <1>1 DEF PoolInv, Tends, Applies, Outside
<1>2. Locked'
  BY DEF PoolInv, Locked, Has
<1>3. AppForm'
  BY DEF PoolInv, AppForm
<1> QED
  BY <1>1, <1>2, <1>3 DEF PoolInv

\* At first no thread has anything.
LEMMA InitPool == Init => PoolInv
<1> SUFFICES ASSUME Init PROVE PoolInv
  OBVIOUS
<1>1. \A c \in Connection : ~ Waits(c)
  BY DEF Init, SessionInit, Quiet, Waits
<1>2. PICK n \in Nat \ {0} : databases = [i \in 1 .. n |-> NoThread]
  BY ServerAssumption DEF Init, PoolInit
<1>3. ask = [t \in Thread |-> NoAsk] /\ app = [t \in Thread |-> NoApp] /\ thread = [t \in Thread |-> NoTask]
  BY DEF Init, PoolInit, AppsInit, SessionInit
<1>4. Locked
  BY <1>2, <1>3, PoolAssumption DEF Locked, NoAsk, Asks, Has
<1>5. AppForm
  BY <1>3 DEF AppForm, NoApp
<1>6. \A t \in Thread : Tends(t) /\ Applies(t)
  BY <1>3 DEF Tends, Applies, NoTask, NoAsk, Outside
<1> QED
  BY <1>1, <1>4, <1>5, <1>6 DEF PoolInv
\* A request that is sent is one of the plan.
LEMMA SendPool ==
  ASSUME HandInv, FileInv, PoolInv, NEW c \in Connection, Send(c)
  PROVE  PoolInv'
<1>1. PICK n : n = client[c].begun + 1
  OBVIOUS
<1>2. PICK p : p = Plans[plan].requests[c][n]
  OBVIOUS
<1>3. p \in Requests
  <2>1. client[c] \in [begun : Nat, sent : Nat] /\ n \in Nat \ {0}
    BY <1>1 DEF FileInv, Comes
  <2>2. Plans[plan].requests[c] \in Seq(Requests) /\ More(c)
    BY ServerAssumption DEF FileInv, Send
  <2>3. n \in 1 .. Len(Plans[plan].requests[c])
    BY <1>1, <2>1, <2>2 DEF More
  <2> QED
    BY <1>2, <2>2, <2>3
<1>4. PICK r : /\ r = [p EXCEPT !.id = <<c, n>>, !.cookie = cookie[Jar(c)].id,
                                 !.owner = IF @ = "" THEN cookie[Jar(c)].secret ELSE @]
               /\ coming' = [coming EXCEPT ![c] = [request |-> r, parts |-> 1]]
               /\ UNCHANGED <<tasks, answers>>
  BY <1>1, <1>2 DEF Send
<1>5. Proper(r)
  <2>1. Proper(p)
    BY <1>3 DEF Requests, Proper
  <2>2. {"method", "ask", "path"} \subseteq DOMAIN p
    BY <1>3, RequestFields
  <2>3. r.method = p.method /\ r.ask = p.ask /\ r.path = p.path
    BY <1>4, <2>2
  <2> QED
    BY <2>1, <2>3 DEF Proper
<1>6. \A d \in Connection : \A q \in {coming'[d].request} : Waits(d)' => Proper(q)
  <2>1. coming'[c].request = r /\ \A d \in Connection \ {c} : coming'[d] = coming[d]
    BY <1>4 DEF HandInv, Fields
  <2> QED
    BY <1>5, <2>1 DEF PoolInv, Waits
<1> QED
  BY <1>4, <1>6, PoolSame DEF tasks, answers, apps, pool

\* The other steps of a client.
LEMMA ClientPool ==
  ASSUME HandInv, FileInv, PoolInv, NEW c \in Connection, Client(c)
  PROVE  PoolInv'
<1>1. CASE Send(c)
  BY <1>1, SendPool
<1>2. CASE Connect(c) \/ GoAway(c)
  <2>1. UNCHANGED <<coming, tasks, apps, pool>>
    BY <1>2 DEF Connect, GoAway
  <2> QED
    BY <2>1, PoolSame DEF PoolInv, tasks, apps, pool, Waits
<1>3. CASE SendRest(c) \/ Receive(c)
  <2>1. UNCHANGED <<tasks, apps, pool>>
    BY <1>3 DEF SendRest, Receive, answers
  <2>2. \A d \in Connection : coming'[d].request \in {coming[d].request, NoRequest}
    <3>1. coming[c] \in [request : {coming[c].request}, parts : Nat]
      BY DEF HandInv, Fields
    <3>2. coming'[c].request \in {coming[c].request, NoRequest} /\ \A d \in Connection \ {c} : coming'[d] = coming[d]
      BY <1>3, <3>1 DEF SendRest, Receive, Quiet, HandInv, Fields
    <3> QED
      BY <3>2
  <2> QED
    BY <2>1, <2>2, PoolSame DEF PoolInv, tasks, apps, pool, Waits
<1> QED
  BY <1>1, <1>2, <1>3 DEF Client

\* The callbacks change no session that a thread serves.
LEMMA CallbackPool ==
  ASSUME HandInv, PoolInv, NEW c \in Connection, Callback(c)
  PROVE  PoolInv'
<1>1. UNCHANGED <<thread, app, ask, databases>>
  BY DEF Callback, HandleAccept, HandleHandshake, HandleRead, answers, apps, pool
<1>2. \A u \in Thread : ~ Serves(c, u)
  <2>1. session[c].life # "open" \/ session[c].reading
    BY DEF Callback, HandleAccept, HandleHandshake, HandleRead
  <2> QED
    BY <2>1 DEF HandInv, Alone, Kept
<1>3. \A d \in Connection \ {c} : session'[d] = session[d]
  BY DEF Callback, HandleAccept, HandleHandshake, HandleRead, HandInv, Fields
<1>4. \A u \in Thread : thread[u].at # "idle" => session'[thread[u].c].request = session[thread[u].c].request
  <2> TAKE u \in Thread
  <2>1. thread[u].at # "idle" => thread[u].c \in Connection \ {c}
    BY <1>2, ServedSession DEF Serves
  <2> QED
    BY <1>3, <2>1
<1>5. \A d \in Connection : coming'[d].request = coming[d].request
  <2>1. coming[c] \in [request : {coming[c].request}, parts : Nat]
    BY DEF HandInv, Fields
  <2>2. coming' = coming \/ coming' = [coming EXCEPT ![c].parts = 0]
    BY DEF Callback, HandleAccept, HandleHandshake, HandleRead
  <2> QED
    BY <2>1, <2>2 DEF HandInv, Fields
<1> QED
  BY <1>1, <1>4, <1>5, PoolSame DEF PoolInv, Waits

\* Two tasks have different sessions.
LEMMA OtherTask ==
  ASSUME HandInv, NEW t \in Thread, NEW u \in Thread \ {t}, thread[t].at # "idle", thread[u].at # "idle"
  PROVE  thread[u].c \in Connection /\ thread[u].c # thread[t].c
<1>1. thread[t].c \in Connection /\ thread[u].c \in Connection
  BY ServedSession
<1> QED
  BY <1>1 DEF HandInv, Alone, Serves

\* A task begins, or goes on before the answer.
LEMMA TaskPool ==
  ASSUME HandInv, FileInv, PoolInv, NEW t \in Thread,
         TakeTask(t) \/ HandleParts(t) \/ LockTransactions(t) \/ CopyPart(t)
  PROVE  PoolInv'
<1>1. UNCHANGED <<coming, app, ask, databases>> /\ thread[t].at # "answer" /\ Outside(t)
  <2>1. UNCHANGED <<coming, answers>> /\ thread[t].at # "answer"
    BY DEF TakeTask, HandleParts, LockTransactions, CopyPart, Idle, NoTask
  <2> QED
    BY <2>1 DEF answers, apps, pool, PoolInv, Applies
<1>2. Locked' /\ AppForm' /\ \A c \in Connection : \A r \in {coming'[c].request} : Waits(c)' => Proper(r)
  BY <1>1 DEF PoolInv, Locked, Has, AppForm, Waits
<1>3. ASSUME thread'[t].at # "answer" PROVE Applies(t)'
  BY <1>1, <1>3 DEF Applies, Outside
<1>4. CASE TakeTask(t)
  <2>1. UNCHANGED session /\ thread'[t].at = "handle" /\ \A u \in Thread \ {t} : thread'[u] = thread[u]
    BY <1>4 DEF TakeTask, HandInv, Fields
  <2> QED
    BY <1>1, <1>2, <1>3, <2>1, PoolKept DEF Tends
<1>5. CASE HandleParts(t) \/ LockTransactions(t) \/ CopyPart(t)
  <2>1. PICK c \in Connection : c = thread[t].c /\ thread[t].at # "idle"
    BY <1>5, ServedSession DEF HandleParts, LockTransactions, CopyPart
  <2>2. ASSUME NEW r, Proper(r), r.method # "DELETE", NEW s, s.request = r, NEW at, at # "answer", Proceed(t, s, at)
        PROVE  PoolInv'
    <3>1. /\ session'[c] = s /\ \A d \in Connection \ {c} : session'[d] = session[d]
          /\ thread'[t].c = c /\ thread'[t].at = at /\ \A u \in Thread \ {t} : thread'[u] = thread[u]
      BY <2>1, <2>2, Proceeds
    <3>2. Tends(t)'
      BY <2>2, <3>1 DEF Tends
    <3> QED
      BY <1>1, <1>2, <1>3, <2>1, <2>2, <3>1, <3>2, OtherTask, PoolKept
  <2>3. ASSUME NEW s, Leave(t, s)
        PROVE  PoolInv'
    <3>1. /\ \A d \in Connection \ {c} : session'[d] = session[d]
          /\ thread'[t].at = "idle" /\ \A u \in Thread \ {t} : thread'[u] = thread[u]
      BY <2>1, <2>3, Leaves
    <3>2. Tends(t)'
      BY <3>1 DEF Tends
    <3> QED
      BY <1>1, <1>2, <1>3, <2>1, <3>1, <3>2, OtherTask, PoolKept
  <2>4. CASE HandleParts(t)
    <3>1. PICK r : r = coming[c].request
      OBVIOUS
    <3>2. Proper(r)
      <4>1. thread[t].at = "handle" /\ Reads(c) /\ Serves(c, t)
        BY <2>1, <2>4, Tasked DEF HandleParts
      <4>2. PICK p \in Nat \ {0} : Unread(c, p)
        BY <4>1 DEF Reads
      <4>3. Waits(c)
        BY <4>2 DEF Unread
      <4> QED
        BY <3>1, <4>3 DEF PoolInv
    <3>3. PICK s : s = [session[c] EXCEPT !.request = r, !.got = @ + thread[t].parts]
      OBVIOUS
    <3>4. PICK w : w = [s EXCEPT !.temp = s.got]
      OBVIOUS
    <3>5. s.request = r /\ w.request = r
      BY <2>1, <3>3, <3>4, ServedSession DEF IsSession
    <3>6. \/ Leave(t, Delete) \/ Leave(t, ReadMore(w))
          \/ r.method \in {"GET", "OPTIONS"} /\ Proceed(t, s, "respond")
          \/ r.method = "POST" /\ Proceed(t, w, "append")
      BY <2>1, <2>4, <3>1, <3>3, <3>4 DEF HandleParts
    <3> QED
      BY <2>2, <2>3, <3>2, <3>5, <3>6
  <2>5. CASE LockTransactions(t) \/ CopyPart(t)
    <3>1. PICK r : r = session[c].request
      OBVIOUS
    <3>2. Proper(r) /\ r.method # "DELETE"
      BY <2>1, <2>5, <3>1 DEF LockTransactions, CopyPart, PoolInv, Tends
    <3>3. \/ Proceed(t, session[c], "copy") \/ Proceed(t, session[c], "respond")
          \/ UNCHANGED <<session, thread>>
      BY <2>1, <2>5 DEF LockTransactions, CopyPart
    <3>4. CASE UNCHANGED <<session, thread>>
      BY <1>1, <3>4, PoolSame DEF PoolInv, Waits
    <3> QED
      BY <2>2, <3>1, <3>2, <3>3, <3>4
  <2> QED
    BY <1>5, <2>4, <2>5
<1> QED
  BY <1>4, <1>5

\* An answer begins.
LEMMA RespondPool ==
  ASSUME HandInv, FileInv, PoolInv, NEW t \in Thread, HandleResponse(t)
  PROVE  PoolInv'
<1>1. PICK c \in Connection : c = thread[t].c /\ thread[t].at = "respond"
  BY ServedSession DEF HandleResponse
<1>2. PICK r : r = session[c].request
  OBVIOUS
<1>3. Proper(r) /\ r.method # "DELETE" /\ Outside(t)
  BY <1>1, <1>2 DEF PoolInv, Tends, Applies
<1>4. Proceed(t, session[c], "answer") /\ NewResponse(t, r) /\ UNCHANGED <<coming, databases, signal>>
  BY <1>1, <1>2 DEF HandleResponse
<1>5. /\ session'[c] = session[c] /\ \A d \in Connection \ {c} : session'[d] = session[d]
      /\ thread'[t].c = c /\ thread'[t].at = "answer" /\ \A u \in Thread \ {t} : thread'[u] = thread[u]
  BY <1>1, <1>4, Proceeds
<1>6. PICK a : a = [NoApp EXCEPT !.n = 1, !.in = "start"] /\ Do(t, a)
  BY <1>4 DEF NewResponse, Do
<1>7. {"n", "in"} \subseteq DOMAIN a /\ a.n = 1 /\ a.in = "start"
  BY <1>6 DEF NoApp
<1>8. Puts(t, 1, "start")
  BY <1>6, <1>7, DoPuts DEF PoolInv
<1>9. PoolMove(t)
  BY <1>3, <1>4 DEF NewResponse, Call, PoolMove, Begins, pool
<1>10. Locked' /\ \A u \in Thread \ {t} : ask'[u] = ask[u]
  BY <1>9, LockedStep DEF PoolInv
<1>11. Tends(t)' /\ Applies(t)' /\ AppForm'
  BY <1>2, <1>3, <1>5, <1>8 DEF Tends, Applies, Puts, AppForm
<1>12. \A d \in Connection : \A q \in {coming'[d].request} : Waits(d)' => Proper(q)
  BY <1>4 DEF PoolInv, Waits
<1>13. \A u \in Thread \ {t} : /\ app'[u].n = app[u].n /\ app'[u].in = app[u].in
                               /\ thread[u].at # "idle" => session'[thread[u].c].request = session[thread[u].c].request
  BY <1>1, <1>5, <1>8, OtherTask DEF Puts
<1> QED
  BY <1>5, <1>10, <1>11, <1>12, <1>13, PoolKept

\* An answer ends when its handle is given back.
LEMMA EndPool ==
  ASSUME HandInv, FileInv, PoolInv, NEW t \in Thread, HandleException(t) \/ CloseOrRestart(t)
  PROVE  PoolInv'
<1>1. PICK c \in Connection : c = thread[t].c /\ thread[t].at = "answer"
  BY ServedSession DEF HandleException, CloseOrRestart
<1>2. PICK s : Leave(t, s)
  BY DEF HandleException, CloseOrRestart
<1>3. UNCHANGED <<coming, databases, ask>> /\ Outside(t) /\ Do(t, NoApp)
  BY DEF HandleException, CloseOrRestart, Forgotten, At, Resting, pool, Do
<1>4. /\ \A d \in Connection \ {c} : session'[d] = session[d]
      /\ thread'[t].at = "idle" /\ \A u \in Thread \ {t} : thread'[u] = thread[u]
  BY <1>1, <1>2, Leaves
<1>5. Puts(t, NoApp.n, NoApp.in)
  BY <1>3, DoPuts DEF PoolInv, NoApp
<1>6. Locked' /\ Tends(t)' /\ Applies(t)' /\ AppForm'
  BY <1>3, <1>4, <1>5 DEF PoolInv, Locked, Has, Tends, Applies, Outside, Puts, AppForm
<1>7. \A d \in Connection : \A q \in {coming'[d].request} : Waits(d)' => Proper(q)
  BY <1>3 DEF PoolInv, Waits
<1>8. \A u \in Thread \ {t} : /\ app'[u].n = app[u].n /\ app'[u].in = app[u].in
                              /\ thread[u].at # "idle" => session'[thread[u].c].request = session[thread[u].c].request
  BY <1>1, <1>4, <1>5, OtherTask DEF Puts
<1> QED
  BY <1>3, <1>4, <1>6, <1>7, <1>8, PoolKept

\* The steps of an answer.
LEMMA AnswerPool ==
  ASSUME HandInv, FileInv, PoolInv, NEW t \in Thread, Answer(t)
  PROVE  PoolInv'
<1>1. PICK c \in Connection : c = thread[t].c /\ thread[t].at = "answer"
  BY ServedSession DEF Answer
<1>2. PICK r : r = session[c].request
  OBVIOUS
<1>3. Answering(t, r) /\ Tends(t)
  BY <1>1, <1>2 DEF PoolInv, Tends, Applies, Answering
<1>4. UNCHANGED <<coming, session, thread>>
  BY DEF Answer, tasks
<1>5. (PoolMove(t) \/ PoolStep(t)) /\ (UNCHANGED app \/ AppMove(t, r))
  <2>1. CASE ResponseStep(t, c, r)
    BY <1>3, <2>1, PlainMoves, AuthenticationMoves, StorageMoves, JSONMoves, ResponseMoves DEF ResponseStep, AppStep
  <2>2. CASE PoolStep(t) /\ UNCHANGED <<response, apps, authentication>>
    BY <2>2 DEF apps
  <2>3. CASE AuthenticationStep(t) /\ UNCHANGED <<response, apps>>
    BY <2>3, MethodMoves DEF apps
  <2> QED
    BY <1>1, <1>2, <2>1, <2>2, <2>3 DEF Answer
<1>6. Locked' /\ \A u \in Thread \ {t} : ask'[u] = ask[u]
  BY <1>5, LockedStep DEF PoolInv
<1>7. Applies(t)' /\ AppForm' /\ \A u \in Thread \ {t} : app'[u].n = app[u].n /\ app'[u].in = app[u].in
  <2>1. CASE UNCHANGED app
    BY <1>1, <1>4, <2>1 DEF PoolInv, Applies, AppForm
  <2>2. CASE AppMove(t, r)
    <3>1. PICK n, in : /\ n \in Nat \ {0} /\ Puts(t, n, in)
                       /\ n = 1 => in \in {"start", "decided", "content", "written"}
                       /\ n # 1 => r.method # "OPTIONS"
      <4>1. app[t].n \in Nat \ {0} /\ app[t].n + 1 \in Nat \ {0} /\ app[t].n + 1 # 1
            /\ (app[t].n # 1 => r.method # "OPTIONS")
        BY <1>3 DEF Answering
      <4>2. CASE \E in : Puts(t, app[t].n, in) /\ (app[t].n = 1 => in \in {"start", "decided", "content", "written"})
        BY <4>1, <4>2
      <4>3. CASE Puts(t, app[t].n + 1, "start") /\ (app[t].n = 1 => r.method # "OPTIONS")
        BY <4>1, <4>3
      <4> QED
        BY <2>2, <4>2, <4>3 DEF AppMove
    <3>2. AppForm' /\ app'[t].n = n /\ app'[t].in = in /\ \A u \in Thread \ {t} : app'[u].n = app[u].n /\ app'[u].in = app[u].in
      BY <3>1, Zenon DEF Puts, AppForm
    <3>3. thread'[t].at = "answer" /\ session'[thread'[t].c].request = r
      BY <1>1, <1>2, <1>4
    <3>4. Applies(t)'
      BY <3>1, <3>2, <3>3 DEF Applies
    <3> QED
      BY <3>2, <3>4
  <2> QED
    BY <1>5, <2>1, <2>2
<1>8. Tends(t)'
  BY <1>3, <1>4 DEF Tends
<1>9. \A d \in Connection : \A q \in {coming'[d].request} : Waits(d)' => Proper(q)
  BY <1>4 DEF PoolInv, Waits
<1> QED
  BY <1>4, <1>6, <1>7, <1>8, <1>9, PoolKept

\* Every step keeps the handles.
LEMMA NextPool == HandInv /\ FileInv /\ PoolInv /\ [Next]_vars => PoolInv'
<1> SUFFICES ASSUME HandInv, FileInv, PoolInv, [Next]_vars PROVE PoolInv'
  OBVIOUS
<1>1. ASSUME UNCHANGED <<coming, tasks, app, ask, databases>> PROVE PoolInv'
  BY <1>1, PoolSame DEF PoolInv, tasks, Waits
<1>2. ASSUME NEW t \in Thread, Serving(t) PROVE PoolInv'
  BY <1>2, TaskPool, RespondPool, AnswerPool, EndPool DEF Serving, Task
<1>3. CASE Expires
  BY <1>1, <1>3 DEF Expires, Expire, apps, pool
<1>4. CASE UNCHANGED vars
  BY <1>1, <1>4 DEF vars, answers, apps, pool
<1> QED
  BY <1>2, <1>3, <1>4, ClientPool, CallbackPool DEF Next, Calling

\* Each handle on the database is had by one thread at a time, which answers a
\* request; the lock of a handle that no answering thread has is free, so that
\* none is lost to a request that ended, whichever way it did
\* (Server::requestDatabase, releaseDatabase, ScopedDatabase).
OneHolder ==
  /\ \A t, u \in Thread : Holds(t) /\ Holds(u) /\ ask[t].i = ask[u].i => t = u
  /\ \A i \in DOMAIN databases :
       databases[i] # NoThread =>
         \E t \in Thread : thread[t].at = "answer" /\ ask[t].at \in {"held", "unlock"} /\ ask[t].i = i

\* No two threads have one handle, and no handle stays locked, for any number of
\* handles, threads and connections (Server::requestDatabase, releaseDatabase).
THEOREM HandlesCorrect == Spec => []OneHolder
<1>1. PoolInv => OneHolder
  BY PoolAssumption DEF PoolInv, Locked, Has, Holds, Applies, Outside, OneHolder
<1> QED
  BY <1>1, InitHand, NextHand, InitFile, NextFile, InitPool, NextPool, PTL DEF Spec
=============================================================================
