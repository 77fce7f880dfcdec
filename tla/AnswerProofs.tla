---------------------------- MODULE AnswerProofs ----------------------------
(***************************************************************************)
(* The clients of Server get what is their own, for any connections,       *)
(* threads, browsers and plans of the clients.  The argument: a user is    *)
(* that of one secret, however long ago a method read it (Belongs), so     *)
(* that whoever is logged on is logged on with the secret of his request   *)
(* (WhoInv); and a text that nobody changes is one that its user posted,   *)
(* which whoever reads it reads to the end, or is told that it is mixed    *)
(* (TextInv).                                                              *)
(***************************************************************************)
EXTENDS TypeProofs, WellFoundedInduction

\* A request to log on.
Entering(r) == r.method = "POST" /\ Asked(r) = "logon"

-----------------------------------------------------------------------------
(* Who is logged on: the invariant. *)

\* User u is created and is that of secret x, if x is none that two found without a user.
Belongs(u, x) ==
  /\ u \in 1 .. made.users /\ x \in Secret
  /\ \A t \in Thread : auth[t].in = "secret" => auth[t].user # u
  /\ \A y \in Secret : secrets[y] = u => y = x
  /\ x \notin raced.secrets => secrets[x] = u

\* A session id that was given has a user as long as it has a time, but one that was cleared meanwhile.
OldId(i) ==
  /\ i \in 1 .. made.sessions
  /\ seen[i].last = "none" => seen[i].user = NoUser
  /\ seen[i].last # "none" /\ seen[i].user = NoUser => i \in raced.ids

SessionOf(i, x) ==
  /\ OldId(i) /\ x \in Secret
  /\ \A u \in {seen[i].user} : u # NoUser => Belongs(u, x)

\* Who sends the cookie is who got it, and whoever enters does so with his secret.
Seen(r) ==
  /\ r.cookie # NoSession => OldId(r.cookie) /\ (~ Entering(r) => SessionOf(r.cookie, r.owner))
  /\ Entering(r) /\ r.secret # "" => r.owner = r.secret

\* An id and a user are those of x.
LoggedOn(i, u, x) ==
  /\ SessionOf(i, x)
  /\ IF u = NoUser THEN i \in raced.ids ELSE Belongs(u, x)

Logons == {"logon", "create", "secret", "session", "last"}

\* A session id is stored, and its time is not.
Begun(i, u) == i \in 1 .. made.sessions /\ seen[i] = [user |-> u, last |-> "none"]

\* Nothing is left to find out of who asks.
Past(a, p) == a.in = "none" /\ p.in # "thrown" /\ (p.in = "start" => p.n \notin {1, 2})

\* Who enters, with authentication a and application p, and how far he is.
Enters(a, p, r) ==
  /\ a.in \in Logons => Entering(r) /\ a.secret = r.owner /\ p.in = "status"
  /\ Entering(r) /\ a.in \notin Logons \cup {"none"} => p.in = "start" /\ p.n \in {1, 2}
  /\ a.in = "secret" => a.user \in 1 .. made.users
  /\ a.in \in {"session", "last"} => Belongs(a.user, r.owner)
  /\ a.in = "last" => Begun(a.id, a.user)
  /\ Entering(r) /\ Past(a, p) => LoggedOn(a.id, a.user, r.owner)

\* Who has a cookie, and whom it shows.
Shows(a, r) ==
  /\ a.in # "last" /\ a.id # NoSession => OldId(a.id)
  /\ a.in \in {"authenticate", "time"} => ~ a.ok
  /\ ~ Entering(r) /\ a.id # NoSession => SessionOf(a.id, r.owner)
  /\ ~ Entering(r) /\ a.user # NoUser => Belongs(a.user, r.owner)
  /\ a.ok /\ a.in = "none" /\ a.user = NoUser => a.id \in raced.ids

Stands(t) == \A a \in {auth[t]}, p \in {app[t]}, r \in {Req(t)} : Enters(a, p, r) /\ Shows(a, r)

Users == \A x \in Secret : \A u \in {secrets[x]} : u # NoUser => Belongs(u, x)
Ids == \A i \in SessionId : i > made.sessions => seen[i] = Cleared
Apart ==
  \A t, o \in Thread : t # o => /\ auth[t].in = "secret" /\ auth[o].in = "secret" => auth[t].user # auth[o].user
                                /\ auth[t].in = "last" /\ auth[o].in = "last" => auth[t].id # auth[o].id
Known == \A x \in Secret \ raced.secrets : known[x] \in {NoUser, secrets[x]}
Cookied == \A b \in Browser : \A k \in {cookie[b]} : k = NoCookie \/ SessionOf(k.id, k.secret)
Asking ==
  /\ \A c \in Connection : \A r \in {coming[c].request} : Waits(c) => Seen(r)
  /\ \A t \in Thread : \A r \in {Req(t)} : Late(t) => Seen(r)
Entered == \A t \in Thread : thread[t].at = "answer" => Stands(t)
Granted ==
  \A c \in Connection : \A a \in {answer[c]}, x \in {coming[c].request.owner} :
    Told(c) /\ a.ok => LoggedOn(a.id, a.user, x)

WhoInv == Users /\ Ids /\ Apart /\ Known /\ Cookied /\ Asking /\ Entered /\ Granted

\* What the other proofs have shown.
Base == HandInv /\ FileInv /\ PoolInv /\ TypeInv

LEMMA NextBase == Base /\ [Next]_vars => Base'
BY NextHand, NextFile, NextPool, NextTypes DEF Base

-----------------------------------------------------------------------------
(* What the methods do. *)

\* All but the method.
Same(a, b) == b.ok = a.ok /\ b.id = a.id /\ b.user = a.user /\ b.secret = a.secret

\* The method that t is in goes on, or returns.
LEMMA GoesOn ==
  ASSUME Secured, NEW t \in Thread, NEW a, IsAuth(a), NEW in, Go(t, a, in) \/ (in = "none" /\ Return(t, a))
  PROVE  auth'[t].in = in /\ Same(a, auth'[t])
<1>1. auth' = [auth EXCEPT ![t] = [a EXCEPT !.in = in]]
  BY DEF Go, Return
<1>2. auth'[t] = [a EXCEPT !.in = in]
  BY <1>1 DEF Secured
<1> QED
  BY <1>2 DEF IsAuth, Auths, Same

\* The methods that find out who asks.
LEMMA AuthenticateDoes ==
  ASSUME Secured, NEW t \in Thread, NEW a, a = auth[t], NEW b, b = auth'[t]
  PROVE  /\ Authenticate(t) => a.in = "authenticate" /\ b.in \in {"time", "none"} /\ Same(a, b) /\ UNCHANGED <<secrets, seen, made, raced>>
         /\ CheckTime(t) => /\ a.in = "time" /\ UNCHANGED <<secrets, seen, made, raced>>
                            /\ (b.in = "none" /\ Same(a, b)) \/ (b.in = "stamp" /\ b.id = a.id /\ b.user = a.user)
<1>1. IsAuth(a) /\ a \in Auths
  BY DEF Secured, IsAuth
<1>2. CASE Authenticate(t)
  <2>1. a.in = "authenticate" /\ UNCHANGED <<secrets, seen, made, raced>> /\ (Go(t, a, "time") \/ Return(t, a))
    BY <1>2 DEF Authenticate, In
  <2>2. b.in \in {"time", "none"} /\ Same(a, b)
    BY <1>1, <2>1, GoesOn
  <2>3. ~ CheckTime(t)
    BY <2>1 DEF CheckTime, In
  <2> QED
    BY <2>1, <2>2, <2>3
<1>3. CASE CheckTime(t)
  <2> DEFINE d == [a EXCEPT !.ok = TRUE]
  <2>1. a.in = "time" /\ UNCHANGED <<secrets, seen, made, raced>> /\ (Go(t, d, "stamp") \/ Return(t, a))
    BY <1>3 DEF CheckTime, In
  <2>2. IsAuth(d) /\ d.id = a.id /\ d.user = a.user
    BY <1>1, <2>1 DEF IsAuth, Auths
  <2>3. ~ Authenticate(t)
    BY <2>1 DEF Authenticate, In
  <2> HIDE DEF d
  <2>4. (b.in = "none" /\ Same(a, b)) \/ (b.in = "stamp" /\ Same(d, b))
    <3>1. CASE Go(t, d, "stamp")
      BY <2>2, <3>1, GoesOn
    <3>2. CASE Return(t, a)
      BY <1>1, <3>2, GoesOn
    <3> QED
      BY <2>1, <3>1, <3>2
  <2> QED
    BY <2>1, <2>2, <2>3, <2>4 DEF Same
<1> QED
  BY <1>2, <1>3

\* The id of t is seen now, and was cleared meanwhile if it was not seen.
LEMMA StampDoes ==
  ASSUME Secured, NEW t \in Thread, NEW a, a = auth[t], NEW b, b = auth'[t], StampTime(t) \/ ReadUser(t)
  PROVE  /\ a.id \in SessionId /\ UNCHANGED <<secrets, made>> /\ b.ok = a.ok /\ b.id = a.id
         /\ raced'.secrets = raced.secrets /\ raced.ids \subseteq raced'.ids
         /\ seen[a.id].last = "none" => a.id \in raced'.ids
         /\ \/ /\ StampTime(t) /\ a.in = "stamp" /\ b.in = "user" /\ b.user = a.user
               /\ \A i \in SessionId : seen'[i] = IF i = a.id THEN [user |-> seen[i].user, last |-> "fresh"] ELSE seen[i]
            \/ ReadUser(t) /\ a.in = "user" /\ b.in = "none" /\ b.user = seen[a.id].user /\ UNCHANGED seen
<1>1. IsAuth(a) /\ a \in Auths /\ a.in \in {"stamp", "user"} /\ a.id \in SessionId
  BY DEF Secured, IsAuth, Auths, StampTime, ReadUser, In
<1>2. UNCHANGED <<secrets, made>> /\ raced' = IF seen[a.id].last = "none" THEN [raced EXCEPT !.ids = @ \cup {a.id}] ELSE raced
  BY DEF StampTime, ReadUser
<1>3. raced'.secrets = raced.secrets /\ raced.ids \subseteq raced'.ids /\ (seen[a.id].last = "none" => a.id \in raced'.ids)
  BY <1>2 DEF Secured, Recorded
<1>4. CASE StampTime(t)
  <2>1. Go(t, a, "user") /\ a.in = "stamp" /\ seen' = [seen EXCEPT ![a.id].last = "fresh"]
    BY <1>4 DEF StampTime, In
  <2>2. \A i \in SessionId : seen'[i] = IF i = a.id THEN [user |-> seen[i].user, last |-> "fresh"] ELSE seen[i]
    BY <1>1, <2>1 DEF Secured, Recorded
  <2> QED
    BY <1>1, <1>2, <1>3, <1>4, <2>1, <2>2, GoesOn DEF Same
<1>5. CASE ReadUser(t)
  <2> DEFINE d == [a EXCEPT !.user = seen[a.id].user]
  <2>1. Return(t, d) /\ a.in = "user" /\ UNCHANGED seen
    BY <1>5 DEF ReadUser, In
  <2>2. IsAuth(d) /\ d.id = a.id /\ d.user = seen[a.id].user /\ d.ok = a.ok
    BY <1>1, <2>1 DEF IsAuth, Auths, Secured, Recorded
  <2> HIDE DEF d
  <2> QED
    BY <1>1, <1>2, <1>3, <1>5, <2>1, <2>2, GoesOn DEF Same
<1> QED
  BY <1>4, <1>5

\* The first methods of a logon.
LEMMA LogonDoes ==
  ASSUME Secured, NEW t \in Thread, NEW a, a = auth[t], NEW b, b = auth'[t], Logon(t) \/ CreateUser(t)
  PROVE  /\ a.secret \in Secret /\ UNCHANGED <<secrets, seen, raced>> /\ b.ok = a.ok /\ b.id = a.id /\ b.secret = a.secret
         /\ \/ /\ Logon(t) /\ a.in = "logon" /\ UNCHANGED made
               /\ \/ b.in = "create" /\ b.user = a.user
                  \/ b.in = "session" /\ b.user = secrets[a.secret] /\ b.user # NoUser
            \/ /\ CreateUser(t) /\ a.in = "create" /\ b.in = "secret"
               /\ b.user = made.users + 1 /\ made'.users = made.users + 1 /\ made'.sessions = made.sessions
<1>1. IsAuth(a) /\ a \in Auths /\ a.secret \in Secret
  BY DEF Secured, IsAuth, Logon, CreateUser, In
<1>2. UNCHANGED <<secrets, seen, raced>>
  BY DEF Logon, CreateUser
<1>3. CASE Logon(t)
  <2> DEFINE d == [a EXCEPT !.user = secrets[a.secret]]
  <2>1. a.in = "logon" /\ UNCHANGED made /\ (Go(t, a, "create") \/ (secrets[a.secret] # NoUser /\ Go(t, d, "session")))
    BY <1>3 DEF Logon, In
  <2>2. IsAuth(d) /\ d.id = a.id /\ d.user = secrets[a.secret] /\ d.ok = a.ok /\ d.secret = a.secret
    BY <1>1, <2>1 DEF IsAuth, Auths, Secured, Recorded
  <2> HIDE DEF d
  <2>3. (b.in = "create" /\ Same(a, b)) \/ (secrets[a.secret] # NoUser /\ b.in = "session" /\ Same(d, b))
    BY <1>1, <2>1, <2>2, GoesOn
  <2> QED
    BY <1>1, <1>2, <1>3, <2>1, <2>2, <2>3 DEF Same
<1>4. CASE CreateUser(t)
  <2> DEFINE n == made.users + 1
             d == [a EXCEPT !.user = n]
  <2>1. a.in = "create" /\ n \in User /\ made' = [made EXCEPT !.users = n] /\ Go(t, d, "secret")
    BY <1>4 DEF CreateUser, In
  <2>2. IsAuth(d) /\ d.id = a.id /\ d.user = n /\ d.ok = a.ok /\ d.secret = a.secret
    BY <1>1, <2>1 DEF IsAuth, Auths, Secured, Recorded
  <2>3. made'.users = n /\ made'.sessions = made.sessions
    BY <2>1 DEF Secured, Recorded
  <2> HIDE DEF d
  <2>4. b.in = "secret" /\ Same(d, b)
    BY <1>1, <2>1, <2>2, GoesOn
  <2> QED
    BY <1>1, <1>2, <1>4, <2>1, <2>2, <2>3, <2>4 DEF Same
<1> QED
  BY <1>3, <1>4

\* A secret is given its user.
LEMMA SecretDoes ==
  ASSUME Secured, NEW t \in Thread, NEW a, a = auth[t], NEW b, b = auth'[t], StoreSecret(t)
  PROVE  /\ a.secret \in Secret /\ a.in = "secret" /\ b.in = "session" /\ Same(a, b) /\ UNCHANGED <<seen, made>>
         /\ \A x \in Secret : secrets'[x] = IF x = a.secret THEN a.user ELSE secrets[x]
         /\ raced'.ids = raced.ids /\ raced.secrets \subseteq raced'.secrets
         /\ secrets[a.secret] # NoUser => a.secret \in raced'.secrets
<1>1. IsAuth(a) /\ a \in Auths /\ a.secret \in Secret /\ a.in = "secret"
  BY DEF Secured, IsAuth, StoreSecret, In
<1>2. /\ UNCHANGED <<seen, made>> /\ Go(t, a, "session")
      /\ secrets' = [secrets EXCEPT ![a.secret] = a.user]
      /\ raced' = IF secrets[a.secret] # NoUser THEN [raced EXCEPT !.secrets = @ \cup {a.secret}] ELSE raced
  BY DEF StoreSecret
<1>3. raced'.ids = raced.ids /\ raced.secrets \subseteq raced'.secrets
      /\ (secrets[a.secret] # NoUser => a.secret \in raced'.secrets)
  BY <1>2 DEF Secured, Recorded
<1>4. \A x \in Secret : secrets'[x] = IF x = a.secret THEN a.user ELSE secrets[x]
  BY <1>2 DEF Secured, Recorded
<1> QED
  BY <1>1, <1>2, <1>3, <1>4, GoesOn

\* A session id is given its user, and then its time.
LEMMA SessionDoes ==
  ASSUME Secured, NEW t \in Thread, NEW a, a = auth[t], NEW b, b = auth'[t], StoreSession(t) \/ StoreLast(t)
  PROVE  /\ UNCHANGED <<secrets, raced>> /\ b.user = a.user /\ b.secret = a.secret /\ b.id \in SessionId
         /\ \/ /\ StoreSession(t) /\ a.in = "session" /\ b.in = "last"
               /\ b.id = made.sessions + 1 /\ made'.sessions = b.id /\ made'.users = made.users
               /\ \A i \in SessionId : seen'[i] = IF i = b.id THEN [user |-> a.user, last |-> seen[i].last] ELSE seen[i]
            \/ /\ StoreLast(t) /\ a.in = "last" /\ b.in = "none" /\ b.ok /\ b.id = a.id /\ UNCHANGED made
               /\ \A i \in SessionId : seen'[i] = IF i = b.id THEN [user |-> seen[i].user, last |-> "fresh"] ELSE seen[i]
<1>1. IsAuth(a) /\ a \in Auths /\ a.in \in {"session", "last"}
  BY DEF Secured, IsAuth, StoreSession, StoreLast, In
<1>2. UNCHANGED <<secrets, raced>>
  BY DEF StoreSession, StoreLast
<1>3. CASE StoreSession(t)
  <2>1. PICK i \in SessionId : /\ i = made.sessions + 1 /\ seen' = [seen EXCEPT ![i].user = a.user]
                               /\ made' = [made EXCEPT !.sessions = i] /\ Go(t, [a EXCEPT !.id = i], "last") /\ a.in = "session"
    BY <1>3 DEF StoreSession, In
  <2> DEFINE d == [a EXCEPT !.id = i]
  <2>2. i # NoSession
    BY AuthenticationAssumption DEF SessionId, NoSession
  <2>3. IsAuth(d) /\ d.id = i /\ d.user = a.user /\ d.secret = a.secret
    BY <1>1, <2>1, <2>2 DEF IsAuth, Auths
  <2>4. made'.sessions = i /\ made'.users = made.users
    BY <2>1 DEF Secured, Recorded
  <2>5. \A j \in SessionId : seen'[j] = IF j = i THEN [user |-> a.user, last |-> seen[j].last] ELSE seen[j]
    BY <2>1 DEF Secured, Recorded
  <2>6. Go(t, d, "last")
    BY <2>1
  <2> HIDE DEF d
  <2>7. b.in = "last" /\ Same(d, b)
    BY <2>3, <2>6, GoesOn
  <2> QED
    BY <1>2, <1>3, <2>1, <2>3, <2>4, <2>5, <2>7 DEF Same
<1>4. CASE StoreLast(t)
  <2> DEFINE d == [a EXCEPT !.ok = TRUE]
  <2>1. a.in = "last" /\ UNCHANGED made /\ Return(t, d) /\ seen' = [seen EXCEPT ![a.id].last = "fresh"]
    BY <1>4 DEF StoreLast, In
  <2>2. a.id \in SessionId
    BY <1>1, <2>1 DEF IsAuth, Auths
  <2>3. IsAuth(d) /\ d.id = a.id /\ d.user = a.user /\ d.secret = a.secret /\ d.ok
    BY <1>1, <2>1 DEF IsAuth, Auths
  <2>4. \A j \in SessionId : seen'[j] = IF j = a.id THEN [user |-> seen[j].user, last |-> "fresh"] ELSE seen[j]
    BY <2>1, <2>2 DEF Secured, Recorded
  <2> HIDE DEF d
  <2>5. b.in = "none" /\ Same(d, b)
    BY <2>1, <2>3, GoesOn
  <2> QED
    BY <1>2, <1>4, <2>1, <2>2, <2>3, <2>4, <2>5 DEF Same
<1> QED
  BY <1>3, <1>4

\* A session id is cleared.
LEMMA LogoffDoes ==
  ASSUME Secured, NEW t \in Thread, NEW a, a = auth[t], NEW b, b = auth'[t], Logoff(t)
  PROVE  /\ a.in = "logoff" /\ b.in = "none" /\ ~ b.ok /\ b.id = NoSession /\ b.user = NoUser /\ a.id \in SessionId
         /\ UNCHANGED <<secrets, made, raced>>
         /\ \A i \in SessionId : seen'[i] = IF i = a.id THEN Cleared ELSE seen[i]
<1>1. IsAuth(a) /\ a \in Auths /\ a.in = "logoff" /\ a.id \in SessionId
  BY DEF Secured, IsAuth, Auths, Logoff, In
<1>2. PICK d : d = Forget(a)
  OBVIOUS
<1>3. ~ d.ok /\ d.id = NoSession /\ d.user = NoUser /\ IsAuth(d)
  BY <1>1, <1>2 DEF Forget, IsAuth, Auths, NoSession, NoUser, Methods
<1>4. Return(t, d) /\ UNCHANGED <<secrets, made, raced>> /\ seen' = [seen EXCEPT ![a.id] = Cleared]
  BY <1>2 DEF Logoff
<1>5. \A i \in SessionId : seen'[i] = IF i = a.id THEN Cleared ELSE seen[i]
  BY <1>1, <1>4 DEF Secured, Recorded
<1>6. b.in = "none" /\ Same(d, b)
  BY <1>3, <1>4, GoesOn
<1> QED
  BY <1>1, <1>3, <1>4, <1>5, <1>6 DEF Same

-----------------------------------------------------------------------------
(* What lasts. *)

\* The counters and the histories grow; who is to be the user of a secret was that before or is new; a secret
\* has such a user, and is no secret of one if it had another; a session id that was given stays what it is, is
\* cleared, or is seen.
Effects ==
  /\ made.users <= made'.users /\ made.sessions <= made'.sessions
  /\ raced.ids \subseteq raced'.ids /\ raced.secrets \subseteq raced'.secrets
  /\ \A o \in Thread : auth'[o].in = "secret" =>
       auth'[o].user > made.users \/ (auth[o].in = "secret" /\ auth'[o].user = auth[o].user)
  /\ \A y \in Secret : secrets'[y] # secrets[y] =>
       /\ secrets[y] # NoUser => y \in raced'.secrets
       /\ \E o \in Thread : auth[o].in = "secret" /\ secrets'[y] = auth[o].user
  /\ \A i \in 1 .. made.sessions :
       \/ seen'[i] = seen[i] \/ seen'[i] = Cleared
       \/ /\ seen'[i].user = seen[i].user /\ seen'[i].last # "none"
          /\ seen[i].last = "none" /\ seen[i].user = NoUser => i \in raced'.ids

\* What is known of users and session ids stays so.
Lasting ==
  /\ \A u, x : Belongs(u, x) => Belongs(u, x)'
  /\ \A i : OldId(i) => OldId(i)'
  /\ \A i, x : SessionOf(i, x) => SessionOf(i, x)'
  /\ \A i, u, x : LoggedOn(i, u, x) => LoggedOn(i, u, x)'
  /\ \A r : Seen(r) => Seen(r)'
  /\ made.users <= made'.users /\ made.sessions <= made'.sessions
  /\ raced.ids \subseteq raced'.ids /\ raced.secrets \subseteq raced'.secrets

LEMMA EffectsLast ==
  ASSUME Secured, Secured', Effects
  PROVE  Lasting
<1>1. /\ made.users \in Nat /\ made'.users \in Nat /\ made.sessions \in 0 .. MaxSession /\ made'.sessions \in Nat /\ MaxSession \in Nat
  BY AuthenticationAssumption DEF Secured, Recorded, User, NoUser, SessionId, NoSession
<1>2. /\ made.users <= made'.users /\ made.sessions <= made'.sessions
      /\ raced.ids \subseteq raced'.ids /\ raced.secrets \subseteq raced'.secrets
  BY DEF Effects
<1>3. ASSUME NEW u, NEW x, Belongs(u, x) PROVE Belongs(u, x)'
  <2>1. u \in 1 .. made'.users /\ x \in Secret /\ u # NoUser
    BY <1>1, <1>2, <1>3 DEF Belongs, NoUser
  <2>2. \A t \in Thread : auth'[t].in = "secret" => auth'[t].user # u
    BY <1>1, <1>3 DEF Belongs, Effects
  <2>3. \A y \in Secret : secrets'[y] = u => secrets[y] = u
    BY <1>3 DEF Belongs, Effects
  <2>4. x \notin raced'.secrets => secrets'[x] = u
    BY <1>2, <1>3, <2>1 DEF Belongs, Effects
  <2> QED
    BY <1>3, <2>1, <2>2, <2>3, <2>4 DEF Belongs
<1>4. ASSUME NEW i, OldId(i) PROVE OldId(i)' /\ (seen'[i].user # NoUser => seen'[i].user = seen[i].user)
  <2>1. i \in 1 .. made.sessions /\ i \in 1 .. made'.sessions
    BY <1>1, <1>2, <1>4 DEF OldId
  <2>2. CASE seen'[i] = seen[i]
    BY <1>2, <1>4, <2>1, <2>2 DEF OldId
  <2>3. CASE seen'[i] = Cleared
    BY <2>1, <2>3 DEF OldId, Cleared
  <2>4. CASE /\ seen'[i].user = seen[i].user /\ seen'[i].last # "none"
             /\ seen[i].last = "none" /\ seen[i].user = NoUser => i \in raced'.ids
    BY <1>2, <1>4, <2>1, <2>4 DEF OldId
  <2> QED
    BY <2>1, <2>2, <2>3, <2>4 DEF Effects
<1>5. ASSUME NEW i, NEW x, SessionOf(i, x) PROVE SessionOf(i, x)'
  <2>1. OldId(i) /\ x \in Secret /\ \A u \in {seen[i].user} : u # NoUser => Belongs(u, x)
    BY <1>5 DEF SessionOf
  <2>2. OldId(i)' /\ (seen'[i].user # NoUser => seen'[i].user = seen[i].user)
    BY <1>4, <2>1
  <2>3. \A u \in {seen'[i].user} : u # NoUser => Belongs(u, x)'
    BY <1>3, <2>1, <2>2
  <2> QED
    BY <2>1, <2>2, <2>3 DEF SessionOf
<1>6. ASSUME NEW i, NEW u, NEW x, LoggedOn(i, u, x) PROVE LoggedOn(i, u, x)'
  BY <1>2, <1>3, <1>5, <1>6 DEF LoggedOn
<1>7. ASSUME NEW r, Seen(r) PROVE Seen(r)'
  BY <1>4, <1>5, <1>7 DEF Seen
<1> QED
  BY <1>2, <1>3, <1>4, <1>5, <1>6, <1>7 DEF Lasting

\* A step that leaves what is kept of users and session ids, and in which nobody creates a user.
LEMMA StillLasts ==
  ASSUME Secured, Secured', UNCHANGED <<secrets, seen, made, raced>>,
         \A o \in Thread : auth'[o].in = "secret" => auth'[o] = auth[o]
  PROVE  Lasting
<1>1. made.users \in Nat /\ made.sessions \in Nat
  BY AuthenticationAssumption DEF Secured, Recorded, User, NoUser, SessionId, NoSession
<1>2. Effects
  BY <1>1 DEF Effects
<1> QED
  BY <1>2, EffectsLast

\* An hour goes by.
LEMMA ExpiresLasts ==
  ASSUME Secured, Secured', Expires
  PROVE  Lasting /\ UNCHANGED <<secrets, made, raced, auth>> /\ \A i \in SessionId : seen[i].last = "none" => seen'[i] = seen[i]
<1>1. made.users \in Nat /\ made.sessions \in 0 .. MaxSession /\ MaxSession \in Nat
  BY AuthenticationAssumption DEF Secured, Recorded, User, NoUser, SessionId, NoSession
<1>2. PICK i \in SessionId : /\ seen[i].last = "fresh" /\ seen' = [seen EXCEPT ![i].last = "old"]
                             /\ UNCHANGED <<secrets, auth, made, raced>>
  BY DEF Expires, Expire
<1>3. \A j \in SessionId : seen'[j] = IF j = i THEN [user |-> seen[j].user, last |-> "old"] ELSE seen[j]
  BY <1>2 DEF Secured, Recorded
<1>4. 1 .. made.sessions \subseteq SessionId
  BY <1>1 DEF SessionId
<1>5. Effects
  BY <1>1, <1>2, <1>3, <1>4 DEF Effects
<1> QED
  BY <1>2, <1>3, <1>5, EffectsLast

\* A method.
LEMMA MethodLasts ==
  ASSUME Secured, Secured', NEW t \in Thread, AuthenticationStep(t), \A o \in Thread \ {t} : auth'[o] = auth[o],
         auth[t].in = "last" => Begun(auth[t].id, auth[t].user) /\ auth[t].user # NoUser
  PROVE  Lasting
<1>1. PICK a, b : a = auth[t] /\ b = auth'[t]
  OBVIOUS
<1>2. made.users \in Nat /\ made.sessions \in 0 .. MaxSession /\ MaxSession \in Nat
  BY AuthenticationAssumption DEF Secured, Recorded, User, NoUser, SessionId, NoSession
<1>3. 1 .. made.sessions \subseteq SessionId
  BY <1>2 DEF SessionId
<1>4. CASE Authenticate(t) \/ CheckTime(t)
  BY <1>1, <1>4, AuthenticateDoes, StillLasts
<1>5. CASE StampTime(t) \/ ReadUser(t)
  <2>1. /\ a.id \in SessionId /\ UNCHANGED <<secrets, made>> /\ raced'.secrets = raced.secrets /\ raced.ids \subseteq raced'.ids
        /\ seen[a.id].last = "none" => a.id \in raced'.ids
        /\ b.in # "secret"
        /\ \/ UNCHANGED seen
           \/ \A i \in SessionId : seen'[i] = IF i = a.id THEN [user |-> seen[i].user, last |-> "fresh"] ELSE seen[i]
    BY <1>1, <1>5, StampDoes
  <2>2. ASSUME NEW i \in SessionId
        PROVE  \/ seen'[i] = seen[i]
               \/ /\ seen'[i].user = seen[i].user /\ seen'[i].last # "none"
                  /\ seen[i].last = "none" /\ seen[i].user = NoUser => i \in raced'.ids
    <3>1. CASE seen'[i] = seen[i]
      BY <3>1
    <3>2. CASE i = a.id /\ seen'[i] = [user |-> seen[i].user, last |-> "fresh"]
      <4>1. seen'[i].user = seen[i].user /\ seen'[i].last = "fresh"
        BY <3>2
      <4> QED
        BY <2>1, <3>2, <4>1
    <3> QED
      BY <2>1, <3>1, <3>2
  <2>3. Effects
    BY <1>1, <1>2, <1>3, <2>1, <2>2 DEF Effects
  <2> QED
    BY <2>3, EffectsLast
<1>6. CASE Logon(t) \/ CreateUser(t)
  <2>1. Effects
    BY <1>1, <1>2, <1>3, <1>6, LogonDoes DEF Effects
  <2> QED
    BY <2>1, EffectsLast
<1>7. CASE StoreSecret(t)
  <2>1. Effects
    BY <1>1, <1>2, <1>3, <1>7, SecretDoes DEF Effects
  <2> QED
    BY <2>1, EffectsLast
<1>8. CASE StoreSession(t) \/ StoreLast(t)
  <2>1. /\ UNCHANGED <<secrets, raced>> /\ b.in # "secret" /\ made'.users = made.users /\ made.sessions <= made'.sessions
        /\ \/ \A i \in SessionId : i # made.sessions + 1 => seen'[i] = seen[i]
           \/ /\ a.in = "last"
              /\ \A i \in SessionId : seen'[i] = IF i = a.id THEN [user |-> seen[i].user, last |-> "fresh"] ELSE seen[i]
    <3>1. /\ UNCHANGED <<secrets, raced>>
          /\ \/ /\ b.in = "last" /\ b.id = made.sessions + 1 /\ made'.sessions = b.id /\ made'.users = made.users
                /\ \A i \in SessionId : seen'[i] = IF i = b.id THEN [user |-> a.user, last |-> seen[i].last] ELSE seen[i]
             \/ /\ a.in = "last" /\ b.in = "none" /\ b.id = a.id /\ UNCHANGED made
                /\ \A i \in SessionId : seen'[i] = IF i = b.id THEN [user |-> seen[i].user, last |-> "fresh"] ELSE seen[i]
      BY <1>1, <1>8, SessionDoes
    <3>2. CASE a.in = "last" /\ b.in = "none" /\ b.id = a.id /\ UNCHANGED made
      BY <1>2, <3>1, <3>2
    <3>3. CASE b.in = "last"
      <4>1. made'.sessions = made.sessions + 1 /\ made'.users = made.users /\ b.id = made.sessions + 1
        BY <3>1, <3>3
      <4>2. \A i \in SessionId : i # made.sessions + 1 => seen'[i] = seen[i]
        BY <3>1, <3>3, <4>1
      <4> QED
        BY <1>2, <3>1, <3>3, <4>1, <4>2
    <3> QED
      BY <3>1, <3>2, <3>3
  <2>2. ASSUME NEW i \in 1 .. made.sessions
        PROVE  seen'[i] = seen[i] \/ (seen'[i].user = seen[i].user /\ seen'[i].last # "none" /\ seen[i].user # NoUser)
    <3>1. i \in SessionId /\ i # made.sessions + 1
      BY <1>2, <1>3
    <3>2. CASE a.in = "last" /\ i = a.id /\ seen'[i] = [user |-> seen[i].user, last |-> "fresh"]
      <4>1. seen'[i].user = seen[i].user /\ seen'[i].last = "fresh"
        BY <3>2
      <4>2. seen[i].user = a.user /\ a.user # NoUser
        BY <1>1, <3>2 DEF Begun
      <4> QED
        BY <4>1, <4>2
    <3> QED
      BY <2>1, <3>1, <3>2
  <2>3. Effects
    BY <1>1, <1>2, <2>1, <2>2 DEF Effects
  <2> QED
    BY <2>3, EffectsLast
<1>9. CASE Logoff(t)
  <2>1. Effects
    BY <1>1, <1>2, <1>3, <1>9, LogoffDoes DEF Effects
  <2> QED
    BY <2>1, EffectsLast
<1> QED
  BY <1>4, <1>5, <1>6, <1>7, <1>8, <1>9 DEF AuthenticationStep

\* What AuthenticationApp calls for request r: it takes authentication a to b, and the application to p.
Calls(a, b, p, r) ==
  \/ Asked(r) # "logon" /\ b.in = "authenticate" /\ ~ b.ok /\ b.id = a.id /\ b.user = a.user
  \/ Asked(r) = "logon" /\ r.secret = "" /\ b = a /\ p.in = "thrown"
  \/ /\ Asked(r) = "logon" /\ r.secret # "" /\ p.in = "status"
     /\ b.in = "logon" /\ b.secret = r.secret /\ b.id = a.id /\ b.user = a.user
  \/ Asked(r) # "logon" /\ b.in = "logoff" /\ Same(a, b)
  \/ Asked(r) # "logon" /\ b.in = "none" /\ ~ b.ok /\ b.id = NoSession /\ b.user = NoUser
  \/ Asked(r) # "logon" /\ b = a

LEMMA CallDoes ==
  ASSUME Secured, NEW t \in Thread, NEW r, Proper(r), AppForm, AuthenticationApp(t, r)
  PROVE  /\ auth[t].in = "none" /\ app[t].in = "start" /\ app[t].n = 2
         /\ Calls(auth[t], auth'[t], app'[t], r)
<1>0. PICK a, b, p : a = auth[t] /\ b = auth'[t] /\ p = app'[t]
  OBVIOUS
<1>1. a.in = "none" /\ app[t].in = "start" /\ app[t].n = 2 /\ a \in Auths /\ auth \in [Thread -> Auths]
  BY <1>0 DEF AuthenticationApp, At, Resting, Secured
<1> SUFFICES Calls(a, b, p, r)
  BY <1>0, <1>1
<1>2. Asked(r) \in {"other", "getStatus", "none", "logon", "logoff"}
  BY DEF Asked, Proper
<1>3. CASE CallAuthenticate(t) /\ Asked(r) # "logon"
  <2>1. b = [a EXCEPT !.in = "authenticate", !.ok = FALSE]
    BY <1>0, <1>1, <1>3 DEF CallAuthenticate, Call
  <2>2. b.in = "authenticate" /\ ~ b.ok /\ b.id = a.id /\ b.user = a.user
    BY <1>1, <2>1 DEF Auths
  <2> QED
    BY <1>3, <2>2 DEF Calls
<1>4. CASE Asked(r) = "logon" /\ r.secret = "" /\ Throw(t) /\ UNCHANGED auth
  <2>1. Puts(t, app[t].n, "thrown")
    BY <1>4, StepPuts
  <2>2. p.in = "thrown" /\ b = a
    BY <1>0, <1>4, <2>1 DEF Puts
  <2> QED
    BY <1>4, <2>2 DEF Calls
<1>5. CASE Asked(r) = "logon" /\ r.secret # "" /\ CallLogon(t, r.secret) /\ Continue(t, "status")
  <2>1. Puts(t, app[t].n, "status")
    BY <1>5, StepPuts
  <2>2. b = [a EXCEPT !.in = "logon", !.ok = FALSE, !.secret = r.secret]
    BY <1>0, <1>1, <1>5 DEF CallLogon, Call
  <2>3. b.in = "logon" /\ b.secret = r.secret /\ b.id = a.id /\ b.user = a.user
    BY <1>1, <2>2 DEF Auths
  <2>4. p.in = "status"
    BY <1>0, <2>1 DEF Puts
  <2> QED
    BY <1>5, <2>3, <2>4 DEF Calls
<1>6. CASE CallLogoff(t) /\ Asked(r) # "logon"
  <2>1. b = [a EXCEPT !.in = "logoff"] \/ b = Forget(a)
    BY <1>0, <1>1, <1>6 DEF CallLogoff, Call
  <2>2. CASE b = [a EXCEPT !.in = "logoff"]
    <3>1. b.in = "logoff" /\ Same(a, b)
      BY <1>1, <2>2 DEF Auths, Same
    <3> QED
      BY <1>6, <3>1 DEF Calls
  <2>3. CASE b = Forget(a)
    <3>1. b.in = "none" /\ ~ b.ok /\ b.id = NoSession /\ b.user = NoUser
      BY <1>1, <2>3 DEF Auths, Forget
    <3> QED
      BY <1>6, <3>1 DEF Calls
  <2> QED
    BY <2>1, <2>2, <2>3
<1>7. CASE UNCHANGED auth /\ Asked(r) # "logon"
  BY <1>0, <1>7 DEF Calls
<1>8. \/ CallAuthenticate(t) /\ Asked(r) # "logon"
      \/ Asked(r) = "logon" /\ r.secret = "" /\ Throw(t) /\ UNCHANGED auth
      \/ Asked(r) = "logon" /\ r.secret # "" /\ CallLogon(t, r.secret) /\ Continue(t, "status")
      \/ CallLogoff(t) /\ Asked(r) # "logon"
      \/ UNCHANGED auth /\ Asked(r) # "logon"
  BY <1>2 DEF AuthenticationApp
<1> QED
  BY <1>3, <1>4, <1>5, <1>6, <1>7, <1>8

\* A new response has the cookie of its request.
LEMMA ResponseDoes ==
  ASSUME Base, NEW t \in Thread, HandleResponse(t), NEW b, b = auth'[t]
  PROVE  /\ Late(t) /\ thread'[t].at = "answer" /\ Req(t)' = Req(t)
         /\ app'[t] = [NoApp EXCEPT !.n = 1, !.in = "start"]
         /\ \/ b = NoAuth
            \/ /\ Req(t).cookie # NoSession
               /\ b.in = "authenticate" /\ ~ b.ok /\ b.id = Req(t).cookie /\ b.user = NoUser
<1>1. PICK r : r = Req(t)
  OBVIOUS
<1>2. thread[t].at = "respond" /\ NewResponse(t, r) /\ Proceed(t, session[thread[t].c], "answer")
  BY <1>1 DEF HandleResponse, Req
<1>3. Late(t) /\ thread'[t].at = "answer" /\ Req(t)' = Req(t)
  BY <1>2, Proceeds DEF Late, Req, Base
<1>4. b = NoAuth \/ (r.cookie # NoSession /\ b = [NoAuth EXCEPT !.in = "authenticate", !.id = r.cookie])
  BY <1>2 DEF NewResponse, Call, Base, TypeInv, Secured
<1>5. r.cookie # NoSession /\ b = [NoAuth EXCEPT !.in = "authenticate", !.id = r.cookie]
        => b.in = "authenticate" /\ ~ b.ok /\ b.id = r.cookie /\ b.user = NoUser
  BY DEF NoAuth
<1>6. app'[t] = [NoApp EXCEPT !.n = 1, !.in = "start"]
  BY <1>2 DEF NewResponse, Base, PoolInv, AppForm
<1> QED
  BY <1>1, <1>3, <1>4, <1>5, <1>6

\* A step of a thread that is no method leaves what is kept of users and session ids, and creates none.
LEMMA CallLasts ==
  ASSUME Base, Base', NEW t \in Thread, Serving(t), ~ (thread[t].at = "answer" /\ AuthenticationStep(t))
  PROVE  UNCHANGED <<secrets, seen, made, raced>> /\ Lasting /\ (auth'[t] = auth[t] \/ auth'[t].in \notin {"secret", "last"})
<1>1. UNCHANGED <<secrets, seen, made, raced>>
  BY AuthMoves
<1>2. \A o \in Thread \ {t} : auth'[o] = auth[o]
  BY ServingSecured DEF Base, TypeInv
<1>3. auth'[t] = auth[t] \/ auth'[t].in \notin {"secret", "last"}
  <2>1. CASE HandleResponse(t)
    <3>1. auth'[t] = NoAuth \/ auth'[t].in = "authenticate"
      BY <2>1, ResponseDoes
    <3> QED
      BY <3>1 DEF NoAuth
  <2>2. CASE HandleException(t) \/ CloseOrRestart(t)
    BY <2>2 DEF HandleException, CloseOrRestart, Forgotten, NoAuth, Base, TypeInv, Secured
  <2>3. CASE AuthenticationApp(t, Req(t)) /\ thread[t].at = "answer"
    <3>1. PICK r : r = Req(t)
      OBVIOUS
    <3>2. Proper(r) /\ AppForm /\ Secured /\ AuthenticationApp(t, r)
      BY <2>3, <3>1 DEF Base, TypeInv, PoolInv, Tends, Req
    <3>3. Calls(auth[t], auth'[t], app'[t], r)
      BY <3>2, CallDoes
    <3> QED
      BY <3>3 DEF Calls
  <2>4. CASE UNCHANGED auth
    BY <2>4
  <2> QED
    BY <2>1, <2>2, <2>3, <2>4, AuthMoves
<1> QED
  BY <1>1, <1>2, <1>3, StillLasts DEF Base, TypeInv

-----------------------------------------------------------------------------
(* What one step does to who is logged on. *)

\* What the application of t does besides is done when nothing is left to find out, or does not begin that.
LEMMA AppGoes ==
  ASSUME AppForm, NEW t \in Thread, NEW c, NEW r, ResponseStep(t, c, r), ~ AuthenticationApp(t, r)
  PROVE  UNCHANGED authentication /\ auth[t].in = "none" /\ (Entering(r) /\ Past(auth[t], app'[t]) => Past(auth[t], app[t]))
<1>1. CASE OptionsApp(t, r)
  <2>1. UNCHANGED authentication /\ auth[t].in = "none" /\ app[t].in = "start" /\ app[t].n = 1
    BY <1>1 DEF OptionsApp, At, Resting
  <2>2. r.method = "OPTIONS" \/ Pass(t)
    BY <1>1 DEF OptionsApp
  <2>3. r.method = "OPTIONS" => ~ Entering(r)
    BY DEF Entering
  <2>4. Pass(t) => app'[t].in = "start" /\ app'[t].n = 2
    BY <2>1, StepPuts DEF Puts
  <2> QED
    BY <2>1, <2>2, <2>3, <2>4 DEF Past
<1>2. CASE \/ StorageApp(t, r) \/ FileSystemApp(t, r) \/ JSONApp(t, r) \/ NotFoundApp(t, r)
  <2>1. UNCHANGED authentication /\ auth[t].in = "none" /\ app[t].in = "start" /\ app[t].n \in {3, 4, 5, 6}
    BY <1>2, Zenon DEF StorageApp, FileSystemApp, JSONApp, NotFoundApp, At, Resting, authentication
  <2> QED
    BY <2>1 DEF Past
<1>3. CASE \/ AuthenticationAnswer(t, r) \/ StorageMethod(t, r) \/ StorePage(t, r) \/ StoreLength(t, r)
           \/ StoreType(t) \/ StoreCount(t, r) \/ Stored(t) \/ DropPage(t) \/ Drop(t) \/ FindText(t) \/ FindLength(t)
           \/ GetDocument(t, r) \/ PostDocument(t, r)
  <2>1. /\ UNCHANGED authentication /\ auth[t].in = "none"
        /\ app[t].in \in {"status", "check", "storage", "page", "length", "type", "count", "stored", "drop", "has", "size", "json"}
    <3>1. CASE AuthenticationAnswer(t, r)
      BY <3>1 DEF AuthenticationAnswer, At, Resting
    <3>2. CASE StorageMethod(t, r) \/ Stored(t) \/ FindText(t) \/ FindLength(t) \/ GetDocument(t, r) \/ PostDocument(t, r)
      BY <3>2, Zenon DEF StorageMethod, Stored, FindText, FindLength, GetDocument, PostDocument, Within, authentication
    <3>3. CASE \/ StorePage(t, r) \/ StoreLength(t, r) \/ StoreType(t) \/ StoreCount(t, r) \/ DropPage(t) \/ Drop(t)
      BY <3>3, Zenon DEF StorePage, StoreLength, StoreType, StoreCount, DropPage, Drop, Change, Within, authentication
    <3> QED
      BY <1>3, <3>1, <3>2, <3>3
  <2> QED
    BY <2>1 DEF Past
<1>4. CASE WriteHeaders(t, c, r) \/ WriteContent(t, c, r) \/ WritePage(t, c) \/ EndPages(t, c)
  <2>1. UNCHANGED authentication /\ auth[t].in = "none" /\ app[t].in \in {"decided", "content"}
    BY <1>4, Zenon DEF WriteHeaders, WriteContent, WritePage, EndPages, At, Resting, Within, authentication
  <2> QED
    BY <2>1 DEF Past
<1> QED
  BY <1>1, <1>2, <1>3, <1>4, Zenon DEF ResponseStep, AppStep

\* What an application calls to find out who asks.
LEMMA CallStands ==
  ASSUME Secured, NEW a, a \in Auths, NEW b, NEW p, NEW q, NEW r, Proper(r), Enters(a, p, r), Shows(a, r), Seen(r), Calls(a, b, q, r),
         a.in = "none", r.method \notin {"OPTIONS", "DELETE"}
  PROVE  Enters(b, q, r) /\ Shows(b, r)
<1>1. Asked(r) = "logon" <=> Entering(r)
  BY DEF Asked, Entering, Proper
<1>2. CASE Asked(r) # "logon"
  <2>1. \/ b.in = "authenticate" /\ ~ b.ok /\ b.id = a.id /\ b.user = a.user
        \/ b.in = "logoff" /\ Same(a, b)
        \/ b.in = "none" /\ ~ b.ok /\ b.id = NoSession /\ b.user = NoUser
        \/ b = a
    BY <1>2 DEF Calls
  <2>2. Enters(b, q, r)
    BY <1>1, <1>2, <2>1 DEF Enters, Logons
  <2>3. Shows(b, r)
    BY <1>1, <1>2, <2>1 DEF Shows, Same
  <2> QED
    BY <2>2, <2>3
<1>3. CASE Asked(r) = "logon" /\ r.secret = "" /\ b = a /\ q.in = "thrown"
  BY <1>1, <1>3 DEF Enters, Shows, Past, Logons
<1>4. CASE /\ Asked(r) = "logon" /\ r.secret # "" /\ q.in = "status"
           /\ b.in = "logon" /\ b.secret = r.secret /\ b.id = a.id /\ b.user = a.user
  <2>1. Enters(b, q, r)
    BY <1>1, <1>4 DEF Enters, Logons, Seen, Past
  <2>2. Shows(b, r)
    BY <1>1, <1>4 DEF Shows
  <2> QED
    BY <2>1, <2>2
<1> QED
  BY <1>2, <1>3, <1>4 DEF Calls

\* A new response knows no more than its request.
LEMMA ResponseStands ==
  ASSUME NEW b, NEW p, NEW r, Seen(r), p.in = "start", p.n = 1,
         b = NoAuth \/ (r.cookie # NoSession /\ b.in = "authenticate" /\ ~ b.ok /\ b.id = r.cookie /\ b.user = NoUser)
  PROVE  Enters(b, p, r) /\ Shows(b, r)
<1>1. b.in \in {"none", "authenticate"} /\ ~ b.ok /\ b.user = NoUser /\ (b.id # NoSession => b.id = r.cookie)
  BY DEF NoAuth
<1>2. ~ Past(b, p)
  BY DEF Past
<1>3. Enters(b, p, r)
  BY <1>1, <1>2 DEF Enters, Logons
<1>4. Shows(b, r)
  BY <1>1 DEF Shows, Seen
<1> QED
  BY <1>3, <1>4

\* A step that leaves who asks, and how far he is.
LEMMA StandsStay ==
  ASSUME Lasting, Secured, Secured', NEW a, NEW p, NEW q, NEW r, Enters(a, p, r), Shows(a, r),
         \/ q.n = p.n /\ q.in = p.in
         \/ a.in = "none" /\ (Entering(r) /\ Past(a, q) => Past(a, p)),
         a.in = "last" => seen'[a.id] = seen[a.id]
  PROVE  Enters(a, q, r)' /\ Shows(a, r)'
<1>1. made.users \in Nat /\ made.sessions \in Nat /\ made'.users \in Nat /\ made'.sessions \in Nat
  BY AuthenticationAssumption DEF Secured, Recorded, User, NoUser, SessionId, NoSession
<1>2. made.users <= made'.users /\ made.sessions <= made'.sessions /\ raced.ids \subseteq raced'.ids
  BY DEF Lasting
<1>3. Entering(r) /\ Past(a, q) => Past(a, p)
  BY DEF Past
<1>4. a.in # "none" => q.n = p.n /\ q.in = p.in
  OBVIOUS
<1>5. a.in = "last" => Begun(a.id, a.user)'
  BY <1>1, <1>2 DEF Enters, Begun
<1>6. Enters(a, q, r)'
  <2>1. /\ a.in \in Logons => Entering(r) /\ a.secret = r.owner /\ q.in = "status"
        /\ Entering(r) /\ a.in \notin Logons \cup {"none"} => q.in = "start" /\ q.n \in {1, 2}
    BY <1>4 DEF Enters, Logons
  <2>2. a.in = "secret" => a.user \in 1 .. made'.users
    BY <1>1, <1>2 DEF Enters
  <2>3. a.in \in {"session", "last"} => Belongs(a.user, r.owner)'
    BY DEF Enters, Lasting
  <2>4. Entering(r) /\ Past(a, q) => LoggedOn(a.id, a.user, r.owner)'
    BY <1>3 DEF Enters, Lasting
  <2> QED
    BY <1>5, <2>1, <2>2, <2>3, <2>4 DEF Enters
<1>7. Shows(a, r)'
  BY <1>2 DEF Shows, Lasting
<1> QED
  BY <1>6, <1>7

\* What is left of a session id that t is to give its time: no other method has it.
LEMMA PendingStays ==
  ASSUME Secured, Ids, Apart, NEW t \in Thread, AuthenticationStep(t), NEW r, NEW p, Enters(auth[t], p, r), Shows(auth[t], r),
         NEW o \in Thread \ {t}, auth[o].in = "last", Begun(auth[o].id, auth[o].user), auth[o].user # NoUser
  PROVE  seen'[auth[o].id] = seen[auth[o].id]
<1>1. PICK a, b, i : a = auth[t] /\ b = auth'[t] /\ i = auth[o].id
  OBVIOUS
<1>2. made.sessions \in 0 .. MaxSession /\ MaxSession \in Nat
  BY AuthenticationAssumption DEF Secured, Recorded, User, NoUser, SessionId, NoSession
<1>3. i \in SessionId /\ i # made.sessions + 1 /\ seen[i].last = "none" /\ seen[i].user # NoUser
  BY <1>1, <1>2 DEF Begun, SessionId
<1>4. ~ OldId(i)
  BY <1>3 DEF OldId
<1>5. a.in # "last" /\ a.id # NoSession => a.id # i
  BY <1>1, <1>4 DEF Shows
<1>6. NoSession \notin SessionId
  BY AuthenticationAssumption DEF SessionId, NoSession
<1> SUFFICES seen'[i] = seen[i]
  BY <1>1
<1>7. CASE Authenticate(t) \/ CheckTime(t)
  BY <1>7, AuthenticateDoes
<1>8. CASE StampTime(t) \/ ReadUser(t)
  <2>1. a.id \in SessionId /\ a.in \in {"stamp", "user"}
        /\ (UNCHANGED seen \/ \A j \in SessionId : seen'[j] = IF j = a.id THEN [user |-> seen[j].user, last |-> "fresh"] ELSE seen[j])
    BY <1>1, <1>8, StampDoes
  <2>2. i # a.id
    BY <1>5, <1>6, <2>1
  <2> QED
    BY <1>3, <2>1, <2>2
<1>9. CASE Logon(t) \/ CreateUser(t)
  BY <1>9, LogonDoes
<1>10. CASE StoreSecret(t)
  BY <1>10, SecretDoes
<1>11. CASE StoreSession(t) \/ StoreLast(t)
  <2>1. \/ b.id = made.sessions + 1
           /\ \A j \in SessionId : seen'[j] = IF j = b.id THEN [user |-> a.user, last |-> seen[j].last] ELSE seen[j]
        \/ a.in = "last" /\ b.id = a.id
           /\ \A j \in SessionId : seen'[j] = IF j = b.id THEN [user |-> seen[j].user, last |-> "fresh"] ELSE seen[j]
    BY <1>1, <1>11, SessionDoes
  <2>2. i # b.id
    BY <1>1, <1>3, <2>1 DEF Apart
  <2> QED
    BY <1>3, <2>1, <2>2
<1>12. CASE Logoff(t)
  <2>1. a.id \in SessionId /\ a.in = "logoff" /\ \A j \in SessionId : seen'[j] = IF j = a.id THEN Cleared ELSE seen[j]
    BY <1>1, <1>12, LogoffDoes
  <2>2. i # a.id
    BY <1>5, <1>6, <2>1
  <2> QED
    BY <1>3, <2>1, <2>2
<1> QED
  BY <1>7, <1>8, <1>9, <1>10, <1>11, <1>12 DEF AuthenticationStep

\* Each method finds out, or stores, what is of who asks.
LEMMA FindStands ==
  ASSUME Secured, Secured', Lasting, NEW t \in Thread, NEW a, a = auth[t], NEW b, b = auth'[t], NEW p, NEW r,
         Enters(a, p, r), Shows(a, r), Authenticate(t) \/ CheckTime(t) \/ StampTime(t) \/ ReadUser(t) \/ Logoff(t)
  PROVE  Enters(b, p, r)' /\ Shows(b, r)'
<1>1. NoSession \notin SessionId
  BY AuthenticationAssumption DEF SessionId, NoSession
<1>2. CASE Authenticate(t)
  <2>1. a.in = "authenticate" /\ b.in \in {"time", "none"} /\ Same(a, b)
    BY <1>2, AuthenticateDoes
  <2>2. Enters(b, p, r)'
    <3>1. Entering(r) => ~ Past(b, p)
      BY <2>1 DEF Enters, Logons, Past
    <3> QED
      BY <2>1, <3>1 DEF Enters, Logons
  <2>3. Shows(b, r)'
    BY <2>1 DEF Shows, Same, Lasting
  <2> QED
    BY <2>2, <2>3
<1>3. CASE CheckTime(t)
  <2>1. a.in = "time" /\ b.id = a.id /\ b.user = a.user /\ ((b.in = "none" /\ b.ok = a.ok) \/ b.in = "stamp")
    BY <1>3, AuthenticateDoes DEF Same
  <2>2. Enters(b, p, r)'
    <3>1. Entering(r) => ~ Past(b, p)
      BY <2>1 DEF Enters, Logons, Past
    <3> QED
      BY <2>1, <3>1 DEF Enters, Logons
  <2>3. Shows(b, r)'
    BY <2>1 DEF Shows, Lasting
  <2> QED
    BY <2>2, <2>3
<1>4. CASE StampTime(t) \/ ReadUser(t)
  <2>1. /\ a.id \in SessionId /\ b.id = a.id /\ a.in \in {"stamp", "user"} /\ raced.ids \subseteq raced'.ids
        /\ seen[a.id].last = "none" => a.id \in raced'.ids
        /\ \/ b.in = "user" /\ b.user = a.user
           \/ b.in = "none" /\ b.user = seen[a.id].user
    BY <1>4, StampDoes
  <2>2. Enters(b, p, r)'
    <3>1. Entering(r) => ~ Past(b, p)
      BY <2>1 DEF Enters, Logons, Past
    <3> QED
      BY <2>1, <3>1 DEF Enters, Logons
  <2>3. OldId(a.id) /\ (~ Entering(r) => SessionOf(a.id, r.owner))
    BY <1>1, <2>1 DEF Shows
  <2>4. ~ Entering(r) /\ b.user # NoUser => Belongs(b.user, r.owner)
    BY <2>1, <2>3 DEF Shows, SessionOf
  <2>5. b.in = "none" /\ b.user = NoUser => b.id \in raced'.ids
    BY <2>1, <2>3 DEF OldId
  <2>6. OldId(b.id)' /\ (~ Entering(r) => SessionOf(b.id, r.owner)') /\ (~ Entering(r) /\ b.user # NoUser => Belongs(b.user, r.owner)')
    BY <2>1, <2>3, <2>4 DEF Lasting
  <2>7. Shows(b, r)'
    BY <2>1, <2>5, <2>6 DEF Shows
  <2> QED
    BY <2>2, <2>7
<1>5. CASE Logoff(t)
  <2>1. a.in = "logoff" /\ b.in = "none" /\ ~ b.ok /\ b.id = NoSession /\ b.user = NoUser
    BY <1>5, LogoffDoes
  <2>2. Enters(b, p, r)'
    <3>1. Entering(r) => ~ Past(b, p)
      BY <2>1 DEF Enters, Logons, Past
    <3> QED
      BY <2>1, <3>1 DEF Enters, Logons
  <2>3. Shows(b, r)'
    BY <2>1 DEF Shows
  <2> QED
    BY <2>2, <2>3
<1> QED
  BY <1>2, <1>3, <1>4, <1>5

LEMMA EnterStands ==
  ASSUME Secured, Secured', Users, Ids, Apart, Lasting, NEW t \in Thread, \A o \in Thread \ {t} : auth'[o] = auth[o],
         NEW a, a = auth[t], NEW b, b = auth'[t], NEW p, NEW r, Enters(a, p, r), Shows(a, r),
         Logon(t) \/ CreateUser(t) \/ StoreSecret(t) \/ StoreSession(t) \/ StoreLast(t)
  PROVE  Enters(b, p, r)' /\ Shows(b, r)'
<1>1. /\ made.users \in Nat /\ made.sessions \in 0 .. MaxSession /\ MaxSession \in Nat /\ made'.users \in Nat /\ made'.sessions \in Nat
  BY AuthenticationAssumption DEF Secured, Recorded, User, NoUser, SessionId, NoSession
<1>2. CASE Logon(t) \/ CreateUser(t)
  <2>1. /\ a.secret \in Secret /\ a.in \in {"logon", "create"} /\ b.id = a.id /\ b.secret = a.secret
        /\ \/ b.in = "create"
           \/ b.in = "session" /\ b.user = secrets[a.secret] /\ b.user # NoUser
           \/ b.in = "secret" /\ b.user = made'.users /\ b.user = made.users + 1
    BY <1>2, LogonDoes
  <2>2. Entering(r) /\ a.secret = r.owner /\ p.in = "status"
    BY <2>1 DEF Enters, Logons
  <2>3. b.in = "session" => Belongs(b.user, r.owner)'
    BY <2>1, <2>2 DEF Users, Lasting
  <2>4. Enters(b, p, r)'
    BY <1>1, <2>1, <2>2, <2>3 DEF Enters, Logons, Past
  <2>5. Shows(b, r)'
    BY <2>1, <2>2 DEF Shows, Lasting
  <2> QED
    BY <2>4, <2>5
<1>3. CASE StoreSecret(t)
  <2>1. /\ a.secret \in Secret /\ a.in = "secret" /\ b.in = "session" /\ Same(a, b) /\ UNCHANGED <<seen, made>>
        /\ \A x \in Secret : secrets'[x] = IF x = a.secret THEN a.user ELSE secrets[x]
    BY <1>3, SecretDoes
  <2>2. Entering(r) /\ a.secret = r.owner /\ p.in = "status" /\ a.user \in 1 .. made.users /\ a.user # NoUser
    BY <1>1, <2>1 DEF Enters, Logons, NoUser
  <2>3. \A o \in Thread : auth'[o].in = "secret" => auth'[o].user # a.user
    BY <2>1 DEF Apart
  <2>4. \A y \in Secret : secrets[y] # a.user
    <3>1. \A y \in Secret : secrets[y] = a.user => Belongs(a.user, y)
      BY <2>2 DEF Users
    <3>2. \A y \in Secret : ~ Belongs(a.user, y)
      BY <2>1 DEF Belongs
    <3> QED
      BY <3>1, <3>2
  <2>5. Belongs(a.user, a.secret)'
    BY <2>1, <2>2, <2>3, <2>4 DEF Belongs
  <2>6. Enters(b, p, r)'
    BY <2>1, <2>2, <2>5 DEF Enters, Logons, Past, Same
  <2>7. Shows(b, r)'
    BY <2>1, <2>2 DEF Shows, Lasting, Same
  <2> QED
    BY <2>6, <2>7
<1>4. CASE StoreSession(t) \/ StoreLast(t)
  <2>1. /\ b.user = a.user /\ b.secret = a.secret /\ b.id \in SessionId
        /\ \/ /\ a.in = "session" /\ b.in = "last" /\ b.id = made.sessions + 1 /\ made'.sessions = b.id
              /\ \A i \in SessionId : seen'[i] = IF i = b.id THEN [user |-> a.user, last |-> seen[i].last] ELSE seen[i]
           \/ /\ a.in = "last" /\ b.in = "none" /\ b.ok /\ b.id = a.id /\ UNCHANGED made
              /\ \A i \in SessionId : seen'[i] = IF i = b.id THEN [user |-> seen[i].user, last |-> "fresh"] ELSE seen[i]
    BY <1>4, SessionDoes
  <2>2. Entering(r) /\ a.secret = r.owner /\ p.in = "status" /\ Belongs(a.user, r.owner)'
    BY <2>1 DEF Enters, Logons, Lasting
  <2>3. b.user # NoUser
    BY <2>1, <2>2 DEF Belongs, NoUser
  <2>4. CASE b.in = "last"
    <3>1. b.id = made.sessions + 1 /\ made'.sessions = b.id /\ seen'[b.id] = [user |-> a.user, last |-> seen[b.id].last]
      BY <2>1, <2>4
    <3>2. seen[b.id] = Cleared
      BY <1>1, <2>1, <3>1 DEF Ids
    <3>3. seen[b.id].last = "none"
      BY <3>2 DEF Cleared
    <3>4. Begun(b.id, b.user)'
      BY <1>1, <2>1, <3>1, <3>3 DEF Begun
    <3>5. Enters(b, p, r)'
      BY <2>1, <2>2, <2>4, <3>4 DEF Enters, Logons, Past
    <3>6. Shows(b, r)'
      BY <2>2, <2>3, <2>4 DEF Shows
    <3> QED
      BY <3>5, <3>6
  <2>5. CASE b.in = "none"
    <3>1. a.in = "last" /\ b.id = a.id /\ UNCHANGED made /\ seen'[b.id] = [user |-> seen[b.id].user, last |-> "fresh"]
      BY <2>1, <2>5
    <3>2. Begun(b.id, b.user)
      BY <2>1, <3>1 DEF Enters
    <3>3. b.id \in 1 .. made'.sessions /\ seen'[b.id].user = b.user /\ seen'[b.id].last = "fresh"
      BY <3>1, <3>2 DEF Begun
    <3>4. OldId(b.id)'
      BY <2>3, <3>3 DEF OldId
    <3>5. SessionOf(b.id, r.owner)'
      BY <2>1, <2>2, <3>3, <3>4 DEF SessionOf, Belongs
    <3>6. LoggedOn(b.id, b.user, r.owner)'
      BY <2>1, <2>2, <2>3, <3>5 DEF LoggedOn
    <3>7. Enters(b, p, r)'
      BY <2>5, <3>6 DEF Enters, Logons
    <3>8. Shows(b, r)'
      BY <2>2, <2>3, <2>5, <3>4 DEF Shows
    <3> QED
      BY <3>7, <3>8
  <2> QED
    BY <2>1, <2>4, <2>5
<1> QED
  BY <1>2, <1>3, <1>4

LEMMA MethodStands ==
  ASSUME Secured, Secured', Users, Ids, Apart, Lasting, NEW t \in Thread, \A o \in Thread \ {t} : auth'[o] = auth[o],
         NEW p, NEW r, Enters(auth[t], p, r), Shows(auth[t], r), AuthenticationStep(t)
  PROVE  \A b \in {auth'[t]} : Enters(b, p, r)' /\ Shows(b, r)'
BY FindStands, EnterStands DEF AuthenticationStep

-----------------------------------------------------------------------------
(* Each step keeps who is logged on. *)

\* The steps of a thread that answers then.
LEMMA AnswerGoes ==
  ASSUME Base, NEW t \in Thread, Serving(t), thread'[t].at = "answer"
  PROVE  \/ HandleResponse(t)
         \/ /\ thread[t].at = "answer" /\ Req(t)' = Req(t)
            /\ \/ AuthenticationStep(t) /\ UNCHANGED apps
               \/ AuthenticationApp(t, Req(t))
               \/ /\ auth'[t] = auth[t] /\ UNCHANGED seen
                  /\ \/ app'[t].n = app[t].n /\ app'[t].in = app[t].in
                     \/ auth[t].in = "none" /\ (Entering(Req(t)) /\ Past(auth[t], app'[t]) => Past(auth[t], app[t]))
<1>1. CASE Answer(t)
  <2>1. thread[t].at = "answer" /\ Req(t)' = Req(t)
    BY <1>1 DEF Answer, tasks, Req
  <2>2. PICK r, c : r = Req(t) /\ c = thread[t].c
    OBVIOUS
  <2>3. CASE ResponseStep(t, c, r) /\ ~ AuthenticationApp(t, r)
    BY <2>1, <2>2, <2>3, AppGoes DEF Base, PoolInv, authentication
  <2>4. CASE PoolStep(t) /\ UNCHANGED <<response, apps, authentication>>
    BY <2>1, <2>4 DEF apps, authentication
  <2>5. ResponseStep(t, c, r) \/ (PoolStep(t) /\ UNCHANGED <<response, apps, authentication>>) \/ (AuthenticationStep(t) /\ UNCHANGED apps)
    BY <1>1, <2>2 DEF Answer, Req
  <2> QED
    BY <2>1, <2>2, <2>3, <2>4, <2>5
<1>2. CASE ~ Answer(t)
  <2>1. CASE TakeTask(t)
    <3>1. thread'[t].at = "handle"
      BY <2>1 DEF TakeTask, Base, HandInv, Fields
    <3> QED
      BY <3>1
  <2>2. CASE ~ TakeTask(t)
    <3>1. Task(t)
      BY DEF Serving
    <3>2. /\ thread[t].at # "idle"
          /\ \/ UNCHANGED thread /\ thread[t].at = "copy"
             \/ \E s : Leave(t, s)
             \/ \E s, at : at # "answer" /\ Proceed(t, s, at)
             \/ \E at : (at = "answer" <=> HandleResponse(t)) /\ Proceed(t, session[thread[t].c], at)
      BY <1>2, <2>2, <3>1, TaskMoves DEF Base
    <3>3. (\E s : Leave(t, s)) => thread'[t].at = "idle"
      BY <3>2, Leaves DEF Base
    <3>4. \A s, at : Proceed(t, s, at) => thread'[t].at = at
      BY <3>2, Proceeds DEF Base
    <3> QED
      BY <3>2, <3>3, <3>4
  <2> QED
    BY <2>1, <2>2
<1> QED
  BY <1>1, <1>2

\* The steps that are of no thread.
LEMMA ElseGoes ==
  ASSUME Base, Base', [Next]_vars, ~ \E t \in Thread : Serving(t)
  PROVE  /\ UNCHANGED <<secrets, made, raced, auth, thread, app>> /\ Lasting
         /\ \A t \in Thread : thread[t].at # "idle" => Req(t)' = Req(t)
         /\ \A i \in SessionId : seen[i].last = "none" => seen'[i] = seen[i]
<1>1. UNCHANGED <<thread, app>> /\ \A t \in Thread : thread[t].at # "idle" => Req(t)' = Req(t)
  BY ThreadsStay DEF Base
<1>2. CASE Expires
  BY <1>1, <1>2, ExpiresLasts DEF Base, TypeInv
<1>3. CASE ~ Expires
  <2>1. (\E c \in Connection : Client(c) \/ Calling(c)) \/ UNCHANGED vars
    BY <1>3, SMTT(30) DEF Next
  <2>2. UNCHANGED authentication
    BY <2>1 DEF Client, Calling, Connect, Send, SendRest, Receive, GoAway, Callback, HandleAccept, HandleHandshake, HandleRead,
                vars, answers
  <2>3. Lasting
    BY <2>2, StillLasts DEF Base, TypeInv, authentication
  <2> QED
    BY <1>1, <2>2, <2>3 DEF authentication
<1> QED
  BY <1>2, <1>3

\* Who has a method to go on with answers, and stands as he may.
LEMMA EnteredHas ==
  ASSUME Base, Entered, NEW t \in Thread, thread[t].at = "answer"
  PROVE  /\ Enters(auth[t], app[t], Req(t)) /\ Shows(auth[t], Req(t))
         /\ auth[t].in = "last" => Begun(auth[t].id, auth[t].user) /\ auth[t].user # NoUser
         /\ auth[t].in = "secret" => auth[t].user \in 1 .. made.users
         /\ auth[t].in \in {"session", "last"} => Belongs(auth[t].user, Req(t).owner)
<1>1. PICK a, p, r : a = auth[t] /\ p = app[t] /\ r = Req(t)
  OBVIOUS
<1>2. Enters(a, p, r) /\ Shows(a, r)
  BY <1>1 DEF Entered, Stands
<1>3. Enters(a, p, r) => /\ a.in = "last" => Begun(a.id, a.user) /\ a.user # NoUser
                         /\ a.in = "secret" => a.user \in 1 .. made.users
                         /\ a.in \in {"session", "last"} => Belongs(a.user, r.owner)
  BY DEF Enters, Belongs, NoUser
<1> QED
  BY <1>1, <1>2, <1>3

\* What is known of users and ids lasts with every step.
LEMMA StepLasts ==
  ASSUME Base, Base', Entered, [Next]_vars
  PROVE  Lasting
<1>1. CASE \E t \in Thread : Serving(t)
  <2>1. PICK t \in Thread : Serving(t)
    BY <1>1
  <2>2. CASE thread[t].at = "answer" /\ AuthenticationStep(t)
    BY <2>1, <2>2, EnteredHas, MethodLasts, ServingSecured DEF Base, TypeInv
  <2> QED
    BY <2>1, <2>2, CallLasts
<1> QED
  BY <1>1, ElseGoes

\* A step of another leaves the id that t is to give its time.
LEMMA OthersPend ==
  ASSUME Base, Base', Ids, Apart, Entered, [Next]_vars, NEW o \in Thread, auth[o].in = "last", ~ Serving(o)
  PROVE  seen'[auth[o].id] = seen[auth[o].id]
<1>1. thread[o].at = "answer"
  BY DEF Base, TypeInv, Secured, NoAuth
<1>2. PICK i, u : i = auth[o].id /\ u = auth[o].user
  OBVIOUS
<1>3. Begun(i, u) /\ u # NoUser
  BY <1>1, <1>2, EnteredHas
<1>4. made.sessions \in 0 .. MaxSession /\ MaxSession \in Nat
  BY AuthenticationAssumption DEF Base, TypeInv, Secured, Recorded, User, NoUser, SessionId, NoSession
<1>5. i \in SessionId /\ seen[i].last = "none"
  BY <1>3, <1>4 DEF Begun, SessionId
<1>6. CASE \E t \in Thread : Serving(t)
  <2>1. PICK t \in Thread \ {o} : Serving(t)
    BY <1>6
  <2>2. CASE thread[t].at = "answer" /\ AuthenticationStep(t)
    BY <1>2, <1>3, <2>1, <2>2, EnteredHas, PendingStays DEF Base, TypeInv
  <2> QED
    BY <2>1, <2>2, CallLasts
<1> QED
  BY <1>2, <1>5, <1>6, ElseGoes

\* Who answers stands as he may after each step.
LEMMA NextEntered ==
  ASSUME Base, Base', WhoInv, [Next]_vars
  PROVE  Entered'
<1>1. Lasting
  BY StepLasts DEF WhoInv
<1>2. SUFFICES ASSUME NEW t \in Thread, thread'[t].at = "answer"
               PROVE  Stands(t)'
  BY DEF Entered
<1>3. PICK a, b, p, q, r : a = auth[t] /\ b = auth'[t] /\ p = app[t] /\ q = app'[t] /\ r = Req(t)
  OBVIOUS
<1>4. SUFFICES Req(t)' = r /\ Enters(b, q, r)' /\ Shows(b, r)'
  BY <1>3 DEF Stands
<1>5. thread[t].at = "answer" => Enters(a, p, r) /\ Shows(a, r)
  BY <1>3, EnteredHas DEF WhoInv
<1>6. CASE ~ Serving(t)
  <2>1. thread[t].at = "answer" /\ b = a /\ Req(t)' = r /\ q.n = p.n /\ q.in = p.in
    <3>1. CASE \E u \in Thread : Serving(u)
      <4>1. PICK u \in Thread \ {t} : Serving(u)
        BY <1>6, <3>1
      <4>2. UNCHANGED app \/ \E d \in AppRecords : Turns(u, d)
        BY <4>1, ServingTurns DEF Base, TypeInv
      <4>3. OthersStay(u)
        BY <4>1, <4>2, ServingOthers DEF Base, TypeInv
      <4>4. thread[t].at = "answer" /\ b = a /\ Req(t)' = r
        BY <1>2, <1>3, <4>1, <4>3 DEF OthersStay, Late
      <4>5. p \in AppRecords /\ (q = p \/ q = [p EXCEPT !.mixed = TRUE])
        BY <1>3, <4>1, <4>3 DEF OthersStay, Base, TypeInv, Applied
      <4>6. q.n = p.n /\ q.in = p.in
        BY <4>5 DEF AppRecords
      <4> QED
        BY <4>4, <4>6
    <3>2. CASE ~ \E u \in Thread : Serving(u)
      BY <1>2, <1>3, <3>2, ElseGoes
    <3> QED
      BY <3>1, <3>2
  <2>2. a.in = "last" => seen'[a.id] = seen[a.id]
    BY <1>3, <1>6, OthersPend DEF WhoInv
  <2> QED
    BY <1>1, <1>5, <2>1, <2>2, StandsStay DEF Base, TypeInv
<1>7. CASE HandleResponse(t)
  <2>1. /\ Late(t) /\ Req(t)' = r /\ q = [NoApp EXCEPT !.n = 1, !.in = "start"]
        /\ b = NoAuth \/ (r.cookie # NoSession /\ b.in = "authenticate" /\ ~ b.ok /\ b.id = r.cookie /\ b.user = NoUser)
    BY <1>3, <1>7, ResponseDoes
  <2>2. Seen(r)
    BY <1>3, <2>1 DEF WhoInv, Asking
  <2>3. q.in = "start" /\ q.n = 1
    BY <2>1 DEF NoApp
  <2>4. Enters(b, q, r) /\ Shows(b, r)
    BY <2>1, <2>2, <2>3, ResponseStands
  <2>5. b.in # "last"
    BY <2>1 DEF NoAuth
  <2> QED
    BY <1>1, <2>1, <2>4, <2>5, StandsStay DEF Base, TypeInv
<1>8. CASE Serving(t) /\ ~ HandleResponse(t)
  <2>1. /\ thread[t].at = "answer" /\ Req(t)' = r
        /\ \/ AuthenticationStep(t) /\ UNCHANGED apps
           \/ AuthenticationApp(t, r)
           \/ /\ b = a /\ UNCHANGED seen
              /\ \/ q.n = p.n /\ q.in = p.in
                 \/ a.in = "none" /\ (Entering(r) /\ Past(a, q) => Past(a, p))
    BY <1>2, <1>3, <1>8, AnswerGoes
  <2>2. Enters(a, p, r) /\ Shows(a, r)
    BY <1>5, <2>1
  <2>3. CASE AuthenticationStep(t) /\ UNCHANGED apps
    <3>1. q = p
      BY <1>3, <2>3 DEF apps
    <3>2. \A o \in Thread \ {t} : auth'[o] = auth[o]
      BY <1>8, ServingSecured DEF Base, TypeInv
    <3> QED
      BY <1>1, <1>3, <2>1, <2>2, <2>3, <3>1, <3>2, MethodStands DEF Base, TypeInv, WhoInv
  <2>4. CASE AuthenticationApp(t, r)
    <3>1. Proper(r) /\ AppForm /\ r.method # "DELETE" /\ (app[t].n # 1 => r.method # "OPTIONS")
      BY <1>3, <2>1 DEF Base, PoolInv, Tends, Applies, Req
    <3>2. a.in = "none" /\ app[t].n = 2 /\ Calls(a, b, q, r)
      BY <1>3, <2>4, <3>1, CallDoes DEF Base, TypeInv
    <3>3. Seen(r)
      BY <1>3, <2>1 DEF WhoInv, Asking, Late
    <3>4. UNCHANGED <<secrets, seen, made, raced>>
      BY <2>4 DEF AuthenticationApp
    <3>5. Enters(b, q, r) /\ Shows(b, r)
      BY <1>3, <2>2, <3>1, <3>2, <3>3, CallStands DEF Base, TypeInv, Secured
    <3>6. Enters(b, q, r)' /\ Shows(b, r)'
      BY <1>1, <3>5, <3>4, StandsStay DEF Base, TypeInv
    <3> QED
      BY <2>1, <3>6
  <2>5. CASE /\ b = a /\ UNCHANGED seen
             /\ \/ q.n = p.n /\ q.in = p.in
                \/ a.in = "none" /\ (Entering(r) /\ Past(a, q) => Past(a, p))
    BY <1>1, <2>1, <2>2, <2>5, StandsStay DEF Base, TypeInv
  <2> QED
    BY <2>1, <2>3, <2>4, <2>5
<1> QED
  BY <1>6, <1>7, <1>8

\* What a thread deals with it did before, or it came in.
LEMMA LateMoves ==
  ASSUME Base, [Next]_vars, NEW t \in Thread, Late(t)'
  PROVE  (Late(t) /\ Req(t)' = Req(t)) \/ \E c \in Connection : Waits(c) /\ Req(t)' = coming[c].request
<1>1. CASE \E u \in Thread : Serving(u)
  <2>1. PICK u \in Thread : Serving(u)
    BY <1>1
  <2>2. CASE t = u
    <3>1. CASE Late(t) /\ Req(t)' = Req(t)
      BY <3>1
    <3>2. CASE Waits(thread[t].c) /\ Req(t)' = coming[thread[t].c].request /\ thread[t].at = "handle"
      <4>1. thread[t].c \in Connection
        BY <3>2, ServedSession DEF Base
      <4> QED
        BY <3>2, <4>1
    <3> QED
      BY <2>1, <2>2, <3>1, <3>2, TaskRequest DEF Base
  <2>3. CASE t # u
    <3>1. thread'[t] = thread[t] /\ (Late(t) => Req(t)' = Req(t))
      BY <2>1, <2>3, TaskRequest DEF Base
    <3> QED
      BY <3>1 DEF Late
  <2> QED
    BY <2>2, <2>3
<1>2. CASE ~ \E u \in Thread : Serving(u)
  <2>1. thread' = thread /\ (thread[t].at # "idle" => Req(t)' = Req(t))
    BY <1>2, ThreadsStay DEF Base
  <2>2. Late(t)
    BY <2>1 DEF Late
  <2> QED
    BY <2>1, <2>2 DEF Late
<1> QED
  BY <1>1, <1>2

\* The owner of a request of a plan.
LEMMA PlanOwners ==
  ASSUME NEW p \in DOMAIN Plans, NEW c \in Connection, NEW i \in DOMAIN Plans[p].requests[c]
  PROVE  Plans[p].requests[c][i].owner =
           IF Plans[p].requests[c][i].method = "POST" /\ Asked(Plans[p].requests[c][i]) = "logon"
           THEN Plans[p].requests[c][i].secret ELSE ""
<1>1. \A d \in Connection : \A n \in DOMAIN Plans[p].requests[d] :
        LET r == Plans[p].requests[d][n]
        IN r.owner = IF r.method = "POST" /\ Asked(r) = "logon" THEN r.secret ELSE ""
  BY PlansAssumption, Zenon
<1> QED
  BY <1>1

\* A request has the cookie k; its owner is the secret that it enters with, or the one that the cookie is of.
OfCookie(r, k) == r.cookie = k.id /\ r.owner = IF Entering(r) /\ r.secret # "" THEN r.secret ELSE k.secret

\* A request that is sent is one of the plan, with the cookie of its browser.
LEMMA SendDoes ==
  ASSUME Base, NEW c \in Connection, Send(c), NEW r, r = coming'[c].request
  PROVE  /\ r.id = <<c, client[c].begun + 1>>
         /\ \E b \in Browser : \A k \in {cookie[b]} : OfCookie(r, k)
         /\ \A d \in Connection \ {c} : coming'[d] = coming[d]
         /\ UNCHANGED <<answer, cookie, known>>
         /\ posted' = IF r.method = "POST" THEN posted \cup {<<r.owner, r.text, r.length>>} ELSE posted
<1>1. PICK n : n = client[c].begun + 1
  OBVIOUS
<1>2. PICK p : p = Plans[plan].requests[c][n]
  OBVIOUS
<1>3. PICK j : j = cookie[Jar(c)]
  OBVIOUS
<1>4. PICK q : /\ q = [p EXCEPT !.id = <<c, n>>, !.cookie = j.id, !.owner = IF @ = "" THEN j.secret ELSE @]
               /\ coming' = [coming EXCEPT ![c] = [request |-> q, parts |-> 1]]
               /\ posted' = IF q.method = "POST" THEN posted \cup {<<q.owner, q.text, q.length>>} ELSE posted
  BY <1>1, <1>2, <1>3 DEF Send
<1>5. p \in Requests /\ n \in DOMAIN Plans[plan].requests[c]
  <2>1. client[c] \in [begun : Nat, sent : Nat] /\ n \in Nat \ {0}
    BY <1>1 DEF FileInv, Comes, Base
  <2>2. Plans[plan].requests[c] \in Seq(Requests)
    BY ServerAssumption, SMTT(30) DEF FileInv, Base
  <2>3. More(c)
    BY DEF Send
  <2>4. n \in 1 .. Len(Plans[plan].requests[c])
    BY <1>1, <2>1, <2>2, <2>3 DEF More
  <2> QED
    BY <1>2, <2>2, <2>4
<1>6. p.owner = IF p.method = "POST" /\ Asked(p) = "logon" THEN p.secret ELSE ""
  <2>1. plan \in DOMAIN Plans
    BY DEF FileInv, Base
  <2> QED
    BY <1>2, <1>5, <2>1, PlanOwners
<1>7. /\ q.id = <<c, n>> /\ q.cookie = j.id /\ q.owner = (IF p.owner = "" THEN j.secret ELSE p.owner)
      /\ q.method = p.method /\ q.path = p.path /\ q.valid = p.valid /\ q.ask = p.ask /\ q.secret = p.secret
  BY <1>4, <1>5 DEF Requests
<1>8. Entering(q) <=> p.method = "POST" /\ Asked(p) = "logon"
  BY <1>7 DEF Entering, Asked
<1>9. q.owner = IF Entering(q) /\ q.secret # "" THEN q.secret ELSE j.secret
  BY <1>6, <1>7, <1>8
<1>10. r = q /\ \A d \in Connection \ {c} : coming'[d] = coming[d]
  BY <1>4 DEF Base, HandInv, Fields
<1>11. Jar(c) \in Browser
  BY PlanHas, ZenonT(60) DEF FileInv, Jar, Base
<1>12. UNCHANGED <<answer, cookie, known>>
  BY DEF Send, answers, response
<1> QED
  BY <1>1, <1>3, <1>4, <1>7, <1>9, <1>10, <1>11, <1>12, ZenonT(60) DEF OfCookie

\* Who asks has his own cookie, or enters with his secret.
LEMMA NextAsking ==
  ASSUME Base, Lasting, Cookied, Asking, [Next]_vars
  PROVE  Asking'
<1>1. ASSUME NEW c \in Connection, Waits(c)', NEW r, r = coming'[c].request
      PROVE  Seen(r)'
  <2>1. CASE Waits(c) /\ coming'[c].request = coming[c].request
    BY <1>1, <2>1 DEF Asking, Lasting
  <2>2. CASE Send(c)
    <3>1. PICK b \in Browser : \A k \in {cookie[b]} : OfCookie(r, k)
      BY <1>1, <2>2, SendDoes
    <3>2. PICK k : k = cookie[b]
      OBVIOUS
    <3>3. k = NoCookie \/ SessionOf(k.id, k.secret)
      BY <3>2 DEF Cookied
    <3>4. k.id # NoSession => SessionOf(k.id, k.secret)
      <4>1. NoCookie.id = NoSession
        BY DEF NoCookie
      <4> QED
        BY <3>3, <4>1
    <3>5. Seen(r)
      BY <3>1, <3>2, <3>4 DEF Seen, SessionOf, OfCookie
    <3> QED
      BY <3>5 DEF Lasting
  <2> QED
    BY <1>1, <2>1, <2>2, ComingMoves DEF Base
<1>2. ASSUME NEW t \in Thread, Late(t)', NEW r, r = Req(t)'
      PROVE  Seen(r)'
  <2>1. (Late(t) /\ r = Req(t)) \/ \E c \in Connection : Waits(c) /\ r = coming[c].request
    BY <1>2, LateMoves
  <2>2. Seen(r)
    BY <2>1 DEF Asking
  <2> QED
    BY <2>2 DEF Lasting
<1> QED
  BY <1>1, <1>2 DEF Asking

\* A secret has another user only when that one is stored: who stores it goes on with it.
LEMMA SecretsMove ==
  ASSUME Base, Base', [Next]_vars, NEW x \in Secret, secrets'[x] # secrets[x]
  PROVE  /\ secrets[x] # NoUser => x \in raced'.secrets
         /\ UNCHANGED known
         /\ \E t \in Thread : thread'[t].at = "answer" /\ auth'[t].in = "session" /\ auth'[t].secret = x /\ auth'[t].user = secrets'[x]
<1>1. PICK t \in Thread : Serving(t)
  BY ElseGoes
<1>2. thread[t].at = "answer" /\ AuthenticationStep(t) /\ UNCHANGED known
  BY <1>1, CallLasts DEF Serving, clients
<1>3. thread'[t].at = "answer"
  BY <1>1, <1>2, AuthMoves DEF tasks
<1>4. StoreSecret(t)
  BY <1>2, AuthenticateDoes, StampDoes, LogonDoes, SessionDoes, LogoffDoes DEF Base, TypeInv, AuthenticationStep
<1>5. /\ auth'[t].in = "session" /\ Same(auth[t], auth'[t])
      /\ \A y \in Secret : secrets'[y] = IF y = auth[t].secret THEN auth[t].user ELSE secrets[y]
      /\ secrets[auth[t].secret] # NoUser => auth[t].secret \in raced'.secrets
  BY <1>4, SecretDoes DEF Base, TypeInv
<1>6. x = auth[t].secret
  BY <1>5
<1> QED
  BY <1>2, <1>3, <1>5, <1>6 DEF Same

LEMMA NextUsers ==
  ASSUME Base, Base', Users, Lasting, Entered', [Next]_vars
  PROVE  Users'
<1> SUFFICES ASSUME NEW x \in Secret, NEW u, u = secrets'[x], u # NoUser
             PROVE  Belongs(u, x)'
  BY DEF Users
<1>1. CASE secrets'[x] = secrets[x]
  BY <1>1 DEF Users, Lasting
<1>2. CASE secrets'[x] # secrets[x]
  <2>1. PICK t \in Thread : thread'[t].at = "answer" /\ auth'[t].in = "session" /\ auth'[t].secret = x /\ auth'[t].user = u
    BY <1>2, SecretsMove
  <2>2. PICK b, q, s : b = auth'[t] /\ q = app'[t] /\ s = Req(t)'
    OBVIOUS
  <2>3. Enters(b, q, s)'
    BY <2>1, <2>2 DEF Entered, Stands
  <2> QED
    BY <2>1, <2>2, <2>3 DEF Enters, Logons
<1> QED
  BY <1>1, <1>2

\* What a client is told of who it is.
LEMMA NextKnown ==
  ASSUME Base, Base', Known, Lasting, Granted, [Next]_vars
  PROVE  Known'
<1> SUFFICES ASSUME NEW x \in Secret, x \notin raced'.secrets
             PROVE  known'[x] \in {NoUser, secrets'[x]}
  BY DEF Known
<1>1. known[x] \in {NoUser, secrets[x]} /\ x \notin raced.secrets
  BY DEF Known, Lasting
<1>2. CASE secrets'[x] # secrets[x]
  BY <1>1, <1>2, SecretsMove
<1>3. CASE secrets'[x] = secrets[x] /\ known' = known
  BY <1>1, <1>3
<1>4. CASE secrets'[x] = secrets[x] /\ known' # known
  <2>1. PICK c \in Connection : Receive(c)
    BY <1>4, RememberedMoves
  <2>2. PICK a, y : a = answer[c] /\ y = coming[c].request.owner
    OBVIOUS
  <2>3. Told(c) /\ a.ok /\ known' = [known EXCEPT ![y] = a.user]
    BY <1>4, <2>1, <2>2 DEF Receive, Answered, Told
  <2>4. LoggedOn(a.id, a.user, y)
    BY <2>2, <2>3 DEF Granted
  <2>5. known \in [Secret -> User \cup {NoUser}]
    BY DEF Base, TypeInv, Remembered
  <2>6. y = x => a.user \in {NoUser, secrets[x]}
    BY <1>1, <2>4 DEF LoggedOn, Belongs
  <2> QED
    BY <1>1, <1>4, <2>3, <2>5, <2>6
<1> QED
  BY <1>2, <1>3, <1>4

LEMMA NextCookied ==
  ASSUME Base, Cookied, Lasting, Granted, [Next]_vars
  PROVE  Cookied'
<1> SUFFICES ASSUME NEW b \in Browser, NEW k, k = cookie'[b]
             PROVE  k = NoCookie \/ SessionOf(k.id, k.secret)'
  BY DEF Cookied
<1>1. CASE cookie' = cookie
  BY <1>1 DEF Cookied, Lasting
<1>2. CASE cookie' # cookie
  <2>1. PICK c \in Connection : Receive(c)
    BY <1>2, RememberedMoves
  <2>2. PICK a, x : a = answer[c] /\ x = coming[c].request.owner
    OBVIOUS
  <2>3. Told(c) /\ cookie' = [cookie EXCEPT ![Jar(c)] = IF a.ok THEN [id |-> a.id, secret |-> x] ELSE NoCookie]
    BY <1>2, <2>1, <2>2 DEF Receive, Answered, Told
  <2>4. a.ok => SessionOf(a.id, x)
    BY <2>2, <2>3 DEF Granted, LoggedOn
  <2>5. k = cookie[b] \/ (a.ok /\ k = [id |-> a.id, secret |-> x]) \/ k = NoCookie
    BY <2>3 DEF Base, TypeInv, Remembered
  <2>6. k = [id |-> a.id, secret |-> x] => k.id = a.id /\ k.secret = x
    OBVIOUS
  <2> QED
    BY <2>4, <2>5, <2>6 DEF Cookied, Lasting
<1> QED
  BY <1>1, <1>2

\* Session ids that were not given have no user.
LEMMA NextIds ==
  ASSUME Base, Base', Ids, Entered, Lasting, [Next]_vars
  PROVE  Ids'
<1> SUFFICES ASSUME NEW i \in SessionId, i > made'.sessions
             PROVE  seen'[i] = Cleared
  BY DEF Ids
<1>1. /\ made.sessions \in 0 .. MaxSession /\ MaxSession \in Nat /\ made'.sessions \in Nat
  BY AuthenticationAssumption DEF Base, TypeInv, Secured, Recorded, User, NoUser, SessionId, NoSession
<1>2. i \in Nat /\ i > made.sessions /\ i # made'.sessions /\ ~ OldId(i) /\ seen[i] = Cleared /\ i # NoSession
  <2>1. i \in Nat /\ i > made.sessions
    BY <1>1 DEF Lasting, SessionId
  <2> QED
    BY <1>1, <2>1 DEF OldId, Ids, NoSession
<1>3. seen[i].last = "none"
  BY <1>2 DEF Cleared
<1>4. CASE \E t \in Thread : Serving(t)
  <2>1. PICK t \in Thread : Serving(t)
    BY <1>4
  <2>2. CASE ~ (thread[t].at = "answer" /\ AuthenticationStep(t))
    BY <1>2, <2>1, <2>2, CallLasts
  <2>3. CASE thread[t].at = "answer" /\ AuthenticationStep(t)
    <3>1. PICK a, b, r : a = auth[t] /\ b = auth'[t] /\ r = Req(t)
      OBVIOUS
    <3>2. (a.in # "last" /\ a.id # NoSession => OldId(a.id)) /\ (a.in = "last" => Begun(a.id, a.user))
      BY <2>3, <3>1, EnteredHas DEF Shows
    <3>3. a.in # "none" /\ a.id # NoSession => a.id # i
      BY <1>1, <1>2, <3>2 DEF Begun
    <3>4. CASE Authenticate(t) \/ CheckTime(t)
      BY <1>2, <3>4, AuthenticateDoes DEF Base, TypeInv
    <3>5. CASE StampTime(t) \/ ReadUser(t)
      <4>1. /\ a.id \in SessionId /\ a.in \in {"stamp", "user"}
            /\ UNCHANGED seen \/ (\A j \in SessionId : seen'[j] = IF j = a.id THEN [user |-> seen[j].user, last |-> "fresh"] ELSE seen[j])
        BY <3>1, <3>5, StampDoes DEF Base, TypeInv
      <4>2. i # a.id
        BY <1>2, <3>3, <4>1
      <4> QED
        BY <1>2, <4>1, <4>2
    <3>6. CASE Logon(t) \/ CreateUser(t)
      BY <1>2, <3>6, LogonDoes DEF Base, TypeInv
    <3>7. CASE StoreSecret(t)
      BY <1>2, <3>7, SecretDoes DEF Base, TypeInv
    <3>8. CASE StoreSession(t) \/ StoreLast(t)
      <4>1. \/ b.id = made'.sessions
               /\ \A j \in SessionId : seen'[j] = IF j = b.id THEN [user |-> a.user, last |-> seen[j].last] ELSE seen[j]
            \/ a.in = "last" /\ b.id = a.id /\ b.id \in SessionId
               /\ \A j \in SessionId : seen'[j] = IF j = b.id THEN [user |-> seen[j].user, last |-> "fresh"] ELSE seen[j]
        BY <3>1, <3>8, SessionDoes DEF Base, TypeInv
      <4>2. i # b.id
        BY <1>2, <3>3, <4>1
      <4> QED
        BY <1>2, <4>1, <4>2
    <3>9. CASE Logoff(t)
      <4>1. \A j \in SessionId : seen'[j] = IF j = a.id THEN Cleared ELSE seen[j]
        BY <3>1, <3>9, LogoffDoes DEF Base, TypeInv
      <4> QED
        BY <1>2, <4>1
    <3> QED
      BY <2>3, <3>4, <3>5, <3>6, <3>7, <3>8, <3>9 DEF AuthenticationStep
  <2> QED
    BY <2>2, <2>3
<1>5. CASE ~ \E t \in Thread : Serving(t)
  BY <1>2, <1>3, <1>5, ElseGoes
<1> QED
  BY <1>4, <1>5

\* Who is to store a secret or a time had a user or an id of his own before, or it is new.
LEMMA NewOnes ==
  ASSUME Base, Base', NEW t \in Thread, Serving(t), NEW a, a = auth[t], NEW b, b = auth'[t]
  PROVE  /\ b.in = "secret" => (a.in = "secret" /\ b.user = a.user) \/ b.user = made.users + 1
         /\ b.in = "last" => (a.in = "last" /\ b.id = a.id) \/ b.id = made.sessions + 1
<1>1. CASE ~ (thread[t].at = "answer" /\ AuthenticationStep(t))
  BY <1>1, CallLasts
<1>2. CASE Authenticate(t) \/ CheckTime(t)
  BY <1>2, AuthenticateDoes DEF Base, TypeInv
<1>3. CASE StampTime(t) \/ ReadUser(t)
  BY <1>3, StampDoes DEF Base, TypeInv
<1>4. CASE Logon(t) \/ CreateUser(t)
  BY <1>4, LogonDoes DEF Base, TypeInv
<1>5. CASE StoreSecret(t)
  BY <1>5, SecretDoes DEF Base, TypeInv
<1>6. CASE StoreSession(t) \/ StoreLast(t)
  BY <1>6, SessionDoes DEF Base, TypeInv
<1>7. CASE Logoff(t)
  BY <1>7, LogoffDoes DEF Base, TypeInv
<1> QED
  BY <1>1, <1>2, <1>3, <1>4, <1>5, <1>6, <1>7 DEF AuthenticationStep

\* No two are to store one user, or one id.
LEMMA NextApart ==
  ASSUME Base, Base', Apart, Entered, [Next]_vars
  PROVE  Apart'
<1>1. made.users \in Nat /\ made.sessions \in Nat
  BY AuthenticationAssumption DEF Base, TypeInv, Secured, Recorded, User, NoUser, SessionId, NoSession
<1>2. ASSUME NEW o \in Thread
      PROVE  /\ auth[o].in = "secret" => auth[o].user \in 1 .. made.users
             /\ auth[o].in = "last" => auth[o].id \in 1 .. made.sessions
  <2>1. auth[o].in # "none" => thread[o].at = "answer"
    BY DEF Base, TypeInv, Secured, NoAuth
  <2> QED
    BY <2>1, EnteredHas DEF Begun
<1>3. CASE ~ \E t \in Thread : Serving(t)
  <2>1. auth' = auth
    BY <1>3, ElseGoes
  <2> QED
    BY <2>1 DEF Apart
<1>4. CASE \E t \in Thread : Serving(t)
  <2>1. PICK t \in Thread : Serving(t)
    BY <1>4
  <2>2. \A o \in Thread \ {t} : auth'[o] = auth[o]
    BY <2>1, ServingSecured DEF Base, TypeInv
  <2>3. /\ auth'[t].in = "secret" => (auth[t].in = "secret" /\ auth'[t].user = auth[t].user) \/ auth'[t].user = made.users + 1
        /\ auth'[t].in = "last" => (auth[t].in = "last" /\ auth'[t].id = auth[t].id) \/ auth'[t].id = made.sessions + 1
    BY <2>1, NewOnes
  <2>4. ASSUME NEW o \in Thread \ {t}
        PROVE  /\ auth'[t].in = "secret" /\ auth'[o].in = "secret" => auth'[t].user # auth'[o].user
               /\ auth'[t].in = "last" /\ auth'[o].in = "last" => auth'[t].id # auth'[o].id
    <3>1. auth'[o] = auth[o]
      BY <2>2
    <3>2. /\ auth[o].in = "secret" => auth[o].user \in 1 .. made.users
          /\ auth[o].in = "last" => auth[o].id \in 1 .. made.sessions
      BY <1>2
    <3>3. /\ auth[t].in = "secret" /\ auth[o].in = "secret" => auth[t].user # auth[o].user
          /\ auth[t].in = "last" /\ auth[o].in = "last" => auth[t].id # auth[o].id
      BY DEF Apart
    <3> QED
      BY <1>1, <2>3, <3>1, <3>2, <3>3
  <2> QED
    BY <2>2, <2>4 DEF Apart
<1> QED
  BY <1>3, <1>4

\* What is set of an answer that is begun.
Opens(b, to, status, n, ok, user, id, k) ==
  b = [NoAnswer EXCEPT !.to = to, !.status = status, !.announced = n, !.ok = ok, !.user = user, !.id = id, !.cookie = k]

LEMMA BegunFields ==
  ASSUME NEW to, NEW status, NEW n, NEW ok, NEW user, NEW id, NEW k, NEW b, Opens(b, to, status, n, ok, user, id, k)
  PROVE  /\ b.to = to /\ b.status = status /\ b.announced = n /\ b.ok = ok /\ b.user = user /\ b.id = id
         /\ b.parts = <<>> /\ ~ b.mixed /\ ~ b.ended
<1>1. NoAnswer \in [to : {<<>>}, status : {0}, ok : {FALSE}, user : {NoUser}, id : {NoSession}, cookie : {FALSE}, announced : {0},
                   parts : {<<>>}, ended : {FALSE}, mixed : {FALSE}]
  BY DEF NoAnswer
<1>2. b \in [to : {to}, status : {status}, ok : {ok}, user : {user}, id : {id}, cookie : {k}, announced : {n},
            parts : {<<>>}, ended : {FALSE}, mixed : {FALSE}]
  BY <1>1 DEF Opens
<1> QED
  BY <1>2

\* Whom an answer that is begun shows.
LEMMA HeadersGrant ==
  ASSUME Base, Entered, NEW t \in Thread, thread[t].at = "answer", NEW c, c = thread[t].c, WriteHeaders(t, c, Req(t)),
         NEW a, a = answer'[c], UNCHANGED coming, Told(c)', a.ok
  PROVE  answer' = answer \/ LoggedOn(a.id, a.user, coming[c].request.owner)
<1>1. PICK b, p, r : b = auth[t] /\ p = app[t] /\ r = Req(t)
  OBVIOUS
<1>2. CASE answer' # answer
  <2>1. answer' = [answer EXCEPT ![c] = [NoAnswer EXCEPT !.to = r.id, !.status = p.status, !.announced = Announced(p),
                                                        !.ok = b.ok, !.user = b.user, !.id = b.id, !.cookie = p.n > 1]]
    BY <1>1, <1>2 DEF WriteHeaders
  <2>2. c \in Connection /\ Reads(c) /\ Serves(c, t) /\ "answer" \notin {"handle"}
    BY Tasked DEF Base
  <2>3. a = [NoAnswer EXCEPT !.to = r.id, !.status = p.status, !.announced = Announced(p),
                             !.ok = b.ok, !.user = b.user, !.id = b.id, !.cookie = p.n > 1]
    BY <2>1, <2>2 DEF Base, FileInv
  <2>4. a.to = r.id /\ b.ok /\ a.user = b.user /\ a.id = b.id
    <3>1. PICK i, s, n, o, u, j, k : /\ i = r.id /\ s = p.status /\ n = Announced(p) /\ o = b.ok /\ u = b.user /\ j = b.id
                                     /\ k = (p.n > 1)
      OBVIOUS
    <3>2. Opens(a, i, s, n, o, u, j, k)
      BY <2>3, <3>1, Zenon DEF Opens
    <3>3. a.to = i
      BY <3>2, BegunFields
    <3>4. a.user = u
      BY <3>2, BegunFields
    <3>5. o
      BY <3>2, BegunFields
    <3>6. a.id = j
      BY <3>2, BegunFields
    <3> QED
      BY <3>1, <3>3, <3>4, <3>5, <3>6
  <2>5. Waits(c) /\ coming[c].request.id = r.id
    BY <2>4 DEF Told, Waits
  <2>6. Dealt(c, r, "answer")
    BY <1>1, <2>2 DEF Reads, Req
  <2>7. coming[c].request = r
    BY <2>5, <2>6 DEF Dealt
  <2>8. Enters(b, p, r) /\ Shows(b, r)
    BY <1>1, EnteredHas
  <2>9. p.in = "decided" /\ b.in = "none" /\ IsAuth(b)
    BY <1>1 DEF WriteHeaders, At, Resting, Base, TypeInv, Secured
  <2>10. b.id # NoSession
    BY <2>4, <2>9 DEF IsAuth
  <2>11. LoggedOn(b.id, b.user, r.owner)
    <3>1. CASE Entering(r)
      BY <2>8, <2>9, <3>1 DEF Enters, Past
    <3>2. CASE ~ Entering(r)
      BY <2>4, <2>8, <2>9, <2>10, <3>2 DEF Shows, LoggedOn
    <3> QED
      BY <3>1, <3>2
  <2> QED
    BY <2>4, <2>7, <2>11
<1> QED
  BY <1>2

\* More of an answer shows the same.
LEMMA AnswerKeeps ==
  ASSUME Base, NEW t \in Thread, NEW c, NEW r, WriteContent(t, c, r) \/ WritePage(t, c) \/ EndPages(t, c), NEW d \in Connection
  PROVE  LET a == answer[d]
             b == answer'[d]
         IN b.to = a.to /\ b.ok = a.ok /\ b.user = a.user /\ b.id = a.id /\ b.announced = a.announced
<1>1. IsAnswer(answer[d])
  BY DEF Base, TypeInv, Responded
<1>2. PICK a : a = answer[d]
  OBVIOUS
<1>3. \/ answer'[d] = a
      \/ \E s : answer'[d] = [a EXCEPT !.parts = s, !.ended = TRUE, !.mixed = app[t].mixed]
      \/ \E s : answer'[d] = [a EXCEPT !.parts = s, !.mixed = app[t].mixed]
      \/ answer'[d] = [a EXCEPT !.ended = TRUE, !.mixed = app[t].mixed]
  <2>1. CASE WriteContent(t, c, r)
    BY <1>2, <2>1 DEF WriteContent, Base, FileInv
  <2>2. CASE WritePage(t, c)
    BY <1>2, <2>2 DEF WritePage, Base, FileInv
  <2>3. CASE EndPages(t, c)
    BY <1>2, <2>3 DEF EndPages, Base, FileInv
  <2> QED
    BY <2>1, <2>2, <2>3, ZenonT(60)
<1> QED
  BY <1>1, <1>2, <1>3 DEF IsAnswer

\* What a client was told of who it is stays so.
LEMMA NextGranted ==
  ASSUME Base, Base', Entered, Granted, Lasting, [Next]_vars
  PROVE  Granted'
<1> SUFFICES ASSUME NEW c \in Connection, NEW b, b = answer'[c], NEW x, x = coming'[c].request.owner, Told(c)', b.ok
             PROVE  LoggedOn(b.id, b.user, x)'
  BY DEF Granted
<1>1. PICK a, r : a = answer[c] /\ r = coming[c].request
  OBVIOUS
<1>2. CASE b.to = a.to /\ b.ok = a.ok /\ b.user = a.user /\ b.id = a.id
  <2>1. CASE Waits(c) /\ coming'[c].request = r
    <3>1. Told(c) /\ x = r.owner
      BY <1>1, <1>2, <2>1 DEF Told
    <3>2. LoggedOn(a.id, a.user, x)
      BY <1>1, <1>2, <3>1 DEF Granted
    <3> QED
      BY <1>2, <3>2 DEF Lasting
  <2>2. CASE Send(c)
    <3>1. coming'[c].request.id = <<c, client[c].begun + 1>>
      BY <2>2, SendDoes
    <3>2. a.to = <<>> \/ \E m \in Nat : m \in 1 .. client[c].begun /\ a.to = <<c, m>>
      BY <1>1 DEF Base, FileInv, Comes
    <3>3. client[c].begun \in Nat
      BY DEF Base, FileInv, Comes
    <3>4. a.to # <<c, client[c].begun + 1>>
      <4>1. <<>> # <<c, client[c].begun + 1>>
        OBVIOUS
      <4>2. \A m \in Nat : m \in 1 .. client[c].begun => m # client[c].begun + 1
        BY <3>3
      <4>3. \A m \in Nat : m \in 1 .. client[c].begun => <<c, m>> # <<c, client[c].begun + 1>>
        BY <4>2
      <4> QED
        BY <3>2, <4>1, <4>3
    <3> QED
      BY <1>2, <3>1, <3>4 DEF Told
  <2> QED
    BY <1>1, <2>1, <2>2, ComingMoves DEF Told, Base
<1>3. CASE \E t \in Thread : Serving(t)
  <2>1. PICK t \in Thread : Serving(t)
    BY <1>3
  <2>2. CASE answer'[c] = answer[c]
    BY <1>1, <1>2, <2>2
  <2>3. CASE answer'[c] # answer[c]
    <3>1. /\ thread[t].at = "answer"
          /\ \/ WriteHeaders(t, thread[t].c, Req(t)) \/ WriteContent(t, thread[t].c, Req(t))
             \/ WritePage(t, thread[t].c) \/ EndPages(t, thread[t].c)
      BY <2>1, <2>3, AnswerMoves
    <3>2. CASE WriteContent(t, thread[t].c, Req(t)) \/ WritePage(t, thread[t].c) \/ EndPages(t, thread[t].c)
      BY <1>1, <1>2, <3>2, AnswerKeeps
    <3>3. CASE WriteHeaders(t, thread[t].c, Req(t))
      <4>1. c = thread[t].c
        BY <2>3, <3>3 DEF WriteHeaders, Base, FileInv
      <4>2. coming' = coming
        BY <2>1, <3>1 DEF Serving, Task, TakeTask, HandleParts, LockTransactions, CopyPart, HandleResponse, Answer,
                          HandleException, CloseOrRestart
      <4>3. LoggedOn(b.id, b.user, x)
        BY <2>3, <3>1, <3>3, <4>1, <4>2, HeadersGrant
      <4> QED
        BY <4>3 DEF Lasting
    <3> QED
      BY <3>1, <3>2, <3>3
  <2> QED
    BY <2>2, <2>3
<1>4. CASE ~ \E t \in Thread : Serving(t)
  <2>1. answer' = answer
    BY <1>4 DEF Next, Client, Calling, Connect, Send, SendRest, Receive, GoAway, Callback, HandleAccept, HandleHandshake,
                HandleRead, Expires, vars, answers, response
  <2> QED
    BY <1>1, <1>2, <2>1
<1> QED
  BY <1>3, <1>4

LEMMA NextWho == Base /\ WhoInv /\ [Next]_vars => WhoInv'
<1> SUFFICES ASSUME Base, WhoInv, [Next]_vars PROVE WhoInv'
  OBVIOUS
<1>1. Base'
  BY NextBase
<1>2. Lasting /\ Entered'
  BY <1>1, StepLasts, NextEntered DEF WhoInv
<1> QED
  BY <1>1, <1>2, NextUsers, NextIds, NextApart, NextKnown, NextCookied, NextAsking, NextGranted DEF WhoInv

-----------------------------------------------------------------------------
(* At first. *)

\* The cookie of a browser is of a user who logged on.
Baked(q, b) ==
  \/ q.cookies[b] = NoCookie
  \/ \E i \in DOMAIN q.ids, x \in Secret : q.users[x] # NoUser /\ q.cookies[b] = [id |-> i, secret |-> x] /\ q.ids[i] = q.users[x]

\* Who has logged on before, by the plan.
LEMMA PlanHad ==
  ASSUME NEW p \in DOMAIN Plans, NEW q, q = Plans[p]
  PROVE  /\ \A x, y \in Secret : q.users[x] # NoUser /\ q.users[y] = q.users[x] => x = y
         /\ \A i \in DOMAIN q.ids : \E x \in Secret : q.users[x] # NoUser /\ q.ids[i] = q.users[x]
         /\ \A b \in Browser : Baked(q, b)
<1>1. \A x, y \in {z \in Secret : Plans[p].users[z] # NoUser} : Plans[p].users[x] = Plans[p].users[y] => x = y
  BY PlansAssumption, Zenon
<1>2. \A i \in DOMAIN Plans[p].ids : \E x \in {z \in Secret : Plans[p].users[z] # NoUser} : Plans[p].ids[i] = Plans[p].users[x]
  BY PlansAssumption, Zenon
<1>3. \A b \in Browser : Plans[p].cookies[b] = NoCookie
        \/ \E i \in DOMAIN Plans[p].ids, x \in {z \in Secret : Plans[p].users[z] # NoUser} :
             Plans[p].cookies[b] = [id |-> i, secret |-> x] /\ Plans[p].ids[i] = Plans[p].users[x]
  BY PlansAssumption, Zenon
<1> QED
  BY <1>1, <1>2, <1>3 DEF Baked

\* The users of secrets are theirs, and so are the ids that were given.
LEMMA InitBelongs ==
  ASSUME Init, NEW q, q = Plans[plan]
  PROVE  /\ \A x \in Secret : \A u \in {q.users[x]} : u # NoUser => Belongs(u, x)
         /\ \A i \in DOMAIN q.ids, x \in Secret : q.users[x] # NoUser /\ q.ids[i] = q.users[x] => SessionOf(i, x)
         /\ \A i \in SessionId : i > made.sessions => seen[i] = Cleared
<1>1. plan \in DOMAIN Plans /\ AuthenticationInit(q.users, q.ids)
  BY DEF Init
<1>2. PICK n \in 0 .. MaxUser : n = Cardinality({x \in Secret : q.users[x] # NoUser})
  BY <1>1, PlanHas
<1>3. q.users \in [Secret -> 0 .. n] /\ q.ids \in Seq(User) /\ Len(q.ids) <= MaxSession
  BY <1>1, <1>2, PlanHas
<1>4. made = [users |-> n, sessions |-> Len(q.ids)] /\ secrets = q.users /\ raced = [ids |-> {}, secrets |-> {}]
      /\ auth = [t \in Thread |-> NoAuth]
      /\ seen = [i \in SessionId |-> IF i \in DOMAIN q.ids THEN [user |-> q.ids[i], last |-> "fresh"] ELSE Cleared]
  BY <1>1, <1>2 DEF AuthenticationInit
<1>5. made.users = n /\ made.sessions = Len(q.ids) /\ raced.secrets = {} /\ \A t \in Thread : auth[t].in = "none"
  BY <1>4 DEF NoAuth
<1>6. ASSUME NEW x \in Secret, NEW u, u = q.users[x], u # NoUser
      PROVE  Belongs(u, x)
  <2>1. u \in 1 .. n
    BY <1>2, <1>3, <1>6, AuthenticationAssumption DEF NoUser
  <2>2. \A y \in Secret : secrets[y] = u => y = x
    BY <1>1, <1>4, <1>6, PlanHad
  <2> QED
    BY <1>4, <1>5, <1>6, <2>1, <2>2 DEF Belongs
<1>7. DOMAIN q.ids = 1 .. Len(q.ids) /\ Len(q.ids) \in Nat
  BY <1>3
<1>8. DOMAIN q.ids \subseteq SessionId
  BY <1>3, <1>7, AuthenticationAssumption DEF SessionId
<1>9. ASSUME NEW i \in DOMAIN q.ids
      PROVE  OldId(i) /\ seen[i].user = q.ids[i]
  <2>1. seen[i] = [user |-> q.ids[i], last |-> "fresh"]
    BY <1>4, <1>8
  <2>2. seen[i].user = q.ids[i] /\ seen[i].last = "fresh" /\ q.ids[i] # NoUser
    BY <1>3, <2>1, AuthenticationAssumption DEF User, NoUser
  <2> QED
    BY <1>5, <1>7, <2>2 DEF OldId
<1>10. ASSUME NEW i \in DOMAIN q.ids, NEW x \in Secret, q.users[x] # NoUser, q.ids[i] = q.users[x]
       PROVE  SessionOf(i, x)
  BY <1>6, <1>9, <1>10 DEF SessionOf
<1>11. ASSUME NEW i \in SessionId, i > made.sessions
       PROVE  seen[i] = Cleared
  <2>1. i \notin DOMAIN q.ids
    BY <1>5, <1>7, <1>11
  <2> QED
    BY <1>4, <2>1
<1> QED
  BY <1>6, <1>10, <1>11

LEMMA InitWho == Init => WhoInv
<1> SUFFICES ASSUME Init PROVE WhoInv
  OBVIOUS
<1>1. PICK q : q = Plans[plan]
  OBVIOUS
<1>2. /\ plan \in DOMAIN Plans /\ known = q.users /\ cookie = q.cookies /\ secrets = q.users
      /\ auth = [t \in Thread |-> NoAuth] /\ thread = [t \in Thread |-> NoTask]
      /\ coming = [c \in Connection |-> Quiet]
  BY <1>1 DEF Init, AuthenticationInit, SessionInit
<1>3. Users /\ Ids
  BY <1>1, <1>2, InitBelongs DEF Users, Ids
<1>4. \A t \in Thread : auth[t].in = "none" /\ thread[t].at = "idle"
  BY <1>2 DEF NoAuth, NoTask
<1>5. Apart /\ Entered /\ \A t \in Thread : ~ Late(t)
  BY <1>4 DEF Apart, Entered, Late
<1>6. Known
  BY <1>2 DEF Known
<1>7. Cookied
  <2> SUFFICES ASSUME NEW b \in Browser, NEW k, k = cookie[b]
               PROVE  k = NoCookie \/ SessionOf(k.id, k.secret)
    BY DEF Cookied
  <2>1. CASE k # NoCookie
    <3>1. PICK i \in DOMAIN q.ids : \E y \in Secret : q.users[y] # NoUser /\ k = [id |-> i, secret |-> y] /\ q.ids[i] = q.users[y]
      <4>1. Baked(q, b)
        BY <1>1, <1>2, PlanHad
      <4>2. k = q.cookies[b]
        BY <1>2
      <4> QED
        BY <2>1, <4>1, <4>2 DEF Baked
    <3>2. PICK x \in Secret : q.users[x] # NoUser /\ k = [id |-> i, secret |-> x] /\ q.ids[i] = q.users[x]
      BY <3>1
    <3>3. k.id = i /\ k.secret = x
      BY <3>2
    <3>4. SessionOf(i, x)
      BY <1>1, <3>2, InitBelongs
    <3> QED
      BY <3>3, <3>4
  <2> QED
    BY <2>1
<1>8. \A c \in Connection : ~ Waits(c)
  BY <1>2 DEF Waits, Quiet
<1>9. Asking /\ Granted
  BY <1>5, <1>8 DEF Asking, Granted, Told
<1> QED
  BY <1>3, <1>5, <1>6, <1>7, <1>9 DEF WhoInv

\* Who is told to be logged on is the user of his secret.
LEMMA OwnUser ==
  ASSUME Base, WhoInv, NEW c \in Connection, NEW a, a = answer[c], NEW x, x = coming[c].request.owner,
         Answered(c), a.ok, a.id \notin raced.ids, x \notin raced.secrets
  PROVE  a.user # NoUser /\ known[x] \in {NoUser, a.user} /\ Belongs(a.user, x)
<1>1. LoggedOn(a.id, a.user, x)
  BY DEF WhoInv, Granted, Answered, Told
<1>2. a.user # NoUser /\ Belongs(a.user, x)
  BY <1>1 DEF LoggedOn
<1>3. x \in Secret /\ secrets[x] = a.user
  BY <1>2 DEF Belongs
<1>4. known[x] \in {NoUser, secrets[x]}
  BY <1>3 DEF WhoInv, Known
<1> QED
  BY <1>2, <1>3, <1>4
-----------------------------------------------------------------------------
(* The length of what is sent. *)

\* A set of numbers that has 0, and with each number the next, has all.
LEMMA NumberInduct ==
  ASSUME NEW T, 0 \in T, \A n \in Nat : n \in T => n + 1 \in T
  PROVE  Nat \subseteq T
<1> SUFFICES ASSUME Nat \ T # {} PROVE FALSE
  OBVIOUS
<1>1. \A x, y \in Nat : <<x, y>> \in OpToRel(<, Nat) <=> x < y
  BY DEF OpToRel
<1>2. \E x \in Nat \ T : \A y \in Nat \ T : ~ (<<y, x>> \in OpToRel(<, Nat))
  BY NatLessThanWellFounded, WFMin, Zenon
<1>3. PICK x \in Nat \ T : \A y \in Nat \ T : ~ (<<y, x>> \in OpToRel(<, Nat))
  BY <1>2
<1>4. \A y \in Nat \ T : ~ (y < x)
  BY <1>1, <1>3
<1>5. x \in Nat /\ x \notin T
  OBVIOUS
<1>6. x # 0 /\ x - 1 \in Nat /\ x - 1 < x /\ (x - 1) + 1 = x
  BY <1>5
<1>7. x - 1 \in T
  BY <1>4, <1>6
<1> QED
  BY <1>5, <1>6, <1>7

\* The largest number of a set, where it is.
LEMMA MaxIs ==
  ASSUME NEW S, S \subseteq Nat, NEW m \in S, \A y \in S : y <= m
  PROVE  Max(S) = m
<1>1. \E x \in S : \A y \in S : x >= y
  OBVIOUS
<1>2. Max(S) \in S /\ \A y \in S : Max(S) >= y
  BY <1>1 DEF Max
<1>3. Max(S) \in Nat /\ m \in Nat /\ Max(S) >= m /\ Max(S) <= m
  BY <1>2
<1> QED
  BY <1>3

\* The largest of some of the numbers up to n is one of them.
LEMMA MaxThere ==
  ASSUME NEW n \in Nat, NEW S, S \subseteq 1 .. n, S # {}
  PROVE  Max(S) \in S
<1> DEFINE T == {k \in Nat : \A U \in SUBSET (1 .. k) : U # {} => Max(U) \in U}
<1>1. 0 \in T
  <2>1. 1 .. 0 = {}
    OBVIOUS
  <2> QED
    BY <2>1
<1>2. ASSUME NEW k \in Nat, k \in T PROVE k + 1 \in T
  <2> SUFFICES ASSUME NEW U \in SUBSET (1 .. k + 1), U # {} PROVE Max(U) \in U
    OBVIOUS
  <2>1. CASE k + 1 \in U
    <3>1. U \subseteq Nat /\ \A y \in U : y <= k + 1
      OBVIOUS
    <3> QED
      BY <2>1, <3>1, MaxIs
  <2>2. CASE k + 1 \notin U
    <3>1. U \subseteq 1 .. k
      BY <2>2
    <3> QED
      BY <1>2, <3>1
  <2> QED
    BY <2>1, <2>2
<1> HIDE DEF T
<1>3. n \in T
  BY <1>1, <1>2, NumberInduct
<1> QED
  BY <1>3 DEF T

\* f has the sums of the sizes of parts, over the sets of numbers up to n.
Sums(f, n, parts) ==
  f = [s \in SUBSET (1 .. n) |-> IF s = {} THEN 0 ELSE f[s \ {Max(s)}] + parts[Max(s)].size]

\* The numbers up to n + 1 and the last of them.
LEMMA LastOne ==
  ASSUME NEW n \in Nat, NEW s \in SUBSET (1 .. n + 1), n + 1 \in s
  PROVE  Max(s) = n + 1 /\ s \ {n + 1} \in SUBSET (1 .. n)
<1>1. s \subseteq Nat /\ \A y \in s : y <= n + 1
  OBVIOUS
<1>2. Max(s) = n + 1
  BY <1>1, MaxIs
<1>3. s \ {n + 1} \in SUBSET (1 .. n)
  OBVIOUS
<1> QED
  BY <1>2, <1>3

\* There are such sums.
LEMMA SumExists ==
  ASSUME NEW parts, NEW n \in Nat
  PROVE  \E f : Sums(f, n, parts)
<1> DEFINE T == {k \in Nat : \E f : Sums(f, k, parts)}
<1>1. 0 \in T
  <2> DEFINE f == [s \in SUBSET (1 .. 0) |-> 0]
  <2>1. \A s \in SUBSET (1 .. 0) : s = {}
    OBVIOUS
  <2>2. f = [s \in SUBSET (1 .. 0) |-> IF s = {} THEN 0 ELSE f[s \ {Max(s)}] + parts[Max(s)].size]
    BY <2>1
  <2> QED
    BY <2>2 DEF Sums
<1>2. ASSUME NEW k \in Nat, k \in T PROVE k + 1 \in T
  <2>1. PICK f : Sums(f, k, parts)
    BY <1>2
  <2> DEFINE g == [s \in SUBSET (1 .. k + 1) |-> IF k + 1 \in s THEN f[s \ {k + 1}] + parts[k + 1].size ELSE f[s]]
  <2>2. ASSUME NEW s \in SUBSET (1 .. k + 1)
        PROVE  g[s] = IF s = {} THEN 0 ELSE g[s \ {Max(s)}] + parts[Max(s)].size
    <3>1. CASE k + 1 \in s
      <4>1. Max(s) = k + 1 /\ s \ {k + 1} \in SUBSET (1 .. k) /\ s \ {k + 1} \in SUBSET (1 .. k + 1) /\ k + 1 \notin s \ {k + 1} /\ s # {}
        BY <3>1, LastOne
      <4>2. g[s \ {k + 1}] = f[s \ {k + 1}]
        BY <4>1
      <4>3. g[s] = f[s \ {k + 1}] + parts[k + 1].size
        BY <3>1
      <4> QED
        BY <4>1, <4>2, <4>3
    <3>2. CASE k + 1 \notin s
      <4>1. s \in SUBSET (1 .. k) /\ g[s] = f[s]
        BY <3>2
      <4>2. f[s] = IF s = {} THEN 0 ELSE f[s \ {Max(s)}] + parts[Max(s)].size
        BY <2>1, <4>1 DEF Sums
      <4>3. s # {} => s \ {Max(s)} \in SUBSET (1 .. k + 1) /\ k + 1 \notin s \ {Max(s)}
        BY <4>1, <3>2
      <4>4. s # {} => g[s \ {Max(s)}] = f[s \ {Max(s)}]
        BY <4>3
      <4> QED
        BY <4>1, <4>2, <4>4
    <3> QED
      BY <3>1, <3>2
  <2> DEFINE h == [s \in SUBSET (1 .. k + 1) |-> IF s = {} THEN 0 ELSE g[s \ {Max(s)}] + parts[Max(s)].size]
  <2>3. g = h
    <3>1. \A s \in SUBSET (1 .. k + 1) : g[s] = h[s]
      BY <2>2
    <3> HIDE DEF h
    <3>2. DOMAIN h = SUBSET (1 .. k + 1) /\ h = [s \in DOMAIN h |-> h[s]]
      BY DEF h
    <3> QED
      BY <3>1, <3>2
  <2>4. Sums(g, k + 1, parts)
    BY <2>3 DEF Sums
  <2> QED
    BY <2>4
<1> HIDE DEF T
<1>3. n \in T
  BY <1>1, <1>2, NumberInduct
<1> QED
  BY <1>3 DEF T

\* The first n parts of p are those of q.
Alike(n, p, q) == \A i \in 1 .. n : p[i] = q[i]

\* Parts that are the same have the same sums, whatever comes after them.
LEMMA SumsAgree ==
  ASSUME NEW n \in Nat, NEW m \in Nat, NEW p, NEW q, NEW f, NEW g,
         n <= m, Alike(n, p, q), Sums(f, n, p), Sums(g, m, q)
  PROVE  f[1 .. n] = g[1 .. n]
<1> DEFINE Agreed(k) == k <= n => \A s \in SUBSET (1 .. k) : f[s] = g[s]
           T == {k \in Nat : Agreed(k)}
<1>1. 0 \in T
  <2>1. \A s \in SUBSET (1 .. 0) : s = {} /\ s \in SUBSET (1 .. n) /\ s \in SUBSET (1 .. m)
    OBVIOUS
  <2> QED
    BY <2>1 DEF Sums
<1>2. ASSUME NEW k \in Nat, k \in T PROVE k + 1 \in T
  <2>0. k + 1 \in Nat
    OBVIOUS
  <2> SUFFICES Agreed(k + 1)
    <3> HIDE DEF Agreed
    <3> QED
      BY <2>0
  <2> SUFFICES ASSUME k + 1 <= n, NEW s \in SUBSET (1 .. k + 1) PROVE f[s] = g[s]
    OBVIOUS
  <2>1. CASE k + 1 \in s
    <3>1. Max(s) = k + 1 /\ s \ {k + 1} \in SUBSET (1 .. k) /\ s # {}
      BY <2>1, LastOne
    <3>2. f[s \ {k + 1}] = g[s \ {k + 1}] /\ p[k + 1] = q[k + 1]
      BY <1>2, <3>1 DEF Alike
    <3>3. s \in SUBSET (1 .. n) /\ s \in SUBSET (1 .. m)
      OBVIOUS
    <3>4. f[s] = f[s \ {k + 1}] + p[k + 1].size
      BY <3>1, <3>3 DEF Sums
    <3>5. g[s] = g[s \ {k + 1}] + q[k + 1].size
      BY <3>1, <3>3 DEF Sums
    <3> QED
      BY <3>2, <3>4, <3>5
  <2>2. CASE k + 1 \notin s
    BY <1>2, <2>2
  <2> QED
    BY <2>1, <2>2
<1> HIDE DEF T
<1>3. n \in T
  BY <1>1, <1>2, NumberInduct
<1> QED
  BY <1>3 DEF T

\* The length of parts is such a sum.
LEMMA SumOn ==
  ASSUME NEW n \in Nat, NEW parts, DOMAIN parts = 1 .. n
  PROVE  \E f : Sums(f, n, parts) /\ Length(parts) = f[1 .. n]
<1> DEFINE f == CHOOSE f : f = [s \in SUBSET (1 .. n) |-> IF s = {} THEN 0 ELSE f[s \ {Max(s)}] + parts[Max(s)].size]
<1>1. \E g : g = [s \in SUBSET (1 .. n) |-> IF s = {} THEN 0 ELSE g[s \ {Max(s)}] + parts[Max(s)].size]
  BY SumExists DEF Sums
<1>2. f = [s \in SUBSET (1 .. n) |-> IF s = {} THEN 0 ELSE f[s \ {Max(s)}] + parts[Max(s)].size]
  BY <1>1, Zenon
<1>3. Length(parts) = f[1 .. n]
  BY DEF Length, FoldLeft, MapThenFoldSet
<1> HIDE DEF f
<1> QED
  BY <1>2, <1>3 DEF Sums

\* Nothing has no length, and a part adds its size.
LEMMA Lengths ==
  /\ Length(<<>>) = 0
  /\ \A S, s, e : s \in Seq(S) /\ e \in S => Length(Append(s, e)) = Length(s) + e.size
<1>1. Length(<<>>) = 0
  <2>1. DOMAIN <<>> = 1 .. 0 /\ 1 .. 0 = {}
    OBVIOUS
  <2>2. PICK f : Sums(f, 0, <<>>) /\ Length(<<>>) = f[1 .. 0]
    BY <2>1, SumOn
  <2>3. f[{}] = 0
    BY <2>2 DEF Sums
  <2> QED
    BY <2>1, <2>2, <2>3
<1>2. ASSUME NEW S, NEW s \in Seq(S), NEW e \in S PROVE Length(Append(s, e)) = Length(s) + e.size
  <2>1. PICK n, m, q :
          /\ n \in Nat /\ m \in Nat /\ m = n + 1 /\ q = Append(s, e) /\ q[m] = e
          /\ DOMAIN s = 1 .. n /\ DOMAIN q = 1 .. m /\ \A i \in 1 .. n : s[i] = q[i]
    <3>1. Len(s) \in Nat /\ Len(s) + 1 \in Nat
      OBVIOUS
    <3>2. /\ Append(s, e)[Len(s) + 1] = e
          /\ DOMAIN s = 1 .. Len(s) /\ DOMAIN Append(s, e) = 1 .. Len(s) + 1 /\ \A i \in 1 .. Len(s) : s[i] = Append(s, e)[i]
      OBVIOUS
    <3> QED
      BY <3>1, <3>2, Zenon
  <2>2. PICK f : Sums(f, n, s) /\ Length(s) = f[1 .. n]
    BY <2>1, SumOn
  <2>3. PICK g : Sums(g, m, q) /\ Length(q) = g[1 .. m]
    BY <2>1, SumOn
  <2>4. f[1 .. n] = g[1 .. n]
    <3>1. n <= m
      BY <2>1
    <3>2. Alike(n, s, q)
      BY <2>1 DEF Alike
    <3>3. Sums(f, n, s)
      BY <2>2
    <3>4. Sums(g, m, q)
      BY <2>3
    <3>5. n \in Nat
      BY <2>1
    <3>6. m \in Nat
      BY <2>1
    <3> QED
      BY <3>1, <3>2, <3>3, <3>4, <3>5, <3>6, SumsAgree
  <2>5. Max(1 .. m) = m /\ (1 .. m) \ {m} = 1 .. n /\ 1 .. m # {}
    BY <2>1, LastOne
  <2>6. g[1 .. m] = g[(1 .. m) \ {Max(1 .. m)}] + q[Max(1 .. m)].size
    BY <2>3, <2>5 DEF Sums
  <2> QED
    BY <2>1, <2>2, <2>3, <2>4, <2>5, <2>6
<1> QED
  BY <1>1, <1>2

-----------------------------------------------------------------------------
(* What is given: the invariant. *)

\* What a POST posts, as the history has it, and what a user has posted.
Posted(r) == <<r.owner, r.text, r.length>>
Mine(u) == {p \in posted : Belongs(u, p[1])}

\* The requests that are on their way were posted.
Posts ==
  /\ \A p \in posted : p \in (Secret \cup {""}) \X STRING \X (0 .. Most)
  /\ \A c \in Connection : Waits(c) => (coming[c].request.method = "POST" => Posted(coming[c].request) \in posted)
  /\ \A t \in Thread : Late(t) => (Req(t).method = "POST" => Posted(Req(t)) \in posted)

\* The first n pages of text s are those of post p; s is p, whole.
PagesAre(s, p, n) ==
  \A k \in 0 .. MaxPage - 1 : k < n /\ k * PageSize < p[3] =>
    s.pages[k] = [by |-> p[2], size |-> IF (k + 1) * PageSize <= p[3] THEN PageSize ELSE p[3] % PageSize]
TextIs(s, p) == p[3] > 0 /\ s.length = p[3] /\ PagesAre(s, p, MaxPage)

\* Nobody changes the text of u, and no two did at once.
Rests(u) == ~ storage[u].torn /\ \A t \in Thread : auth[t].user = u => app[t].in \notin Changes

\* A text, or a document, is one of the posts P.
Ours(s, P) == s.length = 0 \/ \E p \in P : TextIs(s, p)
Documented(d, P) ==
  /\ d.json # "none" => \E p \in P : p[2] = d.json
  /\ d.http # "none" \/ d.length # 0 => \E p \in P : p[2] = d.http /\ p[3] = d.length

\* A text that nobody changes, and the documents, were posted by the user who has them.
Storing ==
  \A u \in User : \A s \in {storage[u]}, d \in {json[u]}, P \in {Mine(u)} : (Rests(u) => Ours(s, P)) /\ Documented(d, P)

\* Who writes text s has written the first of its pages, and its length, unless another wrote with him.
Writes(a, r, s) ==
  a.in \in Writing /\ ~ s.torn =>
    /\ PagesAre(s, Posted(r), IF a.in = "page" THEN a.page ELSE MaxPage)
    /\ a.in \in {"type", "count"} => s.length = r.length

\* What was sent of p, by parts of which n is the length.
SentOf(parts, n, p) ==
  /\ \A i \in DOMAIN parts : parts[i].by = p[2]
  /\ Length(parts) = n
  /\ n = p[3] \/ (n < p[3] /\ \E k \in 0 .. MaxPage : n = k * PageSize)

\* Who reads reads one of the posts P, unless another wrote meanwhile.
Finds(a, s, d, parts, P) ==
  ~ a.mixed =>
    /\ a.in = "size" => \E p \in P : TextIs(s, p)
    /\ a.in \in {"decided", "content"} /\ a.serve = "data" =>
         \E p \in P : TextIs(s, p) /\ a.length = p[3] /\ (a.in = "content" => SentOf(parts, a.sent, p))
    /\ a.in \in {"decided", "content"} /\ a.serve = "json" => \E p \in P : p[2] = d.json
    /\ a.in \in {"decided", "content"} /\ a.serve = "http" =>
         \E p \in P : p[2] = d.http /\ p[3] = d.length /\ a.length = p[3]

\* Nothing is sent before the headers, and what is sent is sent to who asked.
Sends(a, who, r, b) ==
  /\ a.in \notin {"content", "written"} => a.sent = 0
  /\ a.in = "json" => r.path # "/" \/ r.search # ""
  /\ a.in = "content" => b.ok = who.ok /\ b.user = who.user /\ b.announced = Announced(a)

\* What t writes, reads and sends.
Tells(a, who, r, b, s, d, P) ==
  Sends(a, who, r, b) /\ (who.user # NoUser => Writes(a, r, s) /\ Finds(a, s, d, b.parts, P))
Telling(t) ==
  \A a \in {app[t]}, who \in {auth[t]}, r \in {Req(t)}, b \in {answer[thread[t].c]} :
    \A s \in {storage[who.user]}, d \in {json[who.user]}, P \in {Mine(who.user)} : Tells(a, who, r, b, s, d, P)

\* What an answer gives is one of the posts P, or is of the server.
Gives(b, P) ==
  b.ok /\ b.user # NoUser /\ ~ b.mixed =>
    \/ \A i \in DOMAIN b.parts : b.parts[i].by = "content"
    \/ \E p \in P : /\ \A i \in DOMAIN b.parts : b.parts[i].by = p[2]
                    /\ b.announced # -1 => b.announced = p[3] /\ Length(b.parts) \in 0 .. p[3]
Given == \A c \in Connection : \A b \in {answer[c]} : \A P \in {Mine(b.user)} : Gives(b, P)

TextInv == Posts /\ Storing /\ (\A t \in Thread : thread[t].at = "answer" => Telling(t)) /\ Given

-----------------------------------------------------------------------------
(* The pages of a text. *)

\* Pages of one size.
LEMMA Multiples ==
  ASSUME NEW p \in Nat, NEW k \in Nat
  PROVE  p * k \in Nat /\ k * p = p * k /\ (k + 1) * p = p * k + p
OBVIOUS

\* A size of pages that ends on page k, or on a page before it.
LEMMA Quotient ==
  ASSUME NEW n \in Nat, NEW p \in Nat \ {0}, NEW k \in Nat
  PROVE  /\ p * k <= n /\ n < p * k + p => n \div p = k /\ n % p = n - p * k
         /\ n \div p <= k => n < p * k + p
         /\ n \div p >= k => p * k <= n
<1> DEFINE q == n \div p
<1>1. q \in Nat /\ n % p = n - p * q /\ p * q <= n /\ n < p * q + p
  BY Division
<1> HIDE DEF q
<1>2. p * k \in Nat /\ p * q \in Nat 
  BY <1>1, Multiples
<1>3. ASSUME q < k PROVE p * q + p <= p * k
  <2>1. PICK d \in Nat : k = q + 1 + d
    <3>1. k - q - 1 \in Nat /\ k = q + 1 + (k - q - 1)
      BY <1>1, <1>3
    <3> QED
      BY <3>1
  <2>2. p * k = p * q + p + p * d /\ p * d \in Nat
    BY <1>1, <2>1
  <2> QED
    BY <1>2, <2>2
<1>4. ASSUME k < q PROVE p * k + p <= p * q
  <2>1. PICK d \in Nat : q = k + 1 + d
    <3>1. q - k - 1 \in Nat /\ q = k + 1 + (q - k - 1)
      BY <1>1, <1>4
    <3> QED
      BY <3>1
  <2>2. p * q = p * k + p + p * d /\ p * d \in Nat
    BY <1>1, <2>1
  <2> QED
    BY <1>2, <2>2
<1>5. p * k <= n /\ n < p * k + p => q = k
  BY <1>1, <1>2, <1>3, <1>4
<1>6. q <= k => n < p * k + p
  BY <1>1, <1>2, <1>3, <1>4
<1>7. q >= k => p * k <= n
  BY <1>1, <1>2, <1>3, <1>4
<1> QED
  BY <1>1, <1>2, <1>5, <1>6, <1>7 DEF q

\* One page more is written; after the last of them all are.
LEMMA PageStores ==
  ASSUME NEW r, r.length \in 1 .. Most, NEW k \in 0 .. MaxPage - 1, k < Pages(r),
         NEW s \in Texts, PagesAre(s, Posted(r), k), NEW z, z.pages = [s.pages EXCEPT ![k] = PageOf(r, k)]
  PROVE  PagesAre(z, Posted(r), k + 1) /\ (k + 1 = Pages(r) => PagesAre(z, Posted(r), MaxPage))
<1> DEFINE p == Posted(r)
<1>1. p[2] = r.text /\ p[3] = r.length
  BY DEF Posted
<1> HIDE DEF p
<1>2. s.pages \in [0 .. MaxPage - 1 -> [by : Names, size : 0 .. PageSize]]
  BY DEF Texts
<1>3. PageSize \in Nat \ {0} /\ MaxPage \in Nat \ {0} /\ r.length \in Nat
  BY AppsAssumption, PageNumbers
<1>4. PagesAre(z, p, k + 1)
  <2> SUFFICES ASSUME NEW j \in 0 .. MaxPage - 1, j < k + 1, j * PageSize < p[3]
               PROVE  z.pages[j] = [by |-> p[2], size |-> IF (j + 1) * PageSize <= p[3] THEN PageSize ELSE p[3] % PageSize]
    BY DEF PagesAre
  <2>1. CASE j = k
    BY <1>1, <1>2, <2>1 DEF PageOf
  <2>2. CASE j # k
    <3>1. j < k /\ z.pages[j] = s.pages[j]
      BY <1>2, <2>2
    <3>2. PagesAre(s, p, k)
      BY DEF p
    <3> QED
      BY <3>1, <3>2 DEF PagesAre
  <2> QED
    BY <2>1, <2>2
<1>5. ASSUME k + 1 = Pages(r) PROVE PagesAre(z, p, MaxPage)
  <2> SUFFICES ASSUME NEW j \in 0 .. MaxPage - 1, j * PageSize < p[3] PROVE j < k + 1
    BY <1>4 DEF PagesAre
  <2>1. r.length + PageSize - 1 \in Nat /\ (r.length + PageSize - 1) \div PageSize = k + 1 /\ k + 1 \in Nat /\ j \in Nat
    BY <1>3, <1>5 DEF Pages
  <2>2. ASSUME j >= k + 1 PROVE FALSE
    <3>1. (r.length + PageSize - 1) \div PageSize <= j
      BY <2>1, <2>2
    <3>2. r.length + PageSize - 1 < PageSize * j + PageSize /\ j * PageSize = PageSize * j /\ PageSize * j \in Nat
      BY <1>3, <2>1, <3>1, Quotient, Multiples
    <3>3. j * PageSize < r.length
      BY <1>1
    <3> QED
      BY <1>3, <3>2, <3>3
  <2> QED
    BY <2>1, <2>2
<1> QED
  BY <1>4, <1>5 DEF p

\* A page more is sent of a text that is p, or its end.
LEMMA PageSends ==
  ASSUME NEW p, p[3] \in 1 .. Most, NEW s \in Texts, TextIs(s, p),
         NEW parts \in Seq([by : Names, size : 1 .. Most]), NEW n \in Nat, SentOf(parts, n, p), n < p[3],
         NEW e, e = s.pages[n \div PageSize]
  PROVE  e.size > 0 /\ SentOf(Append(parts, e), n + e.size, p)
<1>1. PageSize \in Nat \ {0} /\ MaxPage \in Nat \ {0} /\ p[3] \in Nat /\ p[3] <= Most /\ Most \in Nat /\ PageSize <= Most
  BY AppsAssumption, PageNumbers
<1>2. PICK k \in 0 .. MaxPage : n = k * PageSize
  <2>1. n # p[3]
    BY <1>1
  <2> QED
    BY <2>1 DEF SentOf
<1>3. k \in Nat /\ k # MaxPage /\ k \in 0 .. MaxPage
  BY <1>1, <1>2 DEF Most
<1>4. PageSize * k \in Nat /\ k * PageSize = PageSize * k /\ (k + 1) * PageSize = PageSize * k + PageSize
  <2>1. PageSize \in Nat
    BY <1>1
  <2> QED
    BY <1>3, <2>1, Multiples, Zenon
<1> DEFINE m == PageSize * k
<1>5. m = n /\ m \in Nat /\ (k + 1) * PageSize = m + PageSize
  BY <1>2, <1>4
<1>6. /\ m <= n /\ n < m + PageSize => n \div PageSize = k
      /\ m <= p[3] /\ p[3] < m + PageSize => p[3] % PageSize = p[3] - m
  <2>1. p[3] \in Nat /\ PageSize \in Nat \ {0}
    BY <1>1
  <2> QED
    BY <1>3, <2>1, Quotient, Zenon
<1> HIDE DEF m
<1>7. k \in 0 .. MaxPage - 1 /\ n \div PageSize = k
  <2>1. k \in 0 .. MaxPage - 1
    BY <1>1, <1>3
  <2>2. m <= n /\ n < m + PageSize
    BY <1>1, <1>5
  <2> QED
    BY <1>6, <2>1, <2>2
<1>8. e = [by |-> p[2], size |-> IF (k + 1) * PageSize <= p[3] THEN PageSize ELSE p[3] % PageSize]
  <2>1. k < MaxPage /\ k * PageSize < p[3]
    BY <1>1, <1>2, <1>7
  <2>2. PagesAre(s, p, MaxPage)
    BY DEF TextIs
  <2> QED
    BY <1>7, <2>1, <2>2 DEF PagesAre
<1>9. e.by = p[2] /\ e.size = IF m + PageSize <= p[3] THEN PageSize ELSE p[3] % PageSize
  BY <1>5, <1>8
<1>10. e.size \in 1 .. Most /\ (n + e.size = p[3] \/ (n + e.size < p[3] /\ k + 1 \in 0 .. MaxPage /\ n + e.size = (k + 1) * PageSize))
  <2>1. CASE m + PageSize <= p[3]
    <3>1. e.size = PageSize /\ n + e.size = m + PageSize
      BY <1>5, <1>9, <2>1
    <3>2. k + 1 \in 0 .. MaxPage
      BY <1>1, <1>7
    <3> QED
      BY <1>1, <1>5, <2>1, <3>1, <3>2
  <2>2. CASE ~ (m + PageSize <= p[3])
    <3>1. p[3] % PageSize = p[3] - m
      BY <1>1, <1>5, <1>6, <2>2
    <3>2. e.size = p[3] - m
      BY <1>9, <2>2, <3>1
    <3>3. n + e.size = p[3] /\ e.size \in 1 .. Most
      BY <1>1, <1>5, <3>2
    <3> QED
      BY <3>3
  <2> QED
    BY <2>1, <2>2
<1>11. Names # {} /\ e \in [by : Names, size : 1 .. Most]
  <2>1. s.pages[k] \in [by : Names, size : 0 .. PageSize]
    BY <1>7 DEF Texts
  <2> QED
    BY <1>7, <1>10, <2>1
<1>12. Length(Append(parts, e)) = Length(parts) + e.size
  BY <1>11, Lengths
<1>13. \A i \in DOMAIN Append(parts, e) : Append(parts, e)[i].by = p[2]
  <2>1. \A i \in DOMAIN parts : parts[i].by = p[2]
    BY DEF SentOf
  <2> QED
    BY <1>9, <1>11, <2>1
<1>14. Length(parts) = n
  BY DEF SentOf
<1> QED
  BY <1>10, <1>12, <1>13, <1>14 DEF SentOf

-----------------------------------------------------------------------------
(* What is posted lasts. *)

\* What is one of some posts is one of more.
LEMMA MorePosts ==
  ASSUME NEW P, NEW Q, P \subseteq Q
  PROVE  /\ \A s : Ours(s, P) => Ours(s, Q)
         /\ \A d : Documented(d, P) => Documented(d, Q)
         /\ \A a, s, d, parts : Finds(a, s, d, parts, P) => Finds(a, s, d, parts, Q)
         /\ \A b : Gives(b, P) => Gives(b, Q)
<1>1. ASSUME NEW s, Ours(s, P) PROVE Ours(s, Q)
  BY <1>1 DEF Ours
<1>2. ASSUME NEW d, Documented(d, P) PROVE Documented(d, Q)
  BY <1>2 DEF Documented
<1>3. ASSUME NEW a, NEW s, NEW d, NEW parts, Finds(a, s, d, parts, P) PROVE Finds(a, s, d, parts, Q)
  <2> SUFFICES ASSUME ~ a.mixed PROVE Finds(a, s, d, parts, Q)
    BY DEF Finds
  <2>1. a.in = "size" => \E p \in Q : TextIs(s, p)
    BY <1>3 DEF Finds
  <2>2. a.in \in {"decided", "content"} /\ a.serve = "data" =>
          \E p \in Q : TextIs(s, p) /\ a.length = p[3] /\ (a.in = "content" => SentOf(parts, a.sent, p))
    BY <1>3 DEF Finds
  <2>3. a.in \in {"decided", "content"} /\ a.serve = "json" => \E p \in Q : p[2] = d.json
    BY <1>3 DEF Finds
  <2>4. a.in \in {"decided", "content"} /\ a.serve = "http" => \E p \in Q : p[2] = d.http /\ p[3] = d.length /\ a.length = p[3]
    BY <1>3 DEF Finds
  <2> QED
    BY <2>1, <2>2, <2>3, <2>4 DEF Finds
<1>4. ASSUME NEW b, Gives(b, P) PROVE Gives(b, Q)
  BY <1>4 DEF Gives
<1> QED
  BY <1>1, <1>2, <1>3, <1>4

\* What was posted stays so.
LEMMA PostsGrow ==
  ASSUME Base, [Next]_vars
  PROVE  posted \subseteq posted'
<1>1. CASE \E c \in Connection : Send(c)
  BY <1>1 DEF Send
<1>2. CASE ~ \E c \in Connection : Send(c)
  <2>1. UNCHANGED posted
    BY <1>2 DEF Next, vars, clients, Client, Calling, Serving, Connect, SendRest, Receive, GoAway, Expires
  <2> QED
    BY <2>1
<1> QED
  BY <1>1, <1>2, SMTT(30)

\* So does what a user has posted.
LEMMA MineGrows ==
  ASSUME Base, Lasting, [Next]_vars
  PROVE  \A u : Mine(u) \subseteq Mine(u)'
BY PostsGrow DEF Mine, Lasting

\* What is on its way is posted when it is sent.
LEMMA NextPosts ==
  ASSUME Base, Posts, [Next]_vars
  PROVE  Posts'
<1> USE DEF Base
<1>1. posted \subseteq posted'
  BY PostsGrow
<1>2. ASSUME NEW c \in Connection, Waits(c)'
      PROVE  coming'[c].request.method = "POST" => Posted(coming'[c].request) \in posted'
  <2>1. CASE Waits(c) /\ coming'[c].request = coming[c].request
    BY <1>1, <2>1 DEF Posts
  <2>2. CASE Send(c)
    <3>1. PICK r : r = coming'[c].request
      OBVIOUS
    <3>2. posted' = IF r.method = "POST" THEN posted \cup {<<r.owner, r.text, r.length>>} ELSE posted
      BY <2>2, <3>1, SendDoes
    <3> QED
      BY <3>1, <3>2 DEF Posted
  <2> QED
    BY <1>2, <2>1, <2>2, ComingMoves
<1>3. ASSUME NEW t \in Thread, Late(t)'
      PROVE  Req(t)'.method = "POST" => Posted(Req(t)') \in posted'
  <2>1. PICK r : r = Req(t)'
    OBVIOUS
  <2>2. CASE Late(t) /\ Req(t)' = Req(t)
    BY <1>1, <2>1, <2>2 DEF Posts
  <2>3. CASE \E c \in Connection : Waits(c) /\ Req(t)' = coming[c].request
    BY <1>1, <2>1, <2>3 DEF Posts
  <2> QED
    BY <1>3, <2>2, <2>3, LateMoves
<1>4. ASSUME NEW p \in posted' PROVE p \in (Secret \cup {""}) \X STRING \X (0 .. Most)
  <2>1. CASE p \in posted
    BY <2>1 DEF Posts
  <2>2. CASE p \notin posted
    <3>1. PICK c \in Connection : Send(c)
      <4>1. CASE ~ \E c \in Connection : Send(c)
        <5>1. UNCHANGED posted
          BY <4>1 DEF Next, vars, clients, Client, Calling, Serving, Connect, SendRest, Receive, GoAway, Expires
        <5> QED
          BY <1>4, <2>2, <5>1
      <4> QED
        BY <4>1
    <3>2. PICK r : r = coming'[c].request
      OBVIOUS
    <3>3. Sendable(r)
      BY <3>1, <3>2, SendTypes DEF TypeInv
    <3>4. p = <<r.owner, r.text, r.length>>
      BY <1>4, <2>2, <3>1, <3>2, SendDoes
    <3> QED
      BY <3>3, <3>4 DEF Sendable
  <2> QED
    BY <2>1, <2>2
<1> QED
  BY <1>2, <1>3, <1>4 DEF Posts

-----------------------------------------------------------------------------
(* What a step of one leaves of what the others write and read. *)

\* Who sees a change of what he reads, and writes with who made it, is mixed, and his text is torn.
LEMMA OthersTell ==
  ASSUME NEW a \in AppRecords, NEW a2, a2 = a \/ a2 = [a EXCEPT !.mixed = TRUE],
         NEW who, NEW r, NEW b, NEW s, NEW d, NEW P, Tells(a, who, r, b, s, d, P),
         NEW s2, NEW d2, NEW Q, P \subseteq Q,
         who.user # NoUser => \/ s2 = s /\ d2 = d
                              \/ a2.mixed /\ (s2 = s \/ s2.torn \/ a.in \notin Changes)
  PROVE  Tells(a2, who, r, b, s2, d2, Q)
<1>1. a2.in = a.in /\ a2.sent = a.sent /\ a2.serve = a.serve /\ a2.page = a.page /\ a2.length = a.length
      /\ a2.status = a.status /\ a2.n = a.n /\ (a2.mixed \/ a2 = a)
  BY DEF AppRecords
<1>2. Announced(a2) = Announced(a)
  BY <1>1 DEF Announced
<1>3. Sends(a2, who, r, b)
  BY <1>1, <1>2 DEF Tells, Sends
<1>4. ASSUME who.user # NoUser PROVE Writes(a2, r, s2) /\ Finds(a2, s2, d2, b.parts, Q)
  <2>1. Writes(a, r, s) /\ Finds(a, s, d, b.parts, P)
    BY <1>4 DEF Tells
  <2>2. Writes(a2, r, s2)
    <3>1. CASE s2 = s
      BY <1>1, <2>1, <3>1 DEF Writes
    <3>2. CASE s2.torn \/ a.in \notin Changes
      BY <1>1, <3>2 DEF Writes, Writing, Changes
    <3> QED
      BY <1>4, <3>1, <3>2
  <2>3. Finds(a2, s2, d2, b.parts, Q)
    <3>1. CASE a2.mixed
      BY <3>1 DEF Finds
    <3>2. CASE ~ a2.mixed
      <4>1. a2 = a /\ s2 = s /\ d2 = d
        BY <1>1, <1>4, <3>2
      <4> QED
        BY <2>1, <4>1, MorePosts
    <3> QED
      BY <3>1, <3>2
  <2> QED
    BY <2>2, <2>3
<1> QED
  BY <1>3, <1>4 DEF Tells

\* A step of t changes what the user of t has, which the others of the user see.
Alters(t) ==
  \A u \in User :
    \/ storage'[u] = storage[u] /\ json'[u] = json[u]
    \/ /\ u = auth[t].user
       /\ \A o \in Others(t) : app'[o].mixed /\ (storage'[u] = storage[u] \/ storage'[u].torn \/ app[o].in \notin Changes)

\* Nobody else sends to the connection that t serves.
LEMMA AnswersApart ==
  ASSUME Base, NEW t \in Thread, Serving(t), NEW o \in Thread \ {t}, thread[o].at # "idle"
  PROVE  answer'[thread[o].c] = answer[thread[o].c]
<1>1. thread[o].c \in Connection
  BY ServedSession DEF Base
<1>2. CASE answer' = answer
  BY <1>2
<1>3. CASE answer' # answer
  <2>1. /\ thread[t].at = "answer"
        /\ \/ WriteHeaders(t, thread[t].c, Req(t)) \/ WriteContent(t, thread[t].c, Req(t))
           \/ WritePage(t, thread[t].c) \/ EndPages(t, thread[t].c)
    BY <1>3, AnswerMoves
  <2>2. thread[t].c # thread[o].c
    BY <1>1, <2>1, SMTT(30) DEF Base, HandInv, Alone, Serves
  <2>3. \A d \in Connection \ {thread[t].c} : answer'[d] = answer[d]
    BY <2>1 DEF WriteHeaders, WriteContent, WritePage, EndPages, Base, FileInv
  <2> QED
    BY <1>1, <2>2, <2>3
<1> QED
  BY <1>2, <1>3

\* What the others write, read and send stays so.
LEMMA OthersTelling ==
  ASSUME Base, Lasting, [Next]_vars, NEW t \in Thread, Serving(t), Alters(t),
         NEW o \in Thread \ {t}, thread'[o].at = "answer", thread[o].at = "answer" => Telling(o)
  PROVE  Telling(o)'
<1>1. UNCHANGED app \/ \E d \in AppRecords : Turns(t, d)
  BY ServingTurns DEF Base, TypeInv
<1>2. OthersStay(t)
  BY <1>1, ServingOthers DEF Base, TypeInv
<1>3. /\ thread'[o] = thread[o] /\ auth'[o] = auth[o] /\ Req(o)' = Req(o) /\ thread[o].at = "answer"
      /\ app'[o] = app[o] \/ app'[o] = [app[o] EXCEPT !.mixed = TRUE]
  BY <1>2 DEF OthersStay, Late
<1>4. PICK a, a2, who, r, b : a = app[o] /\ a2 = app'[o] /\ who = auth[o] /\ r = Req(o) /\ b = answer[thread[o].c]
  OBVIOUS
<1> DEFINE u == who.user
<1>s. PICK s, d, P, s2, d2, Q :
        s = storage[u] /\ d = json[u] /\ P = Mine(u) /\ s2 = storage'[u] /\ d2 = json'[u] /\ Q = Mine(u)'
  OBVIOUS
<1>5. Tells(a, who, r, b, s, d, P)
  BY <1>3, <1>4, <1>s DEF Telling
<1>6. b = answer'[thread'[o].c]
  <2>1. thread[o].at # "idle"
    BY <1>3
  <2>2. answer'[thread[o].c] = answer[thread[o].c]
    BY <2>1, AnswersApart
  <2>3. thread'[o].c = thread[o].c
    BY <1>3
  <2> QED
    BY <1>4, <2>2, <2>3
<1>7. P \subseteq Q
  BY <1>s, MineGrows
<1>8. a \in AppRecords /\ a.in # "none" /\ who \in Auths
  BY <1>3, <1>4 DEF Base, TypeInv, Applied, Placed, Secured
<1>9. ASSUME who.user # NoUser
      PROVE  (s2 = s /\ d2 = d) \/ (a2.mixed /\ (s2 = s \/ s2.torn \/ a.in \notin Changes))
  <2>1. who.user \in User
    BY <1>8, <1>9 DEF Auths
  <2>2. CASE storage'[who.user] = storage[who.user] /\ json'[who.user] = json[who.user]
    BY <1>s, <2>2
  <2>3. CASE /\ who.user = auth[t].user
             /\ \A i \in Others(t) : app'[i].mixed /\ (s2 = s \/ s2.torn \/ app[i].in \notin Changes)
    <3>1. o \in Others(t)
      BY <1>4, <1>8, <2>3 DEF Others
    <3> QED
      BY <1>4, <2>3, <3>1
  <2> QED
    BY <1>4, <1>s, <2>1, <2>2, <2>3 DEF Alters
<1>10. Tells(a2, who, r, b, s2, d2, Q)
  BY <1>3, <1>4, <1>5, <1>7, <1>8, <1>9, OthersTell
<1> QED
  BY <1>3, <1>4, <1>s, <1>6, <1>10 DEF Telling

-----------------------------------------------------------------------------
(* The steps that begin nothing of a text. *)

\* From a to b, an application finds nothing of a text, and writes none but what it begins to.
Plain(a, b, r) ==
  /\ b.in \notin {"length", "type", "count", "size", "content"}
  /\ b.in = "written" \/ (a.in \notin {"content", "written"} /\ b.sent = a.sent)
  /\ b.in = "page" => b.page = 0
  /\ b.in = "decided" => b.serve \in {"content", "file", "query"}
  /\ b.in = "json" => r.path # "/" \/ r.search # ""

LEMMA PlainTells ==
  ASSUME NEW a, NEW b, NEW r, Plain(a, b, r), a.in \notin {"content", "written"} => a.sent = 0
  PROVE  \A who, e, s, d, P : Tells(b, who, r, e, s, d, P)
<1> SUFFICES ASSUME NEW who, NEW e, NEW s, NEW d, NEW P PROVE Tells(b, who, r, e, s, d, P)
  OBVIOUS
<1>1. Sends(b, who, r, e)
  BY DEF Sends, Plain
<1>2. Writes(b, r, s)
  <2> SUFFICES ASSUME b.in \in Writing PROVE b.in = "page" /\ b.page = 0 /\ PagesAre(s, Posted(r), 0)
    BY DEF Writes
  <2>1. b.in = "page" /\ b.page = 0
    BY DEF Plain, Writing
  <2>2. PagesAre(s, Posted(r), 0)
    BY AppsAssumption DEF PagesAre
  <2> QED
    BY <2>1, <2>2
<1>3. Finds(b, s, d, e.parts, P)
  BY DEF Finds, Plain
<1> QED
  BY <1>1, <1>2, <1>3 DEF Tells

\* The ways in which an application goes on.
LEMMA PlainTurns ==
  ASSUME app \in [Thread -> AppRecords], NEW t \in Thread, NEW a, a = app[t], NEW b, b = app'[t], a.in \notin {"content", "written"}
  PROVE  /\ \A r : Pass(t) => Plain(a, b, r)
         /\ \A r, status, serve : serve \in {"content", "file"} /\ Decide(t, status, serve) => Plain(a, b, r)
         /\ \A r, in : Continue(t, in) /\ in \in {"thrown", "status", "check", "storage", "has", "drop", "written"} => Plain(a, b, r)
         /\ \A r : Continue(t, "page") /\ a.page = 0 => Plain(a, b, r)
         /\ \A r : Continue(t, "json") /\ (r.path # "/" \/ r.search # "") => Plain(a, b, r)
<1>1. a \in AppRecords
  OBVIOUS
<1>2. ASSUME Pass(t) PROVE \A r : Plain(a, b, r)
  <2>1. b = [a EXCEPT !.n = @ + 1, !.in = "start"]
    BY <1>2 DEF Pass, Do
  <2>2. b.in = "start" /\ b.sent = a.sent
    BY <1>1, <2>1 DEF AppRecords
  <2> QED
    BY <2>2 DEF Plain
<1>3. ASSUME NEW status, NEW serve \in {"content", "file"}, Decide(t, status, serve) PROVE \A r : Plain(a, b, r)
  <2>1. b = [a EXCEPT !.in = "decided", !.status = status, !.serve = serve]
    BY <1>3 DEF Decide, Do
  <2>2. b.in = "decided" /\ b.sent = a.sent /\ b.serve = serve
    BY <1>1, <2>1 DEF AppRecords
  <2> QED
    BY <2>2 DEF Plain
<1>4. ASSUME NEW in, Continue(t, in) PROVE b.in = in /\ b.sent = a.sent /\ b.page = a.page
  <2>1. b = [a EXCEPT !.in = in]
    BY <1>4 DEF Continue, Do
  <2> QED
    BY <1>1, <2>1 DEF AppRecords
<1>5. ASSUME NEW r, NEW in, Continue(t, in), in \in {"thrown", "status", "check", "storage", "has", "drop", "written"} PROVE Plain(a, b, r)
  BY <1>4, <1>5 DEF Plain
<1>6. ASSUME NEW r, Continue(t, "page"), a.page = 0 PROVE Plain(a, b, r)
  <2>1. b.in = "page" /\ b.sent = a.sent /\ b.page = a.page
    BY <1>4, <1>6, Zenon
  <2> QED
    BY <1>6, <2>1 DEF Plain
<1>7. ASSUME NEW r, Continue(t, "json"), r.path # "/" \/ r.search # "" PROVE Plain(a, b, r)
  <2>1. b.in = "json" /\ b.sent = a.sent /\ b.page = a.page
    BY <1>4, <1>7, Zenon
  <2> QED
    BY <1>7, <2>1 DEF Plain
<1> QED
  BY <1>2, <1>3, <1>5, <1>6, <1>7

\* The applications that have no handle, and the first of StorageApp and JSONApp.
LEMMA AppsPlain ==
  ASSUME NEW t \in Thread, NEW r, Turning(t, r),
         \/ OptionsApp(t, r) \/ FileSystemApp(t, r) \/ NotFoundApp(t, r) \/ AuthenticationApp(t, r) \/ AuthenticationAnswer(t, r)
         \/ StorageApp(t, r) \/ StorageMethod(t, r) \/ Stored(t) \/ JSONApp(t, r)
  PROVE  Plain(app[t], app'[t], r) /\ UNCHANGED <<storage, json>> /\ app[t].in \notin Changes
<1>1. PICK a, b : a = app[t] /\ b = app'[t] /\ a \in AppRecords /\ app \in [Thread -> AppRecords]
  BY DEF Turning
<1>2. CASE OptionsApp(t, r) \/ FileSystemApp(t, r) \/ NotFoundApp(t, r)
  <2>1. a.in = "start" /\ UNCHANGED <<storage, json>>
    BY <1>1, <1>2 DEF OptionsApp, FileSystemApp, NotFoundApp, At
  <2>2. Pass(t) \/ Throw(t) \/ \E status, serve : serve \in {"content", "file"} /\ Decide(t, status, serve)
    <3>1. r.path \in DOMAIN Files /\ Files[r.path] \in Kinds
      BY AppsAssumption DEF Turning, Proper
    <3>2. CASE FileSystemApp(t, r)
      BY <3>1, <3>2, ZenonT(60) DEF FileSystemApp, Kinds
    <3>3. CASE OptionsApp(t, r) \/ NotFoundApp(t, r)
      BY <3>3 DEF OptionsApp, NotFoundApp
    <3> QED
      BY <1>2, <3>2, <3>3
  <2> QED
    BY <1>1, <2>1, <2>2, PlainTurns DEF Throw, Changes
<1>3. CASE AuthenticationApp(t, r)
  <2>1. a.in = "start" /\ UNCHANGED <<storage, json>>
    BY <1>1, <1>3 DEF AuthenticationApp, At
  <2>2. Pass(t) \/ Continue(t, "thrown") \/ Continue(t, "status") \/ Continue(t, "check")
    <3>1. Asked(r) \in {"other", "getStatus", "none", "logon", "logoff"}
      BY DEF Asked, Turning, Proper
    <3> QED
      BY <1>3, <3>1 DEF AuthenticationApp, Throw
  <2> QED
    BY <1>1, <2>1, <2>2, PlainTurns DEF Changes
<1>4. CASE AuthenticationAnswer(t, r)
  <2>1. a.in \in {"status", "check"} /\ UNCHANGED <<storage, json>>
    BY <1>1, <1>4 DEF AuthenticationAnswer, At
  <2>2. Pass(t) \/ \E status, serve : serve \in {"content", "file"} /\ Decide(t, status, serve)
    BY <1>4 DEF AuthenticationAnswer
  <2> QED
    BY <1>1, <2>1, <2>2, PlainTurns DEF Changes
<1>5. CASE StorageApp(t, r)
  <2>1. a.in = "start" /\ UNCHANGED <<storage, json>>
    BY <1>1, <1>5 DEF StorageApp, At
  <2>2. Pass(t) \/ Continue(t, "storage")
    BY <1>5 DEF StorageApp
  <2> QED
    BY <1>1, <2>1, <2>2, PlainTurns DEF Changes
<1>6. CASE StorageMethod(t, r)
  <2>1. a.in = "storage" /\ UNCHANGED <<storage, json>>
    BY <1>1, <1>6 DEF StorageMethod, Within
  <2>2. Pass(t) \/ Continue(t, "has") \/ Continue(t, "drop") \/ Continue(t, "page")
    BY <1>1, <1>6, <2>1, KeepingTypes DEF StorageMethod, Keeping
  <2>3. a.page = 0
    BY <1>1, <2>1 DEF Turning, Placed, Keeping
  <2> QED
    BY <1>1, <2>1, <2>2, <2>3, PlainTurns DEF Changes
<1>7. CASE Stored(t)
  <2>1. a.in = "stored" /\ UNCHANGED <<storage, json>> /\ Decide(t, 200, "content")
    BY <1>1, <1>7 DEF Stored, Within
  <2> QED
    BY <1>1, <2>1, PlainTurns DEF Changes
<1>8. CASE JSONApp(t, r)
  <2>1. a.in = "start" /\ UNCHANGED <<storage, json>>
    BY <1>1, <1>8 DEF JSONApp, At
  <2>2. \/ Pass(t) \/ Decide(t, 500, "content")
        \/ Continue(t, "json") /\ (r.path # "/" \/ r.search # "")
    BY <1>8 DEF JSONApp
  <2> QED
    BY <1>1, <2>1, <2>2, PlainTurns DEF Changes
<1> QED
  BY <1>2, <1>3, <1>4, <1>5, <1>6, <1>7, <1>8

-----------------------------------------------------------------------------
(* The steps that change a text. *)

\* A change of what t stores: whoever has the same user sees it, and the text is torn if he changes it too.
LEMMA Changed ==
  ASSUME NEW t \in Thread, NEW r, Turning(t, r), NEW text \in Texts, NEW step, NEW page, Change(t, text, step, page),
         NEW a, a = app[t], NEW b, b = app'[t], NEW s, s = storage'[auth[t].user]
  PROVE  /\ b.in = step /\ b.page = page /\ b.sent = a.sent
         /\ s.pages = text.pages /\ s.length = text.length /\ (~ s.torn => ~ text.torn)
         /\ UNCHANGED <<json, authentication>> /\ Alters(t)
         /\ \A v \in User : v # auth[t].user => storage'[v] = storage[v]
<1>1. a \in AppRecords /\ app \in [Thread -> AppRecords] /\ storage \in [User \cup {NoUser} -> Texts] /\ auth[t].user \in User \cup {NoUser}
  BY DEF Turning, Texted, Auths
<1>2. storage' = [storage EXCEPT ![auth[t].user] = [text EXCEPT !.torn = text.torn \/ Disturbed(t)]] /\ UNCHANGED <<json, authentication>>
  BY DEF Change
<1>3. s = [text EXCEPT !.torn = text.torn \/ Disturbed(t)] /\ \A v \in User : v # auth[t].user => storage'[v] = storage[v]
  BY <1>1, <1>2
<1>4. s.pages = text.pages /\ s.length = text.length /\ s.torn = (text.torn \/ Disturbed(t))
  BY <1>3 DEF Texts
<1>5. b = [a EXCEPT !.in = step, !.page = page] /\ \A o \in Others(t) : app'[o] = [app[o] EXCEPT !.mixed = TRUE]
  BY <1>1 DEF Change, Mix, Others
<1>6. b.in = step /\ b.page = page /\ b.sent = a.sent
  BY <1>1, <1>5 DEF AppRecords
<1>7. ASSUME NEW o \in Others(t) PROVE app'[o].mixed /\ (s.torn \/ app[o].in \notin Changes)
  <2>1. o \in Thread /\ app[o] \in AppRecords
    BY <1>1 DEF Others
  <2>2. app'[o].mixed
    BY <1>5, <2>1 DEF AppRecords
  <2>3. app[o].in \in Changes => Disturbed(t)
    BY DEF Disturbed
  <2> QED
    BY <1>4, <2>2, <2>3
<1>8. Alters(t)
  BY <1>2, <1>3, <1>7 DEF Alters
<1> QED
  BY <1>2, <1>3, <1>4, <1>6, <1>8

\* The steps of who stores: what they change of the text, and what is next.
LEMMA StoreSteps ==
  ASSUME NEW t \in Thread, NEW r, Turning(t, r), NEW a, a = app[t], NEW b, b = app'[t],
         NEW s, s = storage[auth[t].user], NEW z, z = storage'[auth[t].user],
         StorePage(t, r) \/ StoreLength(t, r) \/ StoreType(t) \/ StoreCount(t, r)
  PROVE  /\ a.in \in Writing /\ s \in Texts /\ b.sent = a.sent /\ (~ z.torn => ~ s.torn) /\ Alters(t) /\ UNCHANGED <<json, authentication>>
         /\ \A v \in User : v # auth[t].user => storage'[v] = storage[v]
         /\ \/ /\ a.in = "page" /\ a.page \in 0 .. MaxPage - 1 /\ a.page < Pages(r) /\ b.page = a.page + 1
               /\ z.pages = [s.pages EXCEPT ![a.page] = PageOf(r, a.page)]
               /\ b.in = IF a.page + 1 = Pages(r) THEN "length" ELSE "page"
            \/ /\ z.pages = s.pages
               /\ \/ a.in = "length" /\ b.in = "type" /\ z.length = r.length
                  \/ a.in = "type" /\ b.in = "count" /\ z.length = s.length
                  \/ a.in = "count" /\ b.in = "stored" /\ z.length = s.length
<1>1. a \in AppRecords /\ s \in Texts /\ Sendable(r) /\ Placed(a, r, auth[t])
  BY DEF Turning, Texted, Auths
<1>2. r.length \in 0 .. Most /\ Pages(r) \in 0 .. MaxPage
  BY <1>1, PageNumbers DEF Sendable
<1>3. CASE StorePage(t, r)
  <2> DEFINE text == [s EXCEPT !.pages[a.page] = PageOf(r, a.page)]
  <2>1. a.in = "page" /\ Change(t, text, IF a.page + 1 = Pages(r) THEN "length" ELSE "page", a.page + 1)
    BY <1>3 DEF StorePage, Within
  <2>2. a.page \in 0 .. MaxPage
    BY <1>1 DEF AppRecords
  <2>5. a.page < Pages(r)
    BY <1>1, <2>1 DEF Placed
  <2>3. a.page \in 0 .. MaxPage - 1
    BY <1>2, <2>2, <2>5, AppsAssumption
  <2>4. text \in Texts /\ text.pages = [s.pages EXCEPT ![a.page] = PageOf(r, a.page)] /\ text.torn = s.torn
    BY <1>1, <2>3, TextFields DEF Texts
  <2> HIDE DEF text
  <2> QED
    BY <1>1, <2>1, <2>2, <2>3, <2>4, <2>5, Changed DEF Writing
<1>4. CASE StoreLength(t, r)
  <2> DEFINE text == [s EXCEPT !.length = r.length]
  <2>1. a.in = "length" /\ Change(t, text, "type", a.page)
    BY <1>4 DEF StoreLength, Within
  <2>2. text \in Texts /\ text.pages = s.pages /\ text.torn = s.torn /\ text.length = r.length
    BY <1>1, <1>2 DEF Texts
  <2> HIDE DEF text
  <2> QED
    BY <1>1, <2>1, <2>2, Changed DEF Writing
<1>5. CASE StoreType(t)
  <2> DEFINE text == [s EXCEPT !.type = TRUE]
  <2>1. a.in = "type" /\ Change(t, text, "count", a.page)
    BY <1>5 DEF StoreType, Within
  <2>2. text \in Texts /\ text.pages = s.pages /\ text.torn = s.torn /\ text.length = s.length
    BY <1>1 DEF Texts
  <2> HIDE DEF text
  <2> QED
    BY <1>1, <2>1, <2>2, Changed DEF Writing
<1>6. CASE StoreCount(t, r)
  <2> DEFINE text == [s EXCEPT !.count = Pages(r)]
  <2>1. a.in = "count" /\ Change(t, text, "stored", a.page)
    BY <1>6 DEF StoreCount, Within
  <2>2. text \in Texts /\ text.pages = s.pages /\ text.torn = s.torn /\ text.length = s.length
    BY <1>1, <1>2 DEF Texts
  <2> HIDE DEF text
  <2> QED
    BY <1>1, <2>1, <2>2, Changed DEF Writing
<1> QED
  BY <1>3, <1>4, <1>5, <1>6

\* The steps of who drops.
LEMMA DropSteps ==
  ASSUME NEW t \in Thread, NEW r, Turning(t, r), NEW a, a = app[t], NEW b, b = app'[t],
         NEW z, z = storage'[auth[t].user], DropPage(t) \/ Drop(t)
  PROVE  /\ a.in = "drop" /\ b.sent = a.sent /\ Alters(t) /\ UNCHANGED <<json, authentication>>
         /\ \A v \in User : v # auth[t].user => storage'[v] = storage[v]
         /\ b.in = "drop" \/ (b.in = "stored" /\ z.length = 0)
<1>1. a \in AppRecords /\ storage[auth[t].user] \in Texts
  BY DEF Turning, Texted, Auths
<1>2. CASE DropPage(t)
  <2> DEFINE text == [storage[auth[t].user] EXCEPT !.pages[a.page] = NoPage]
  <2>1. a.in = "drop" /\ Change(t, text, "drop", a.page + 1)
    BY <1>2 DEF DropPage, Within
  <2>2. text \in Texts
    BY <1>1, TextFields DEF Texts
  <2> HIDE DEF text
  <2> QED
    BY <2>1, <2>2, Changed
<1>3. CASE Drop(t)
  <2>1. a.in = "drop" /\ Change(t, Nothing, "stored", a.page)
    BY <1>3 DEF Drop, Within
  <2>2. Nothing \in Texts /\ Nothing.length = 0
    BY TextFields DEF Nothing
  <2> QED
    BY <2>1, <2>2, Changed
<1> QED
  BY <1>2, <1>3

-----------------------------------------------------------------------------
(* What the users have. *)

\* The steps of a thread: what it stores is left, or an application of its request does something.
LEMMA ServingDoes ==
  ASSUME Base, NEW t \in Thread, Serving(t)
  PROVE  \/ thread[t].at = "answer" /\ UNCHANGED tasks /\ ResponseStep(t, thread[t].c, Req(t)) /\ auth[t].in = "none"
         \/ /\ UNCHANGED <<storage, json>>
            /\ app[t].in \in Changes => app'[t].in \in Changes /\ auth'[t].user = auth[t].user
<1>1. CASE thread[t].at # "answer"
  <2>1. app[t].in \notin Changes
    BY <1>1 DEF Base, TypeInv, Applied, NoApp, Changes
  <2>2. UNCHANGED <<storage, json>>
    BY <1>1 DEF Serving, Task, TakeTask, HandleParts, LockTransactions, CopyPart, HandleResponse, Answer, HandleException, CloseOrRestart,
                answers, apps
  <2> QED
    BY <2>1, <2>2
<1>2. CASE thread[t].at = "answer"
  <2>0. Placed(app[t], Req(t), auth[t])
    BY <1>2 DEF Base, TypeInv, Applied
  <2>1. CASE HandleException(t) \/ CloseOrRestart(t)
    BY <2>1 DEF HandleException, CloseOrRestart, At, Changes
  <2>2. CASE Answer(t)
    <3>1. CASE ResponseStep(t, thread[t].c, Req(t))
      <4>1. UNCHANGED tasks
        BY <2>2 DEF Answer
      <4>2. CASE AuthenticationApp(t, Req(t))
        BY <1>2, <3>1, <4>1, <4>2 DEF AuthenticationApp, At, Resting
      <4>3. CASE ~ AuthenticationApp(t, Req(t))
        <5>1. AppForm
          BY DEF Base, PoolInv
        <5> QED
          BY <1>2, <3>1, <4>1, <4>3, <5>1, AppGoes
      <4> QED
        BY <4>2, <4>3
    <3>2. CASE PoolStep(t) /\ UNCHANGED <<response, apps, authentication>>
      BY <3>2 DEF apps, authentication
    <3>3. CASE AuthenticationStep(t) /\ UNCHANGED <<response, apps>>
      <4>1. auth[t].in # "none"
        BY <3>3 DEF AuthenticationStep, Authenticate, CheckTime, StampTime, ReadUser, Logon, CreateUser, StoreSecret, StoreSession,
                    StoreLast, Logoff, In
      <4>2. app[t].in \notin Changes
        BY <2>0, <4>1 DEF Placed, Changes
      <4> QED
        BY <3>3, <4>2 DEF apps
    <3> QED
      BY <2>2, <3>1, <3>2, <3>3 DEF Answer, Req
  <2>3. ~ (TakeTask(t) \/ HandleParts(t) \/ LockTransactions(t) \/ CopyPart(t) \/ HandleResponse(t))
    <3>1. ~ TakeTask(t)
      BY <1>2 DEF TakeTask, Idle, NoTask
    <3> QED
      BY <1>2, <3>1 DEF HandleParts, LockTransactions, CopyPart, HandleResponse
  <2> QED
    BY <2>1, <2>2, <2>3 DEF Serving, Task
<1> QED
  BY <1>1, <1>2

\* What t leaves others.
LEMMA OthersGo ==
  ASSUME Base, NEW t \in Thread, Serving(t)
  PROVE  OthersStay(t)
BY ServingTurns, ServingOthers DEF Base, TypeInv

\* A text that nobody changes after a step was changed by nobody before, if who changes it goes on with that.
LEMMA RestsStay ==
  ASSUME NEW u, NEW t \in Thread, OthersStay(t), app \in [Thread -> AppRecords], storage'[u] = storage[u],
         auth[t].user = u /\ app[t].in \in Changes => app'[t].in \in Changes /\ auth'[t].user = u,
         Rests(u)'
  PROVE  Rests(u)
<1>1. ASSUME NEW o \in Thread, auth[o].user = u, app[o].in \in Changes PROVE auth'[o].user = u /\ app'[o].in \in Changes
  <2>1. CASE o = t
    BY <1>1, <2>1
  <2>2. CASE o # t
    <3>1. app[o] \in AppRecords /\ auth'[o] = auth[o] /\ (app'[o] = app[o] \/ app'[o] = [app[o] EXCEPT !.mixed = TRUE])
      BY <2>2 DEF OthersStay
    <3>2. app'[o].in = app[o].in
      BY <3>1 DEF AppRecords
    <3> QED
      BY <1>1, <3>1, <3>2
  <2> QED
    BY <2>1, <2>2
<1> QED
  BY <1>1 DEF Rests

\* Who stores a text stores what he posted, as the user he is.
LEMMA OwnPost ==
  ASSUME Base, Entered, Posts, NEW t \in Thread, thread[t].at = "answer", NEW who, who = auth[t], NEW r, r = Req(t), NEW a, a = app[t],
         who.in = "none", a.in \notin {"start", "thrown"}, who.user # NoUser, r.method = "POST"
  PROVE  Posted(r) \in Mine(who.user) /\ Belongs(who.user, r.owner)
<1>1. Enters(who, a, r) /\ Shows(who, r)
  BY EnteredHas
<1>2. Past(who, a)
  BY DEF Past
<1>3. Belongs(who.user, r.owner)
  <2>1. CASE Entering(r)
    BY <1>1, <1>2, <2>1 DEF Enters, LoggedOn
  <2>2. CASE ~ Entering(r)
    BY <1>1, <2>2 DEF Shows
  <2> QED
    BY <2>1, <2>2
<1>4. Posted(r) \in posted
  BY DEF Posts, Late
<1>5. Posted(r)[1] = r.owner
  BY DEF Posted
<1> QED
  BY <1>3, <1>4, <1>5 DEF Mine
\* What a POST leaves of the document of its user.
PostsTo(e, d, r) ==
  \/ e = d
  \/ e.json = r.text /\ e.http = d.http /\ e.length = d.length
  \/ e.json = d.json /\ e.http = r.text /\ e.length = r.length

\* Who posts a document writes it, or none.
LEMMA PostDoes ==
  ASSUME NEW t \in Thread, NEW r, Turning(t, r), PostDocument(t, r), NEW a, a = app[t], NEW b, b = app'[t],
         NEW d, d = json[auth[t].user], NEW e, e = json'[auth[t].user]
  PROVE  /\ a.in = "json" /\ r.method = "POST" /\ Plain(a, b, r) /\ Alters(t) /\ UNCHANGED storage /\ PostsTo(e, d, r)
         /\ \A v \in User : v # auth[t].user => json'[v] = json[v]
<1>1. a \in AppRecords /\ app \in [Thread -> AppRecords] /\ json \in [User \cup {NoUser} -> Documents] /\ d \in Documents /\ auth[t].user \in User \cup {NoUser}
  BY DEF Turning, Texted, Auths
<1>2. a.in = "json" /\ r.method = "POST" /\ UNCHANGED storage
  BY DEF PostDocument, Within
<1>3. CASE ~ IsMy(r)
  <2>1. Pass(t) /\ UNCHANGED json
    BY <1>3 DEF PostDocument
  <2> QED
    BY <1>1, <1>2, <2>1, PlainTurns DEF Alters, PostsTo
<1>4. CASE IsMy(r)
  <2> DEFINE new == IF r.json THEN [d EXCEPT !.json = r.text] ELSE [d EXCEPT !.http = r.text, !.length = r.length]
             status == IF r.json /\ ~ r.valid THEN 500 ELSE 200
             mine == [a EXCEPT !.in = "decided", !.serve = "content", !.status = status]
  <2>1. json' = [json EXCEPT ![auth[t].user] = new] /\ Mix(t, mine)
    BY <1>4 DEF PostDocument
  <2>2. PostsTo(new, d, r)
    BY <1>1 DEF Documents, PostsTo
  <2>3. mine.in = "decided" /\ mine.sent = a.sent /\ mine.serve = "content"
    BY <1>1 DEF AppRecords
  <2> HIDE DEF new, mine
  <2>4. e = new /\ \A v \in User : v # auth[t].user => json'[v] = json[v]
    BY <1>1, <2>1
  <2>5. b = mine /\ \A o \in Others(t) : app'[o] = [app[o] EXCEPT !.mixed = TRUE]
    BY <1>1, <2>1 DEF Mix, Others
  <2>6. \A o \in Others(t) : app'[o].mixed
    BY <1>1, <2>5 DEF Others, AppRecords
  <2>7. Plain(a, b, r)
    BY <1>2, <2>3, <2>5 DEF Plain
  <2>8. Alters(t)
    BY <1>2, <2>4, <2>6 DEF Alters
  <2> QED
    BY <1>2, <2>2, <2>4, <2>7, <2>8
<1> QED
  BY <1>3, <1>4

\* The steps that leave what is stored: none of them changes a text before.
LEMMA QuietDoes ==
  ASSUME NEW t \in Thread, NEW r, Turning(t, r), NEW c, ResponseStep(t, c, r)
  PROVE  \/ StorePage(t, r) \/ StoreLength(t, r) \/ StoreType(t) \/ StoreCount(t, r) \/ DropPage(t) \/ Drop(t) \/ PostDocument(t, r)
         \/ UNCHANGED <<storage, json>> /\ app[t].in \notin Changes
<1>1. CASE FindText(t) \/ FindLength(t) \/ GetDocument(t, r)
  BY <1>1 DEF FindText, FindLength, GetDocument, Within, Changes
<1>2. CASE WriteHeaders(t, c, r) \/ WriteContent(t, c, r) \/ WritePage(t, c) \/ EndPages(t, c)
  BY <1>2 DEF WriteHeaders, WriteContent, WritePage, EndPages, Within, At, Changes
<1> QED
  BY <1>1, <1>2, AppsPlain DEF ResponseStep, AppStep

\* A text that is written to its end is what was posted.
LEMMA CountedIs ==
  ASSUME NEW r, r.length > 0, NEW s, NEW z, z.pages = s.pages, z.length = s.length, NEW a, a.in = "count", Writes(a, r, s), ~ s.torn
  PROVE  TextIs(z, Posted(r))
<1>1. PagesAre(s, Posted(r), MaxPage) /\ s.length = r.length
  BY DEF Writes, Writing
<1>2. PagesAre(z, Posted(r), MaxPage)
  BY <1>1 DEF PagesAre
<1>3. Posted(r)[3] = r.length
  BY DEF Posted
<1> QED
  BY <1>1, <1>2, <1>3 DEF TextIs
\* The steps that are of no thread leave what is stored and what is sent.
LEMMA ElseLeaves ==
  ASSUME [Next]_vars, ~ \E t \in Thread : Serving(t)
  PROVE  UNCHANGED <<storage, json, answer>>
<1>1. CASE \E c \in Connection : Client(c)
  BY <1>1 DEF Client, Connect, Send, SendRest, Receive, GoAway, answers, apps, response
<1>2. CASE \E c \in Connection : Calling(c)
  BY <1>2 DEF Calling, Callback, HandleAccept, HandleHandshake, HandleRead, answers, apps, response
<1>3. CASE Expires
  BY <1>3 DEF Expires, apps, response
<1>4. CASE UNCHANGED vars
  BY <1>4 DEF vars, answers, apps, response
<1> QED
  BY <1>1, <1>2, <1>3, <1>4, SMTT(30) DEF Next

\* A step of the request of t leaves what t has stored his own.
LEMMA StepStoring ==
  ASSUME Base, Entered, Posts, NEW t \in Thread, thread[t].at = "answer", NEW r, r = Req(t), NEW c, ResponseStep(t, c, r),
         auth[t].in = "none", Telling(t), OthersStay(t),
         NEW u, u = auth[t].user, u \in User, NEW s, s = storage[u], NEW d, d = json[u], NEW P, P = Mine(u),
         NEW z, z = storage'[u], NEW e, e = json'[u], Rests(u) => Ours(s, P), Documented(d, P)
  PROVE  (Rests(u)' => Ours(z, P)) /\ Documented(e, P)
<1>1. Turning(t, r)
  BY AnswerTurning DEF Base, TypeInv
<1>2. PICK a, b, who : a = app[t] /\ b = app'[t] /\ who = auth[t]
  OBVIOUS
<1>3. a.in \notin {"start", "thrown"} /\ r.method = "POST" => Posted(r) \in P
  <2>1. u # NoUser
    BY DEF User, NoUser
  <2> QED
    BY <1>2, <2>1, OwnPost
<1>4. Posted(r)[2] = r.text /\ Posted(r)[3] = r.length
  BY DEF Posted
<1>5. ASSUME UNCHANGED authentication, b.in \in Changes, Rests(u)' PROVE FALSE
  <2>1. auth'[t].user = u
    BY <1>5 DEF authentication
  <2> QED
    BY <1>2, <1>5, <2>1 DEF Rests
<1>6. CASE StorePage(t, r) \/ StoreLength(t, r) \/ StoreType(t) \/ StoreCount(t, r)
  <2>0. s = storage[auth[t].user] /\ z = storage'[auth[t].user]
    OBVIOUS
  <2>1. a.in \in Writing /\ UNCHANGED <<json, authentication>> /\ (~ z.torn => ~ s.torn)
    BY <1>1, <1>2, <1>6, <2>0, StoreSteps, ZenonT(60)
  <2>2. b.in \in {"page", "length", "type", "count"} \/ (a.in = "count" /\ z.pages = s.pages /\ z.length = s.length)
    <3>1. \/ /\ a.in = "page" /\ a.page \in 0 .. MaxPage - 1 /\ a.page < Pages(r) /\ b.page = a.page + 1
             /\ z.pages = [s.pages EXCEPT ![a.page] = PageOf(r, a.page)]
             /\ b.in = IF a.page + 1 = Pages(r) THEN "length" ELSE "page"
          \/ /\ z.pages = s.pages
             /\ \/ a.in = "length" /\ b.in = "type" /\ z.length = r.length
                \/ a.in = "type" /\ b.in = "count" /\ z.length = s.length
                \/ a.in = "count" /\ b.in = "stored" /\ z.length = s.length
      BY <1>1, <1>2, <1>6, <2>0, StoreSteps
    <3> QED
      BY <3>1
  <2>3. ASSUME Rests(u)' PROVE Ours(z, P)
    <3>1. ~ z.torn /\ ~ s.torn
      BY <2>1, <2>3 DEF Rests
    <3>2. r.method = "POST" /\ r.length > 0
      BY <1>1, <1>2, <2>1 DEF Turning, Placed
    <3>3. Writes(a, r, s)
      <4>1. who.user # NoUser
        BY <1>2 DEF User, NoUser
      <4> QED
        BY <1>2, <4>1 DEF Telling, Tells
    <3>4. TextIs(z, Posted(r))
      BY <1>5, <2>1, <2>2, <2>3, <3>1, <3>2, <3>3, CountedIs DEF Changes
    <3>5. Posted(r) \in P
      BY <1>3, <2>1, <3>2 DEF Writing
    <3> QED
      BY <3>4, <3>5 DEF Ours
  <2> QED
    BY <2>1, <2>3
<1>7. CASE DropPage(t) \/ Drop(t)
  <2>1. UNCHANGED <<json, authentication>> /\ (b.in = "drop" \/ z.length = 0)
    BY <1>1, <1>2, <1>7, DropSteps
  <2> QED
    BY <1>5, <2>1 DEF Ours, Changes
<1>8. CASE PostDocument(t, r)
  <2>1. a.in = "json" /\ r.method = "POST" /\ UNCHANGED storage /\ PostsTo(e, d, r)
    BY <1>1, <1>2, <1>8, PostDoes
  <2>2. Posted(r) \in P
    BY <1>3, <2>1
  <2>3. Documented(e, P)
    BY <1>4, <2>1, <2>2 DEF PostsTo, Documented
  <2>4. Rests(u)' => Rests(u)
    <3>1. app[t].in \notin Changes /\ storage'[u] = storage[u]
      BY <1>2, <2>1 DEF Changes
    <3> QED
      BY <1>1, <3>1, RestsStay DEF Turning
  <2> QED
    BY <2>1, <2>3, <2>4
<1>9. CASE UNCHANGED <<storage, json>> /\ a.in \notin Changes
  <2>1. Rests(u)' => Rests(u)
    BY <1>1, <1>2, <1>9, RestsStay DEF Turning
  <2> QED
    BY <1>9, <2>1
<1> QED
  BY <1>1, <1>2, <1>6, <1>7, <1>8, <1>9, QuietDoes
\* Each step leaves what the users have their own.
LEMMA NextStoring ==
  ASSUME Base, Base', Entered, Lasting, Posts, Storing, \A t \in Thread : thread[t].at = "answer" => Telling(t), [Next]_vars
  PROVE  Storing'
<1> SUFFICES ASSUME NEW u \in User PROVE (Rests(u)' => Ours(storage'[u], Mine(u)')) /\ Documented(json'[u], Mine(u)')
  BY DEF Storing
<1>1. PICK s, d, P, z, e, Q :
        s = storage[u] /\ d = json[u] /\ P = Mine(u) /\ z = storage'[u] /\ e = json'[u] /\ Q = Mine(u)'
  OBVIOUS
<1>2. (Rests(u) => Ours(s, P)) /\ Documented(d, P)
  BY <1>1 DEF Storing
<1>3. SUFFICES (Rests(u)' => Ours(z, P)) /\ Documented(e, P)
  <2>1. P \subseteq Q
    BY <1>1, MineGrows
  <2>2. (Ours(z, P) => Ours(z, Q)) /\ (Documented(e, P) => Documented(e, Q))
    BY <2>1, MorePosts
  <2> QED
    BY <1>1, <1>3, <2>2
<1>4. CASE ~ \E t \in Thread : Serving(t)
  <2>1. UNCHANGED <<storage, json, app, auth>>
    BY <1>4, ElseLeaves, ElseGoes
  <2>2. Rests(u)' => Rests(u)
    BY <2>1 DEF Rests
  <2> QED
    BY <1>1, <1>2, <2>1, <2>2
<1>5. CASE \E t \in Thread : Serving(t)
  <2>1. PICK t \in Thread : Serving(t)
    BY <1>5
  <2>2. OthersStay(t) /\ app \in [Thread -> AppRecords]
    BY <2>1, OthersGo DEF Base, TypeInv, Applied
  <2>3. CASE UNCHANGED <<storage, json>> /\ (app[t].in \in Changes => app'[t].in \in Changes /\ auth'[t].user = auth[t].user)
    <3>1. Rests(u)' => Rests(u)
      BY <2>2, <2>3, RestsStay
    <3> QED
      BY <1>1, <1>2, <2>3, <3>1
  <2>4. CASE thread[t].at = "answer" /\ UNCHANGED tasks /\ ResponseStep(t, thread[t].c, Req(t)) /\ auth[t].in = "none"
    <3>1. CASE u = auth[t].user
      <4>1. Telling(t)
        BY <2>4
      <4> QED
        BY <1>1, <1>2, <2>2, <2>4, <3>1, <4>1, StepStoring
    <3>2. CASE u # auth[t].user
      <4>1. Alters(t) /\ Turning(t, Req(t)) => z = s /\ e = d
        BY <1>1, <3>2 DEF Alters
      <4>2. Turning(t, Req(t))
        BY <2>4, AnswerTurning DEF Base, TypeInv
      <4>3. z = s /\ e = d
        <5>1. CASE StorePage(t, Req(t)) \/ StoreLength(t, Req(t)) \/ StoreType(t) \/ StoreCount(t, Req(t))
          BY <4>1, <4>2, <5>1, StoreSteps
        <5>2. CASE DropPage(t) \/ Drop(t)
          BY <4>1, <4>2, <5>2, DropSteps
        <5>3. CASE PostDocument(t, Req(t))
          BY <4>1, <4>2, <5>3, PostDoes
        <5>4. CASE UNCHANGED <<storage, json>>
          BY <1>1, <5>4
        <5> QED
          BY <2>4, <4>2, <5>1, <5>2, <5>3, <5>4, QuietDoes
      <4>4. Rests(u)' => Rests(u)
        <5>1. storage'[u] = storage[u]
          BY <1>1, <4>3
        <5> QED
          BY <2>2, <3>2, <5>1, RestsStay
      <4> QED
        BY <1>2, <4>3, <4>4
    <3> QED
      BY <3>1, <3>2
  <2> QED
    BY <2>1, <2>3, <2>4, ServingDoes
<1> QED
  BY <1>4, <1>5
-----------------------------------------------------------------------------
(* What t writes and reads with a step of its own. *)

\* Storing and dropping.
LEMMA StoreTells ==
  ASSUME NEW t \in Thread, NEW r, Turning(t, r), StorePage(t, r) \/ StoreLength(t, r) \/ StoreType(t) \/ StoreCount(t, r),
         NEW a, a = app[t], NEW b, b = app'[t], NEW who, who = auth[t], NEW s, s = storage[who.user], NEW z, z = storage'[who.user],
         NEW m, NEW d, NEW P, Tells(a, who, r, m, s, d, P)
  PROVE  Tells(b, who, r, m, z, d, P)
<1>0. s = storage[auth[t].user] /\ z = storage'[auth[t].user]
  OBVIOUS
<1>1. a.in \in Writing /\ s \in Texts /\ b.sent = a.sent /\ (~ z.torn => ~ s.torn)
  BY <1>0, StoreSteps, ZenonT(60)
<1>2. \/ /\ a.in = "page" /\ a.page \in 0 .. MaxPage - 1 /\ a.page < Pages(r) /\ b.page = a.page + 1
         /\ z.pages = [s.pages EXCEPT ![a.page] = PageOf(r, a.page)]
         /\ b.in = IF a.page + 1 = Pages(r) THEN "length" ELSE "page"
      \/ /\ z.pages = s.pages
         /\ \/ a.in = "length" /\ b.in = "type" /\ z.length = r.length
            \/ a.in = "type" /\ b.in = "count" /\ z.length = s.length
            \/ a.in = "count" /\ b.in = "stored" /\ z.length = s.length
  BY <1>0, StoreSteps
<1>3. b.in \in {"page", "length", "type", "count", "stored"}
  BY <1>2
<1>4. Sends(b, who, r, m)
  <2>1. a.sent = 0
    BY <1>1 DEF Tells, Sends, Writing
  <2> QED
    BY <1>1, <1>3, <2>1 DEF Sends
<1>5. Finds(b, z, d, m.parts, P)
  BY <1>3 DEF Finds
<1>6. ASSUME who.user # NoUser PROVE Writes(b, r, z)
  <2>1. Writes(a, r, s)
    BY <1>6 DEF Tells
  <2> SUFFICES ASSUME b.in \in Writing, ~ z.torn
               PROVE  /\ PagesAre(z, Posted(r), IF b.in = "page" THEN b.page ELSE MaxPage)
                      /\ b.in \in {"type", "count"} => z.length = r.length
    BY DEF Writes
  <2>2. PagesAre(s, Posted(r), IF a.in = "page" THEN a.page ELSE MaxPage) /\ (a.in \in {"type", "count"} => s.length = r.length)
    BY <1>1, <2>1 DEF Writes
  <2>3. CASE a.in = "page"
    <3>1. /\ a.page \in 0 .. MaxPage - 1 /\ a.page < Pages(r) /\ b.page = a.page + 1
          /\ z.pages = [s.pages EXCEPT ![a.page] = PageOf(r, a.page)]
          /\ b.in = IF a.page + 1 = Pages(r) THEN "length" ELSE "page"
      BY <1>2, <2>3
    <3>2. PagesAre(s, Posted(r), a.page)
      BY <2>2, <2>3
    <3>3. r.length \in 1 .. Most
      <4>1. r.length > 0
        BY <1>1 DEF Turning, Placed
      <4>2. r.length \in 0 .. Most /\ Most \in Nat
        BY PageNumbers DEF Turning, Sendable
      <4> QED
        BY <4>1, <4>2
    <3>4. PagesAre(z, Posted(r), a.page + 1) /\ (a.page + 1 = Pages(r) => PagesAre(z, Posted(r), MaxPage))
      BY <1>1, <3>1, <3>2, <3>3, PageStores
    <3> QED
      BY <3>1, <3>4
  <2>4. CASE a.in # "page"
    <3>1. z.pages = s.pages /\ b.in # "page" /\ (b.in \in {"type", "count"} => z.length = r.length)
      BY <1>2, <2>2, <2>4 DEF Writing
    <3>2. PagesAre(s, Posted(r), MaxPage)
      BY <2>2, <2>4
    <3>3. PagesAre(z, Posted(r), MaxPage)
      BY <3>1, <3>2 DEF PagesAre
    <3> QED
      BY <3>1, <3>3
  <2> QED
    BY <2>3, <2>4
<1> QED
  BY <1>4, <1>5, <1>6 DEF Tells

LEMMA DropPlain ==
  ASSUME NEW t \in Thread, NEW r, Turning(t, r), DropPage(t) \/ Drop(t)
  PROVE  Plain(app[t], app'[t], r)
<1>1. app[t].in = "drop" /\ app'[t].sent = app[t].sent /\ app'[t].in \in {"drop", "stored"}
  BY DropSteps
<1> QED
  BY <1>1 DEF Plain

\* A text is found, which nobody changes, and its length.
LEMMA FindTells ==
  ASSUME NEW t \in Thread, NEW r, Turning(t, r), FindText(t),
         NEW a, a = app[t], NEW b, b = app'[t], NEW who, who = auth[t], NEW s, s = storage[who.user],
         NEW m, NEW d, NEW P, Tells(a, who, r, m, s, d, P),
         who.user # NoUser /\ Rests(who.user) => Ours(s, P)
  PROVE  Tells(b, who, r, m, s, d, P)
<1>1. a \in AppRecords /\ app \in [Thread -> AppRecords] /\ a.in = "has"
  BY DEF Turning, FindText, Within
<1>2. a.sent = 0
  BY <1>1 DEF Tells, Sends
<1>3. CASE ~ (s.length > 0 /\ s.type)
  <2>1. Decide(t, 404, "content")
    BY <1>3 DEF FindText
  <2>2. Plain(a, b, r)
    BY <1>1, <2>1, PlainTurns
  <2> QED
    BY <1>2, <2>2, PlainTells
<1>4. CASE s.length > 0 /\ s.type
  <2>1. app' = [app EXCEPT ![t] = [a EXCEPT !.in = "size", !.mixed = s.torn \/ Disturbed(t)]]
    BY <1>4 DEF FindText, Do
  <2>2. b = [a EXCEPT !.in = "size", !.mixed = s.torn \/ Disturbed(t)]
    BY <1>1, <2>1
  <2>3. b.in = "size" /\ b.sent = a.sent /\ b.mixed = (s.torn \/ Disturbed(t))
    BY <1>1, <2>2 DEF AppRecords
  <2>4. ASSUME who.user # NoUser, ~ b.mixed PROVE \E p \in P : TextIs(s, p)
    <3>1. ~ s.torn /\ ~ Disturbed(t)
      BY <2>3, <2>4
    <3>2. ASSUME NEW o \in Thread, auth[o].user = who.user, app[o].in \in Changes PROVE FALSE
      <4>1. o # t
        BY <1>1, <3>2 DEF Changes
      <4>2. o \in Others(t)
        BY <3>2, <4>1 DEF Others, Changes
      <4> QED
        BY <3>1, <3>2, <4>2 DEF Disturbed
    <3>3. Rests(who.user)
      BY <3>1, <3>2 DEF Rests
    <3>4. s.length # 0
      BY <1>4
    <3> QED
      BY <2>4, <3>3, <3>4 DEF Ours
  <2>5. who.user # NoUser => Finds(b, s, d, m.parts, P)
    BY <2>3, <2>4 DEF Finds
  <2>6. Sends(b, who, r, m)
    BY <1>2, <2>3 DEF Sends
  <2>7. Writes(b, r, s)
    BY <2>3 DEF Writes, Writing
  <2> QED
    BY <2>5, <2>6, <2>7 DEF Tells
<1> QED
  BY <1>3, <1>4

LEMMA SizeTells ==
  ASSUME NEW t \in Thread, NEW r, Turning(t, r), FindLength(t),
         NEW a, a = app[t], NEW b, b = app'[t], NEW who, who = auth[t], NEW s, s = storage[who.user],
         NEW m, NEW d, NEW P, Tells(a, who, r, m, s, d, P)
  PROVE  Tells(b, who, r, m, s, d, P)
<1>1. a \in AppRecords /\ app \in [Thread -> AppRecords] /\ a.in = "size"
  BY DEF Turning, FindLength, Within
<1>2. a.sent = 0
  BY <1>1 DEF Tells, Sends
<1>3. PICK n : Serve(t, 200, "data", n) /\ (s.length > 0 => n = s.length)
  BY DEF FindLength
<1>4. b = [a EXCEPT !.in = "decided", !.status = 200, !.serve = "data", !.length = n]
  BY <1>1, <1>3 DEF Serve, Do
<1>5. b.in = "decided" /\ b.serve = "data" /\ b.length = n /\ b.sent = a.sent /\ b.mixed = a.mixed
  BY <1>1, <1>4 DEF AppRecords
<1>6. ASSUME who.user # NoUser, ~ b.mixed PROVE \E p \in P : TextIs(s, p) /\ b.length = p[3]
  <2>1. PICK p \in P : TextIs(s, p)
    BY <1>1, <1>5, <1>6 DEF Tells, Finds
  <2>2. b.length = p[3]
    BY <1>3, <1>5, <2>1 DEF TextIs
  <2> QED
    BY <2>1, <2>2
<1>7. who.user # NoUser => Finds(b, s, d, m.parts, P)
  BY <1>5, <1>6 DEF Finds
<1>8. Sends(b, who, r, m)
  BY <1>2, <1>5 DEF Sends
<1>9. Writes(b, r, s)
  BY <1>5 DEF Writes, Writing
<1> QED
  BY <1>7, <1>8, <1>9 DEF Tells
\* A document is found.
LEMMA DocumentTells ==
  ASSUME NEW t \in Thread, NEW r, Turning(t, r), GetDocument(t, r),
         NEW a, a = app[t], NEW b, b = app'[t], NEW who, who = auth[t], NEW s, NEW d, d = json[who.user],
         NEW m, NEW P, Tells(a, who, r, m, s, d, P), who.user # NoUser => Documented(d, P)
  PROVE  Tells(b, who, r, m, s, d, P)
<1>1. a \in AppRecords /\ app \in [Thread -> AppRecords] /\ a.in = "json" /\ d \in Documents
  BY DEF Turning, GetDocument, Within, Texted, Auths
<1>2. a.sent = 0 /\ (r.path # "/" \/ r.search # "")
  BY <1>1 DEF Tells, Sends
<1>3. CASE Pass(t)
  <2>1. Plain(a, b, r)
    BY <1>1, <1>3, PlainTurns
  <2> QED
    BY <1>2, <2>1, PlainTells
<1>4. ASSUME NEW serve, NEW n, Serve(t, 200, serve, n) PROVE b.in = "decided" /\ b.serve = serve /\ b.length = n /\ b.sent = a.sent
  <2>1. b = [a EXCEPT !.in = "decided", !.status = 200, !.serve = serve, !.length = n]
    BY <1>1, <1>4 DEF Serve, Do
  <2> QED
    BY <1>1, <2>1 DEF AppRecords
<1>5. ASSUME NEW serve, NEW n, Serve(t, 200, serve, n),
             who.user # NoUser => Finds(b, s, d, m.parts, P)
      PROVE  Tells(b, who, r, m, s, d, P)
  <2>1. b.in = "decided" /\ b.sent = a.sent
    BY <1>4, <1>5
  <2>2. Sends(b, who, r, m)
    BY <1>2, <2>1 DEF Sends
  <2>3. Writes(b, r, s)
    BY <2>1 DEF Writes, Writing
  <2> QED
    BY <1>5, <2>2, <2>3 DEF Tells
<1>6. CASE Serve(t, 200, "query", -1)
  <2>1. b.in = "decided" /\ b.serve = "query"
    BY <1>4, <1>6
  <2>2. Finds(b, s, d, m.parts, P)
    BY <2>1 DEF Finds
  <2> QED
    BY <1>5, <1>6, <2>2
<1>7. CASE Serve(t, 200, "http", d.length) /\ d.http # "none"
  <2>1. b.in = "decided" /\ b.serve = "http" /\ b.length = d.length
    BY <1>4, <1>7
  <2>2. ASSUME who.user # NoUser PROVE \E p \in P : p[2] = d.http /\ p[3] = d.length
    BY <1>7, <2>2 DEF Documented
  <2>3. who.user # NoUser => Finds(b, s, d, m.parts, P)
    BY <2>1, <2>2 DEF Finds
  <2> QED
    BY <1>5, <1>7, <2>3
<1>8. CASE Serve(t, 200, "json", -1) /\ Exists(t, r) /\ r.search = "" /\ d.http = "none"
  <2>1. b.in = "decided" /\ b.serve = "json"
    BY <1>4, <1>8
  <2>2. d # NoDocument
    BY <1>2, <1>8 DEF Exists
  <2>3. d.json # "none" \/ d.length # 0
    BY <1>1, <1>8, <2>2 DEF Documents, NoDocument
  <2>4. ASSUME who.user # NoUser PROVE \E p \in P : p[2] = d.json
    <3>1. Documented(d, P)
      BY <2>4
    <3>2. CASE d.json # "none"
      BY <3>1, <3>2 DEF Documented
    <3>3. CASE d.json = "none"
      BY <1>8, <2>3, <3>1, <3>3 DEF Documented
    <3> QED
      BY <3>2, <3>3
  <2>5. who.user # NoUser => Finds(b, s, d, m.parts, P)
    BY <2>1, <2>4 DEF Finds
  <2> QED
    BY <1>5, <1>8, <2>5
<1> QED
  BY <1>3, <1>6, <1>7, <1>8 DEF GetDocument

\* What is announced is decided.
LEMMA AnnouncedStays ==
  ASSUME NEW a, NEW b, b.serve = a.serve, b.status = a.status, b.n = a.n, b.length = a.length
  PROVE  Announced(b) = Announced(a)
BY DEF Announced

\* The headers are sent, and nothing yet of what is read.
LEMMA HeadersTell ==
  ASSUME NEW t \in Thread, NEW r, Turning(t, r), NEW c \in Connection, DOMAIN answer = Connection,
         WriteHeaders(t, c, r), NEW a, a = app[t], NEW b, b = app'[t], NEW who, who = auth[t],
         NEW m, m = answer[c], NEW k, k = answer'[c], NEW s, NEW d, NEW P, Tells(a, who, r, m, s, d, P)
  PROVE  Tells(b, who, r, k, s, d, P)
<1>1. a \in AppRecords /\ app \in [Thread -> AppRecords] /\ a.in = "decided"
  BY DEF Turning, WriteHeaders, At
<1>2. a.sent = 0
  BY <1>1 DEF Tells, Sends
<1>3. CASE ~ up[c]
  <2>1. Continue(t, "written")
    BY <1>3 DEF WriteHeaders
  <2>2. Plain(a, b, r)
    BY <1>1, <2>1, PlainTurns
  <2> QED
    BY <1>2, <2>2, PlainTells
<1>4. CASE up[c]
  <2>1. app' = [app EXCEPT ![t] = [a EXCEPT !.in = "content"]]
    BY <1>4 DEF WriteHeaders, Continue, Do
  <2>2. b = [a EXCEPT !.in = "content"]
    BY <1>1, <2>1
  <2>3. /\ b.in = "content" /\ b.sent = a.sent /\ b.serve = a.serve /\ b.status = a.status /\ b.n = a.n
        /\ b.length = a.length /\ b.mixed = a.mixed
    BY <1>1, <2>2 DEF AppRecords
  <2>4. Opens(k, r.id, a.status, Announced(a), who.ok, who.user, who.id, a.n > 1)
    BY <1>4 DEF WriteHeaders, Opens
  <2>5. k.ok = who.ok /\ k.user = who.user /\ k.announced = Announced(a) /\ k.parts = <<>>
    BY <2>4, BegunFields
  <2>6. Announced(b) = Announced(a)
    BY <2>3, AnnouncedStays
  <2>7. Sends(b, who, r, k)
    BY <2>3, <2>5, <2>6 DEF Sends
  <2>8. Writes(b, r, s)
    BY <2>3 DEF Writes, Writing
  <2>9. ASSUME who.user # NoUser PROVE Finds(b, s, d, k.parts, P)
    <3>1. Finds(a, s, d, m.parts, P)
      BY <2>9 DEF Tells
    <3>2. ASSUME NEW p, TextIs(s, p) PROVE SentOf(k.parts, b.sent, p)
      <4>1. Length(k.parts) = 0 /\ b.sent = 0 /\ DOMAIN k.parts = {}
        BY <1>2, <2>3, <2>5, Lengths
      <4>2. p[3] > 0
        BY <3>2 DEF TextIs
      <4>3. 0 \in 0 .. MaxPage /\ 0 = 0 * PageSize
        BY AppsAssumption
      <4> QED
        BY <4>1, <4>2, <4>3 DEF SentOf
    <3> QED
      BY <1>1, <2>3, <3>1, <3>2 DEF Finds
  <2> QED
    BY <2>7, <2>8, <2>9 DEF Tells
<1> QED
  BY <1>3, <1>4
\* A page more is sent of what is read.
LEMMA PageTells ==
  ASSUME NEW t \in Thread, NEW r, Turning(t, r), NEW c \in Connection, IsAnswer(answer[c]), DOMAIN answer = Connection,
         WritePage(t, c), NEW a, a = app[t], NEW b, b = app'[t], NEW who, who = auth[t], NEW s, s = storage[who.user],
         NEW m, m = answer[c], NEW k, k = answer'[c], NEW d, NEW P, Tells(a, who, r, m, s, d, P)
  PROVE  Tells(b, who, r, k, s, d, P)
<1>1. a \in AppRecords /\ app \in [Thread -> AppRecords] /\ a.in = "content" /\ a.serve = "data" /\ a.sent < a.length
  BY DEF Turning, WritePage, Within
<1> DEFINE e == s.pages[a.sent \div PageSize]
<1>2. e = PageAt(t) /\ s \in Texts
  BY DEF PageAt, Turning, Texted, Auths
<1>3. e.size \in Nat
  BY <1>1, <1>2, PageTypes
<1>4. /\ app' = [app EXCEPT ![t] = [a EXCEPT !.sent = @ + e.size]]
      /\ answer' = [answer EXCEPT ![c].parts = Append(@, e), ![c].mixed = a.mixed]
  BY <1>2 DEF WritePage, Do
<1> HIDE DEF e
<1>5. b = [a EXCEPT !.sent = @ + e.size]
  BY <1>1, <1>4
<1>6. /\ b.in = a.in /\ b.sent = a.sent + e.size /\ b.serve = a.serve /\ b.status = a.status /\ b.n = a.n
      /\ b.length = a.length /\ b.mixed = a.mixed
  BY <1>1, <1>3, <1>5 DEF AppRecords
<1>7. k.ok = m.ok /\ k.user = m.user /\ k.announced = m.announced /\ k.parts = Append(m.parts, e)
  <2>1. k = [m EXCEPT !.parts = Append(@, e), !.mixed = a.mixed]
    BY <1>4
  <2> QED
    BY <2>1 DEF IsAnswer
<1>8. Announced(b) = Announced(a)
  BY <1>6, AnnouncedStays
<1>9. Sends(b, who, r, k)
  BY <1>1, <1>6, <1>7, <1>8 DEF Tells, Sends
<1>10. Writes(b, r, s)
  BY <1>1, <1>6 DEF Writes, Writing
<1>11. ASSUME who.user # NoUser, ~ a.mixed
       PROVE  \E p \in P : TextIs(s, p) /\ b.length = p[3] /\ SentOf(k.parts, b.sent, p)
  <2>1. PICK p \in P : TextIs(s, p) /\ a.length = p[3] /\ SentOf(m.parts, a.sent, p)
    BY <1>1, <1>11 DEF Tells, Finds
  <2>2. p[3] \in 1 .. Most
    BY <1>2, <2>1 DEF TextIs, Texts
  <2>3. m.parts \in Seq([by : Names, size : 1 .. Most])
    BY DEF IsAnswer
  <2>4. a.sent \in Nat /\ a.sent < p[3]
    BY <1>1, <2>1 DEF AppRecords
  <2>5. e = s.pages[a.sent \div PageSize]
    BY DEF e
  <2>6. SentOf(Append(m.parts, e), a.sent + e.size, p)
    BY <1>2, <2>1, <2>2, <2>3, <2>4, <2>5, PageSends
  <2> QED
    BY <1>6, <1>7, <2>1, <2>6
<1>12. who.user # NoUser => Finds(b, s, d, k.parts, P)
  BY <1>1, <1>6, <1>11 DEF Finds
<1> QED
  BY <1>9, <1>10, <1>12 DEF Tells

\* The rest is written, or nothing is.
LEMMA WrittenPlain ==
  ASSUME NEW t \in Thread, NEW r, Turning(t, r), NEW c, WriteContent(t, c, r) \/ EndPages(t, c)
  PROVE  Plain(app[t], app'[t], r)
<1>1. Continue(t, "written") /\ app \in [Thread -> AppRecords]
  BY DEF WriteContent, EndPages, Written, Turning
<1>2. app'[t].in = "written"
  BY <1>1 DEF Continue, Do, AppRecords
<1> QED
  BY <1>2 DEF Plain

\* Each step of the request of t.
LEMMA ResponseTells ==
  ASSUME NEW t \in Thread, NEW r, Turning(t, r), NEW c \in Connection, IsAnswer(answer[c]), DOMAIN answer = Connection,
         ResponseStep(t, c, r), NEW a, a = app[t], NEW b, b = app'[t], NEW who, who = auth[t], NEW next, next = auth'[t],
         NEW m, m = answer[c], NEW k, k = answer'[c],
         NEW P, \A s \in {storage[who.user]}, d \in {json[who.user]} :
                  Tells(a, who, r, m, s, d, P) /\ (who.user # NoUser => (Rests(who.user) => Ours(s, P)) /\ Documented(d, P))
  PROVE  \/ \A e, s, d, Q : Tells(b, next, r, e, s, d, Q)
         \/ next = who /\ \A s \in {storage'[who.user]}, d \in {json'[who.user]} : Tells(b, who, r, k, s, d, P)
<1>1. PICK s, d, z, e : s = storage[who.user] /\ d = json[who.user] /\ z = storage'[who.user] /\ e = json'[who.user]
  OBVIOUS
<1>2. Tells(a, who, r, m, s, d, P) /\ (who.user # NoUser => (Rests(who.user) => Ours(s, P)) /\ Documented(d, P))
  BY <1>1
<1>3. a.in \notin {"content", "written"} => a.sent = 0
  BY <1>2 DEF Tells, Sends
<1>4. Plain(a, b, r) => \A n, f, g, h, Q : Tells(b, n, r, f, g, h, Q)
  BY <1>3, PlainTells
<1>5. CASE \/ OptionsApp(t, r) \/ FileSystemApp(t, r) \/ NotFoundApp(t, r) \/ AuthenticationApp(t, r) \/ AuthenticationAnswer(t, r)
           \/ StorageApp(t, r) \/ StorageMethod(t, r) \/ Stored(t) \/ JSONApp(t, r)
  BY <1>4, <1>5, AppsPlain
<1>6. CASE DropPage(t) \/ Drop(t) \/ PostDocument(t, r) \/ WriteContent(t, c, r) \/ EndPages(t, c)
  BY <1>4, <1>6, DropPlain, PostDoes, WrittenPlain
<1>7. CASE UNCHANGED response /\ (StorePage(t, r) \/ StoreLength(t, r) \/ StoreType(t) \/ StoreCount(t, r))
  <2>1. UNCHANGED <<json, authentication>>
    BY <1>7, StoreSteps
  <2>2. next = who /\ k = m /\ e = d
    BY <1>1, <1>7, <2>1 DEF authentication, response
  <2>3. Tells(b, who, r, k, z, e, P)
    BY <1>1, <1>2, <1>7, <2>2, StoreTells
  <2> QED
    BY <1>1, <2>2, <2>3
<1>8. CASE UNCHANGED response /\ (FindText(t) \/ FindLength(t) \/ GetDocument(t, r))
  <2>1. UNCHANGED <<storage, json, authentication>>
    BY <1>8 DEF FindText, FindLength, GetDocument
  <2>2. next = who /\ k = m /\ z = s /\ e = d
    BY <1>1, <1>8, <2>1 DEF authentication, response
  <2>3. FindText(t) => Tells(b, who, r, m, s, d, P)
    BY <1>1, <1>2, FindTells
  <2>4. FindLength(t) => Tells(b, who, r, m, s, d, P)
    BY <1>1, <1>2, SizeTells
  <2>5. GetDocument(t, r) => Tells(b, who, r, m, s, d, P)
    BY <1>1, <1>2, DocumentTells
  <2>6. Tells(b, who, r, k, z, e, P)
    BY <1>8, <2>2, <2>3, <2>4, <2>5
  <2> QED
    BY <1>1, <2>2, <2>6
<1>9. CASE WriteHeaders(t, c, r) \/ WritePage(t, c)
  <2>1. UNCHANGED <<storage, json, authentication>>
    BY <1>9 DEF WriteHeaders, WritePage
  <2>2. next = who /\ z = s /\ e = d
    BY <1>1, <2>1 DEF authentication
  <2>3. WriteHeaders(t, c, r) => Tells(b, who, r, k, s, d, P)
    BY <1>2, HeadersTell
  <2>4. WritePage(t, c) => Tells(b, who, r, k, s, d, P)
    BY <1>1, <1>2, PageTells
  <2>5. Tells(b, who, r, k, z, e, P)
    BY <1>9, <2>2, <2>3, <2>4
  <2> QED
    BY <1>1, <2>2, <2>5
<1> QED
  BY <1>5, <1>6, <1>7, <1>8, <1>9 DEF ResponseStep, AppStep
\* t writes, reads and sends as it may after its own step.
LEMMA OwnTelling ==
  ASSUME Base, Base', Storing, Lasting, [Next]_vars, NEW t \in Thread, Serving(t), thread'[t].at = "answer",
         thread[t].at = "answer" => Telling(t)
  PROVE  Telling(t)'
<1>1. PICK a, b, who, next, r, m, k :
        /\ a = app[t] /\ b = app'[t] /\ who = auth[t] /\ next = auth'[t] /\ r = Req(t)
        /\ m = answer[thread[t].c] /\ k = answer'[thread[t].c]
  OBVIOUS
<1>2. ASSUME \A n, e, s, d, P : Tells(b, n, r, e, s, d, P), Req(t)' = r PROVE Telling(t)'
  BY <1>1, <1>2 DEF Telling
<1>3. PICK s, d, P, z, f, Q : /\ s = storage[who.user] /\ d = json[who.user] /\ P = Mine(who.user)
                              /\ z = storage'[who.user] /\ f = json'[who.user] /\ Q = Mine(who.user)'
  OBVIOUS
<1>4. ASSUME next = who, Tells(b, who, r, k, z, f, P), Req(t)' = r, thread'[t].c = thread[t].c PROVE Telling(t)'
  <2>1. P \subseteq Q
    BY <1>3, MineGrows
  <2>2. b \in AppRecords
    BY <1>1 DEF Base, TypeInv, Applied
  <2>3. Tells(b, who, r, k, z, f, Q)
    BY <1>4, <2>1, <2>2, OthersTell
  <2> QED
    BY <1>1, <1>3, <1>4, <2>3 DEF Telling
<1>5. CASE HandleResponse(t)
  <2>1. b = [NoApp EXCEPT !.n = 1, !.in = "start"] /\ Req(t)' = r
    BY <1>1, <1>5, ResponseDoes
  <2>2. b.in = "start" /\ b.sent = NoApp.sent /\ NoApp.sent = 0 /\ NoApp.in = "none"
    BY <2>1 DEF NoApp
  <2>3. Plain(NoApp, b, r)
    BY <2>2 DEF Plain
  <2> QED
    BY <1>2, <2>1, <2>2, <2>3, PlainTells
<1>6. CASE ~ HandleResponse(t)
  <2>1. thread[t].at = "answer" /\ Req(t)' = r
    BY <1>1, <1>6, AnswerGoes
  <2>2. Answer(t) /\ UNCHANGED tasks
    <3>1. ~ TakeTask(t)
      BY <2>1 DEF TakeTask, Idle, NoTask
    <3>2. ~ (HandleException(t) \/ CloseOrRestart(t))
      <4>1. \A n : Leave(t, n) => thread'[t].at = "idle"
        BY DEF Leave, NoTask, Base, HandInv, Fields
      <4> QED
        BY <4>1 DEF HandleException, CloseOrRestart
    <3>3. Answer(t)
      BY <1>6, <2>1, <3>1, <3>2 DEF Serving, Task, HandleParts, LockTransactions, CopyPart
    <3> QED
      BY <3>3 DEF Answer
  <2>3. Telling(t) /\ thread'[t].c = thread[t].c
    BY <2>1, <2>2 DEF tasks
  <2>4. Turning(t, r) /\ a \in AppRecords /\ who.user \in User \cup {NoUser} /\ Placed(a, r, who)
    BY <1>1, <2>1, AnswerTurning DEF Base, TypeInv, Applied, Secured, Auths
  <2>5. Tells(a, who, r, m, s, d, P)
    BY <1>1, <1>3, <2>3 DEF Telling
  <2>6. CASE ResponseStep(t, thread[t].c, r)
    <3>1. who.user # NoUser => (Rests(who.user) => Ours(s, P)) /\ Documented(d, P)
      BY <1>3, <2>4 DEF Storing
    <3>2. thread[t].c \in Connection /\ IsAnswer(answer[thread[t].c]) /\ DOMAIN answer = Connection
      <4>1. thread[t].c \in Connection
        BY <2>1, ServedSession DEF Base
      <4> QED
        BY <4>1 DEF Base, TypeInv, Responded, FileInv
    <3>3. \/ \A n, e, g, h, R : Tells(b, next, r, e, g, h, R)
          \/ next = who /\ Tells(b, who, r, k, z, f, P)
      BY <1>1, <1>3, <2>4, <2>5, <2>6, <3>1, <3>2, ResponseTells, SMTT(30)
    <3>4. CASE \A e, g, h, R : Tells(b, next, r, e, g, h, R)
      BY <1>1, <2>1, <3>4 DEF Telling
    <3> QED
      BY <1>4, <2>1, <2>3, <3>3, <3>4
  <2>7. CASE PoolStep(t) /\ UNCHANGED <<response, apps, authentication>>
    <3>1. next = who /\ b = a /\ k = m /\ z = s /\ f = d
      BY <1>1, <1>3, <2>7 DEF response, apps, authentication
    <3> QED
      BY <1>4, <2>1, <2>3, <2>5, <3>1
  <2>8. CASE AuthenticationStep(t) /\ UNCHANGED <<response, apps>>
    <3>1. who.in # "none" /\ b = a
      BY <1>1, <2>8 DEF AuthenticationStep, Authenticate, CheckTime, StampTime, ReadUser, Logon, CreateUser, StoreSecret, StoreSession,
                        StoreLast, Logoff, In, apps
    <3>2. a.in \in {"start", "status", "check"}
      BY <2>4, <3>1 DEF Placed
    <3>3. Plain(a, b, r)
      BY <3>1, <3>2 DEF Plain
    <3>4. a.sent = 0
      BY <2>5, <3>2 DEF Tells, Sends
    <3> QED
      BY <1>2, <2>1, <3>3, <3>4, PlainTells
  <2> QED
    BY <1>1, <2>2, <2>6, <2>7, <2>8 DEF Answer, Req
<1> QED
  BY <1>5, <1>6
-----------------------------------------------------------------------------
(* What is given. *)

\* What was sent of a text is given of it.
LEMMA SentGives ==
  ASSUME NEW k, NEW n \in Nat, NEW P, NEW p \in P, p[3] \in Nat, SentOf(k.parts, n, p), k.announced = p[3]
  PROVE  Gives(k, P)
<1>1. (\A i \in DOMAIN k.parts : k.parts[i].by = p[2]) /\ Length(k.parts) = n /\ (n = p[3] \/ n < p[3])
  BY DEF SentOf
<1>2. Length(k.parts) \in 0 .. p[3]
  BY <1>1
<1> QED
  BY <1>1, <1>2 DEF Gives

\* A content of one part.
LEMMA PartIs ==
  ASSUME NEW name, NEW size \in Nat
  PROVE  LET parts == Part(name, size) IN (\A i \in DOMAIN parts : parts[i].by = name) /\ Length(parts) = size
<1>1. CASE size = 0
  <2>1. Part(name, size) = <<>>
    BY <1>1 DEF Part
  <2> QED
    BY <1>1, <2>1, Lengths
<1>2. CASE size # 0
  <2> DEFINE part == [by |-> name, size |-> size]
  <2>1. Part(name, size) = <<part>>
    BY <1>2 DEF Part
  <2>2. part.by = name /\ part.size = size
    OBVIOUS
  <2> HIDE DEF part
  <2>3. <<part>> = Append(<<>>, part) /\ <<>> \in Seq({part})
    OBVIOUS
  <2>4. Length(Append(<<>>, part)) = Length(<<>>) + part.size
    BY <2>3, Lengths
  <2>5. Length(<<part>>) = size
    BY <2>2, <2>3, <2>4, Lengths
  <2> QED
    BY <2>1, <2>2, <2>5
<1> QED
  BY <1>1, <1>2

\* The content of what is told from memory, a file or a document.
LEMMA ContentGives ==
  ASSUME NEW t \in Thread, NEW r, Turning(t, r), NEW a, a = app[t], a.in = "content", a.serve # "data",
         NEW who, who = auth[t], NEW s, NEW d, d = json[who.user], NEW m, NEW P, Tells(a, who, r, m, s, d, P),
         NEW k, k.parts = Content(t), k.announced = m.announced, k.user = m.user, k.mixed = a.mixed
  PROVE  Gives(k, P)
<1>1. a \in AppRecords /\ Placed(a, r, who) /\ d \in Documents
  BY DEF Turning, Texted, Auths
<1>2. m.user = who.user /\ m.announced = Announced(a)
  BY DEF Tells, Sends
<1> SUFFICES ASSUME k.user # NoUser, ~ k.mixed
             PROVE  \/ \A i \in DOMAIN k.parts : k.parts[i].by = "content"
                    \/ \E p \in P : /\ \A i \in DOMAIN k.parts : k.parts[i].by = p[2]
                                    /\ k.announced # -1 => k.announced = p[3] /\ Length(k.parts) \in 0 .. p[3]
  BY DEF Gives
<1>3. Finds(a, s, d, m.parts, P) /\ ~ a.mixed
  BY <1>2 DEF Tells
<1>4. CASE a.serve \in {"content", "file"}
  <2>1. Content(t) = Part("content", Announced(a))
    BY <1>4 DEF Content
  <2>2. Announced(a) \in Nat
    BY <1>1, <1>4, AnnouncedTypes
  <2> QED
    BY <2>1, <2>2, PartIs
<1>5. CASE a.serve = "query"
  <2>1. Content(t) = Part("content", 1)
    BY <1>5 DEF Content
  <2> QED
    BY <2>1, PartIs
<1>6. CASE a.serve = "json"
  <2>1. Content(t) = Part(d.json, 1)
    BY <1>6 DEF Content
  <2>2. \A i \in DOMAIN k.parts : k.parts[i].by = d.json
    BY <2>1, PartIs
  <2>3. k.announced = -1
    BY <1>1, <1>2, <1>6, AnnouncedTypes DEF Placed
  <2>4. PICK p \in P : p[2] = d.json
    BY <1>3, <1>6, SMTT(30) DEF Finds
  <2> QED
    BY <2>2, <2>3, <2>4
<1>7. CASE a.serve = "http"
  <2>1. Content(t) = Part(d.http, d.length) /\ d.length \in Nat
    BY <1>1, <1>7 DEF Content, Documents
  <2>2. (\A i \in DOMAIN k.parts : k.parts[i].by = d.http) /\ Length(k.parts) = d.length
    BY <2>1, PartIs
  <2>3. PICK p \in P : p[2] = d.http /\ p[3] = d.length /\ a.length = p[3]
    BY <1>3, <1>7 DEF Finds
  <2>4. k.announced = p[3]
    BY <1>1, <1>2, <1>7, <2>3, AnnouncedTypes
  <2> QED
    <3>1. \A i \in DOMAIN k.parts : k.parts[i].by = p[2]
      BY <2>2, <2>3
    <3>2. k.announced = p[3] /\ Length(k.parts) \in 0 .. p[3]
      BY <2>1, <2>2, <2>3, <2>4
    <3> QED
      BY <3>1, <3>2, Zenon
<1> QED
  BY <1>1, <1>4, <1>5, <1>6, <1>7 DEF AppRecords, Ways


\* What t has sent of a text is given of it, as long as it reads.
LEMMA DataGives ==
  ASSUME NEW a \in AppRecords, a.in = "content", a.serve = "data", NEW who, NEW r, Placed(a, r, who), NEW m, NEW s \in Texts, NEW d, NEW P,
         Tells(a, who, r, m, s, d, P), NEW k, k.parts = m.parts, k.announced = m.announced, k.user = m.user, k.mixed = a.mixed
  PROVE  Gives(k, P)
<1>1. m.user = who.user /\ m.announced = a.length
  BY AnnouncedTypes DEF Tells, Sends
<1>2. ASSUME k.user # NoUser, ~ k.mixed PROVE Gives(k, P)
  <2>1. Finds(a, s, d, m.parts, P) /\ ~ a.mixed
    BY <1>1, <1>2 DEF Tells
  <2>2. PICK p \in P : TextIs(s, p) /\ a.length = p[3] /\ SentOf(m.parts, a.sent, p)
    BY <2>1 DEF Finds
  <2>3. a.sent \in Nat /\ p[3] \in Nat
    BY <2>2 DEF AppRecords, TextIs, Texts
  <2>4. SentOf(k.parts, a.sent, p) /\ k.announced = p[3]
    BY <1>1, <2>2
  <2> QED
    BY <2>2, <2>3, <2>4, SentGives
<1> QED
  BY <1>2 DEF Gives

\* What is sent of an answer gives what is its own.
LEMMA StepGives ==
  ASSUME Base, Base', Lasting, [Next]_vars, NEW t \in Thread, Serving(t), thread[t].at = "answer", UNCHANGED tasks, Telling(t), Telling(t)',
         NEW c \in Connection, c = thread[t].c, NEW m, m = answer[c], NEW k, k = answer'[c], Gives(m, Mine(m.user)),
         WriteHeaders(t, c, Req(t)) \/ WriteContent(t, c, Req(t)) \/ WritePage(t, c) \/ EndPages(t, c)
  PROVE  Gives(k, Mine(k.user)')
<1>1. PICK a, b, r, who : a = app[t] /\ b = app'[t] /\ r = Req(t) /\ who = auth[t]
  OBVIOUS
<1>2. PICK s, d, P : s = storage[who.user] /\ d = json[who.user] /\ P = Mine(who.user)
  OBVIOUS
<1>3. Turning(t, r) /\ a \in AppRecords /\ s \in Texts /\ Placed(a, r, who) /\ IsAnswer(m) /\ DOMAIN answer = Connection
  BY <1>1, <1>2, AnswerTurning DEF Base, TypeInv, Applied, Responded, Turning, Texted, Auths, FileInv
<1>4. Tells(a, who, r, m, s, d, P)
  BY <1>1, <1>2 DEF Telling
<1>5. ASSUME k.user = who.user, Gives(k, P) PROVE Gives(k, Mine(k.user)')
  <2>1. PICK Q : Q = Mine(who.user)'
    OBVIOUS
  <2>2. P \subseteq Q
    BY <1>2, <2>1, MineGrows
  <2>3. Gives(k, Q)
    BY <1>5, <2>2, MorePosts
  <2> QED
    BY <1>5, <2>1, <2>3
<1>6. ASSUME k = m PROVE Gives(k, Mine(k.user)')
  <2>1. PICK Q, R : Q = Mine(m.user)' /\ R = Mine(m.user)
    OBVIOUS
  <2>2. R \subseteq Q
    BY <2>1, MineGrows
  <2>3. Gives(k, Q)
    BY <1>6, <2>1, <2>2, MorePosts
  <2> QED
    BY <1>6, <2>1, <2>3
<1>7. CASE WriteHeaders(t, c, r)
  <2>1. CASE up[c]
    <3>1. Opens(k, r.id, a.status, Announced(a), who.ok, who.user, who.id, a.n > 1)
      BY <1>1, <1>3, <1>7, <2>1 DEF WriteHeaders, Opens
    <3>2. k.user = who.user /\ k.parts = <<>>
      BY <3>1, BegunFields
    <3>3. Gives(k, P)
      BY <3>2 DEF Gives
    <3> QED
      BY <1>5, <3>2, <3>3
  <2>2. CASE ~ up[c]
    BY <1>6, <1>7, <2>2 DEF WriteHeaders
  <2> QED
    BY <2>1, <2>2
<1>8. CASE WriteContent(t, c, r)
  <2>1. a.in = "content" /\ a.serve # "data" /\ m.user = who.user
    BY <1>1, <1>4, <1>8 DEF WriteContent, Within, Tells, Sends
  <2>2. CASE up[c] /\ ~ Unreadable(t, r)
    <3>1. k = [m EXCEPT !.parts = Content(t), !.ended = TRUE, !.mixed = a.mixed]
      BY <1>1, <1>3, <1>8, <2>2 DEF WriteContent
    <3>2. k.parts = Content(t) /\ k.announced = m.announced /\ k.user = m.user /\ k.mixed = a.mixed
      BY <1>3, <3>1 DEF IsAnswer
    <3>3. Gives(k, P)
      BY <1>1, <1>2, <1>3, <1>4, <2>1, <3>2, ContentGives
    <3> QED
      BY <1>5, <2>1, <3>2, <3>3
  <2>3. CASE ~ up[c] \/ Unreadable(t, r)
    BY <1>1, <1>6, <1>8, <2>3 DEF WriteContent
  <2> QED
    BY <2>2, <2>3
<1>9. CASE EndPages(t, c)
  <2>1. a.in = "content" /\ a.serve = "data" /\ m.user = who.user
    BY <1>1, <1>4, <1>9 DEF EndPages, Within, Tells, Sends
  <2>2. CASE up[c]
    <3>1. k = [m EXCEPT !.ended = TRUE, !.mixed = a.mixed]
      BY <1>1, <1>3, <1>9, <2>2 DEF EndPages
    <3>2. k.parts = m.parts /\ k.announced = m.announced /\ k.user = m.user /\ k.mixed = a.mixed
      BY <1>3, <3>1 DEF IsAnswer
    <3>3. Gives(k, P)
      BY <1>3, <1>4, <2>1, <3>2, DataGives
    <3> QED
      BY <1>5, <2>1, <3>2, <3>3
  <2>3. CASE ~ up[c]
    BY <1>6, <1>9, <2>3 DEF EndPages
  <2> QED
    BY <2>2, <2>3
<1>10. CASE WritePage(t, c)
  <2>1. /\ a.in = "content" /\ a.serve = "data" /\ m.user = who.user /\ auth' = auth
        /\ app' = [app EXCEPT ![t] = [a EXCEPT !.sent = @ + PageAt(t).size]]
        /\ answer' = [answer EXCEPT ![c].parts = Append(@, PageAt(t)), ![c].mixed = a.mixed]
    BY <1>1, <1>4, <1>10 DEF WritePage, Within, Tells, Sends, Do, authentication
  <2>2. app \in [Thread -> AppRecords]
    BY DEF Base, TypeInv, Applied
  <2>3. b = [a EXCEPT !.sent = @ + PageAt(t).size]
    BY <1>1, <2>1, <2>2
  <2>4. b.in = "content" /\ b.serve = "data" /\ b.mixed = a.mixed
    BY <1>3, <2>1, <2>3 DEF AppRecords
  <2>5. k = [m EXCEPT !.parts = Append(@, PageAt(t)), !.mixed = a.mixed]
    BY <1>3, <2>1
  <2>6. k.mixed = a.mixed /\ k.user = m.user
    BY <1>3, <2>5 DEF IsAnswer
  <2>7. PICK z, f, Q, q : z = storage'[who.user] /\ f = json'[who.user] /\ Q = Mine(who.user)' /\ q = Req(t)'
    OBVIOUS
  <2>8. thread' = thread
    BY DEF tasks
  <2>9. Tells(b, who, q, k, z, f, Q)
    BY <1>1, <2>1, <2>7, <2>8 DEF Telling
  <2>10. b \in AppRecords /\ z \in Texts /\ Placed(b, q, who)
    BY <1>1, <1>3, <2>1, <2>7, <2>8 DEF Base, TypeInv, Applied, Texted, Turning, Auths
  <2>11. Gives(k, Q)
    BY <2>4, <2>6, <2>9, <2>10, DataGives
  <2> QED
    BY <2>1, <2>6, <2>7, <2>11
<1> QED
  BY <1>1, <1>7, <1>8, <1>9, <1>10
\* What was given stays so, and so does what is given.
LEMMA NextGiven ==
  ASSUME Base, Base', Lasting, [Next]_vars, Given, \A t \in Thread : thread[t].at = "answer" => Telling(t),
         \A t \in Thread : thread'[t].at = "answer" => Telling(t)'
  PROVE  Given'
<1> SUFFICES ASSUME NEW c \in Connection, NEW k, k = answer'[c] PROVE Gives(k, Mine(k.user)')
  BY DEF Given
<1>1. PICK m : m = answer[c]
  OBVIOUS
<1>2. Gives(m, Mine(m.user))
  BY <1>1 DEF Given
<1>3. ASSUME k = m PROVE Gives(k, Mine(k.user)')
  <2>1. PICK Q, R : Q = Mine(m.user)' /\ R = Mine(m.user)
    OBVIOUS
  <2>2. R \subseteq Q
    BY <2>1, MineGrows
  <2>3. Gives(k, Q)
    BY <1>2, <1>3, <2>1, <2>2, MorePosts
  <2> QED
    BY <1>3, <2>1, <2>3
<1>4. CASE ~ \E t \in Thread : Serving(t)
  BY <1>1, <1>3, <1>4, ElseLeaves
<1>5. CASE \E t \in Thread : Serving(t)
  <2>1. PICK t \in Thread : Serving(t)
    BY <1>5
  <2>2. CASE answer' = answer
    BY <1>1, <1>3, <2>2
  <2>3. CASE /\ thread[t].at = "answer" /\ UNCHANGED tasks
             /\ \/ WriteHeaders(t, thread[t].c, Req(t)) \/ WriteContent(t, thread[t].c, Req(t))
                \/ WritePage(t, thread[t].c) \/ EndPages(t, thread[t].c)
    <3>1. CASE c = thread[t].c
      <4>1. Telling(t) /\ Telling(t)'
        BY <2>3 DEF tasks
      <4>2. WriteHeaders(t, c, Req(t)) \/ WriteContent(t, c, Req(t)) \/ WritePage(t, c) \/ EndPages(t, c)
        BY <2>3, <3>1
      <4> QED
        BY <1>1, <1>2, <2>1, <2>3, <3>1, <4>1, <4>2, StepGives
    <3>2. CASE c # thread[t].c
      <4>1. answer'[c] = answer[c]
        BY <2>3, <3>2 DEF WriteHeaders, WriteContent, WritePage, EndPages, Base, FileInv
      <4> QED
        BY <1>1, <1>3, <4>1, SMTT(30)
    <3> QED
      BY <3>1, <3>2
  <2> QED
    BY <2>1, <2>2, <2>3, AnswerMoves
<1> QED
  BY <1>4, <1>5

\* What a thread writes, reads and sends stays so with a step that is of none.
LEMMA ElseTelling ==
  ASSUME Base, Base', Lasting, [Next]_vars, ~ \E t \in Thread : Serving(t), NEW o \in Thread, thread'[o].at = "answer",
         thread[o].at = "answer" => Telling(o)
  PROVE  Telling(o)'
<1>1. UNCHANGED <<storage, json, answer, auth, app, thread>> /\ Req(o)' = Req(o)
  <2>1. UNCHANGED <<storage, json, answer, auth, app, thread>>
    BY ElseLeaves, ElseGoes
  <2>2. thread[o].at # "idle"
    BY <2>1
  <2> QED
    BY <2>1, <2>2, ElseGoes
<1>2. PICK a, who, r, b, s, d, P, Q :
        /\ a = app[o] /\ who = auth[o] /\ r = Req(o) /\ b = answer[thread[o].c] /\ s = storage[who.user] /\ d = json[who.user]
        /\ P = Mine(who.user) /\ Q = Mine(who.user)'
  OBVIOUS
<1>3. Tells(a, who, r, b, s, d, P)
  BY <1>1, <1>2 DEF Telling
<1>4. P \subseteq Q
  BY <1>2, MineGrows
<1>5. a \in AppRecords
  BY <1>2 DEF Base, TypeInv, Applied
<1>6. Tells(a, who, r, b, s, d, Q)
  BY <1>3, <1>4, <1>5, OthersTell
<1> QED
  BY <1>1, <1>2, <1>6 DEF Telling

\* What a step of one changes is seen by the others.
LEMMA StepAlters ==
  ASSUME Base, NEW t \in Thread, Serving(t)
  PROVE  Alters(t)
<1>1. CASE UNCHANGED <<storage, json>>
  BY <1>1 DEF Alters
<1>2. CASE thread[t].at = "answer" /\ ResponseStep(t, thread[t].c, Req(t))
  <2>1. Turning(t, Req(t))
    BY <1>2, AnswerTurning DEF Base, TypeInv
  <2>2. CASE StorePage(t, Req(t)) \/ StoreLength(t, Req(t)) \/ StoreType(t) \/ StoreCount(t, Req(t))
    BY <2>1, <2>2, StoreSteps
  <2>3. CASE DropPage(t) \/ Drop(t)
    BY <2>1, <2>3, DropSteps
  <2>4. CASE PostDocument(t, Req(t))
    BY <2>1, <2>4, PostDoes
  <2> QED
    BY <1>1, <1>2, <2>1, <2>2, <2>3, <2>4, QuietDoes
<1> QED
  BY <1>1, <1>2, ServingDoes

LEMMA NextTelling ==
  ASSUME Base, Base', Lasting, Storing, [Next]_vars, \A t \in Thread : thread[t].at = "answer" => Telling(t)
  PROVE  \A t \in Thread : thread'[t].at = "answer" => Telling(t)'
<1> SUFFICES ASSUME NEW o \in Thread, thread'[o].at = "answer" PROVE Telling(o)'
  OBVIOUS
<1>1. thread[o].at = "answer" => Telling(o)
  OBVIOUS
<1>2. CASE Serving(o)
  BY <1>1, <1>2, OwnTelling
<1>3. CASE \E t \in Thread \ {o} : Serving(t)
  <2>1. PICK t \in Thread \ {o} : Serving(t)
    BY <1>3
  <2>2. Alters(t)
    BY <2>1, StepAlters
  <2> QED
    BY <1>1, <2>1, <2>2, OthersTelling
<1>4. CASE ~ \E t \in Thread : Serving(t)
  BY <1>1, <1>4, ElseTelling
<1> QED
  BY <1>2, <1>3, <1>4

\* Each step keeps what is stored, read and given.
LEMMA NextText == Base /\ WhoInv /\ TextInv /\ [Next]_vars => TextInv'
<1> SUFFICES ASSUME Base, WhoInv, TextInv, [Next]_vars PROVE TextInv'
  OBVIOUS
<1>1. Base' /\ Entered
  BY NextBase DEF WhoInv
<1>2. Lasting
  BY <1>1, StepLasts
<1>3. Posts /\ Storing /\ Given /\ \A t \in Thread : thread[t].at = "answer" => Telling(t)
  BY DEF TextInv
<1>4. Posts'
  BY <1>3, NextPosts
<1>5. Storing'
  BY <1>1, <1>2, <1>3, NextStoring
<1>6. \A t \in Thread : thread'[t].at = "answer" => Telling(t)'
  BY <1>1, <1>2, <1>3, NextTelling
<1>7. Given'
  BY <1>1, <1>2, <1>3, <1>6, NextGiven
<1> QED
  BY <1>4, <1>5, <1>6, <1>7 DEF TextInv
-----------------------------------------------------------------------------
(* The answers. *)

\* At first nothing is posted, stored or given.
LEMMA InitText == Init => TextInv
<1> SUFFICES ASSUME Init PROVE TextInv
  OBVIOUS
<1>1. /\ posted = {} /\ thread = [t \in Thread |-> NoTask] /\ coming = [c \in Connection |-> Quiet]
      /\ storage = [u \in User \cup {NoUser} |-> Nothing] /\ json = [u \in User \cup {NoUser} |-> NoDocument]
      /\ answer = [c \in Connection |-> NoAnswer]
  BY DEF Init, SessionInit, AppsInit, ResponseInit
<1>2. \A t \in Thread : thread[t].at = "idle"
  BY <1>1 DEF NoTask
<1>3. \A c \in Connection : ~ Waits(c)
  BY <1>1 DEF Waits, Quiet
<1>4. Posts
  BY <1>1, <1>2, <1>3 DEF Posts, Late
<1>5. Storing
  <2> SUFFICES ASSUME NEW u \in User PROVE \A P : Ours(storage[u], P) /\ Documented(json[u], P)
    BY DEF Storing
  <2>1. storage[u] = Nothing /\ json[u] = NoDocument
    BY <1>1
  <2>2. Nothing.length = 0 /\ NoDocument.json = "none" /\ NoDocument.http = "none" /\ NoDocument.length = 0
    BY DEF Nothing, NoDocument
  <2> QED
    BY <2>1, <2>2 DEF Ours, Documented
<1>6. Given
  <2>1. \A c \in Connection : ~ answer[c].ok
    BY <1>1 DEF NoAnswer
  <2> QED
    BY <2>1 DEF Given, Gives
<1> QED
  BY <1>2, <1>4, <1>5, <1>6 DEF TextInv

\* Whom and what a client is told is his own.
LEMMA Owned == Base /\ WhoInv /\ TextInv => OwnAnswer
<1> SUFFICES ASSUME Base, WhoInv, TextInv, NEW c \in Connection
             PROVE  LET a == answer[c]
                        x == coming[c].request.owner
                        texts == {a.parts[i].by : i \in DOMAIN a.parts}
                    IN Answered(c) /\ a.ok /\ a.id \notin raced.ids /\ x \notin raced.secrets
                         => /\ a.user # NoUser /\ known[x] \in {NoUser, a.user}
                            /\ a.mixed \/ texts \in {{}, {"content"}}
                                 \/ \E p \in posted : /\ p[1] = x /\ texts = {p[2]}
                                                       /\ a.announced # -1 => a.announced = p[3] /\ Length(a.parts) = p[3]
  BY Zenon DEF OwnAnswer
<1> DEFINE a == answer[c]
           x == coming[c].request.owner
           texts == {a.parts[i].by : i \in DOMAIN a.parts}
<1> SUFFICES ASSUME Answered(c), a.ok, a.id \notin raced.ids, x \notin raced.secrets
             PROVE  /\ a.user # NoUser /\ known[x] \in {NoUser, a.user}
                    /\ a.mixed \/ texts \in {{}, {"content"}}
                         \/ \E p \in posted : /\ p[1] = x /\ texts = {p[2]}
                                               /\ a.announced # -1 => a.announced = p[3] /\ Length(a.parts) = p[3]
  BY Zenon
<1>1. a.user # NoUser /\ known[x] \in {NoUser, a.user} /\ Belongs(a.user, x)
  BY OwnUser
<1>2. PICK P : P = Mine(a.user)
  OBVIOUS
<1>3. Gives(a, P)
  BY <1>2 DEF TextInv, Given
<1>4. CASE \A i \in DOMAIN a.parts : a.parts[i].by = "content"
  BY <1>1, <1>4
<1>5. CASE ~ a.mixed /\ ~ \A i \in DOMAIN a.parts : a.parts[i].by = "content"
  <2>1. PICK p \in P : /\ \A i \in DOMAIN a.parts : a.parts[i].by = p[2]
                       /\ a.announced # -1 => a.announced = p[3] /\ Length(a.parts) \in 0 .. p[3]
    BY <1>1, <1>3, <1>5 DEF Gives
  <2>2. p \in posted /\ Belongs(a.user, p[1])
    BY <1>2 DEF Mine
  <2>3. p[1] = x
    BY <1>1, <2>2 DEF Belongs
  <2>4. texts = {p[2]}
    BY <1>5, <2>1
  <2>5. a.announced # -1 => Length(a.parts) = p[3]
    <3>1. a.announced # -1 => Length(a.parts) >= a.announced
      BY DEF Answered, Complete
    <3>2. p[3] \in 0 .. Most
      BY <2>2 DEF TextInv, Posts
    <3> QED
      BY <2>1, <3>1, <3>2, PageNumbers
  <2> QED
    BY <1>1, <2>1, <2>2, <2>3, <2>4, <2>5
<1> QED
  BY <1>1, <1>4, <1>5

\* Whatever clients, threads and browsers there are, who is told to be logged on is the user of the secret
\* that was logged on with, and what he is given was posted with that secret, whole, unless his session was
\* cleared or his secret was new to two at once, or the text was posted meanwhile (Authentication,
\* StorageApp, JSONApp, ResponseStream).
THEOREM OwnAnswers == Spec => []OwnAnswer
<1>1. Init => Base /\ WhoInv /\ TextInv
  BY InitHand, InitFile, InitPool, InitTypes, InitWho, InitText DEF Base
<1>2. Base /\ WhoInv /\ TextInv /\ [Next]_vars => (Base /\ WhoInv /\ TextInv)'
  BY NextBase, NextWho, NextText
<1>3. Base /\ WhoInv /\ TextInv => OwnAnswer
  BY Owned
<1> QED
  BY <1>1, <1>2, <1>3, PTL DEF Spec
=============================================================================
