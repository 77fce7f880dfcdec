--------------------------- MODULE Authentication ---------------------------
(***************************************************************************)
(* Who is logged on (src/code/Authentication/authentication.h).  A secret  *)
(* has a user, a session id has a user and the time it was last seen; both *)
(* are kept in the database, and each method runs with one of the handles  *)
(* of the Pool.  Methods of several threads run at once, each with its own *)
(* handle: what a method reads may be changed before it writes.            *)
(***************************************************************************)
EXTENDS Pool, Sequences

CONSTANTS Secret,     \* the secrets of the users
          MaxUser,    \* bound: users created
          MaxSession  \* bound: session ids created

ASSUME AuthenticationAssumption == MaxUser \in Nat /\ MaxSession \in Nat

NoUser == 0     \* the empty _userId; a user is a number from 1 on
NoSession == 0  \* the empty _sessionId, likewise

User == 1 .. MaxUser
SessionId == 1 .. MaxSession

VARIABLES secrets,  \* [SECRETS]: secret -> user, or NoUser
          seen,     \* [IP_ADDRESSES][ip][id]: id -> its user and LAST_AUTHENTICATION
          auth,     \* thread -> the Authentication of its response, and the method it is in
          made,     \* how many users and session ids were created
          raced     \* history: ids that logoff cleared while they were authenticated, and
                    \* secrets that two threads found without a user

authentication == <<secrets, seen, auth, made, raced>>

Methods == {"none", "authenticate", "time", "stamp", "user", "logon", "create", "secret",
            "session", "last", "logoff"}

\* What a session id has before it is used and after it is cleared.
Cleared == [user |-> NoUser, last |-> "none"]

NoAuth == [in |-> "none", ok |-> FALSE, id |-> NoSession, user |-> NoUser, secret |-> "none"]

AuthenticationTypeOK ==
  /\ secrets \in [Secret -> User \cup {NoUser}]
  /\ seen \in [SessionId -> [user : User \cup {NoUser}, last : {"none", "fresh", "old"}]]
  /\ auth \in [Thread -> [in : Methods, ok : BOOLEAN, id : SessionId \cup {NoSession},
                          user : User \cup {NoUser}, secret : Secret \cup {"none", ""}]]
  /\ made \in [users : {NoUser} \cup User, sessions : {NoSession} \cup SessionId]
  /\ raced \in [ids : SUBSET SessionId, secrets : SUBSET Secret]

\* Some have logged on before: the users of secrets, and those of session ids.
AuthenticationInit(users, ids) ==
  /\ secrets = users
  /\ seen = [i \in SessionId |-> IF i \in DOMAIN ids THEN [user |-> ids[i], last |-> "fresh"] ELSE Cleared]
  /\ auth = [t \in Thread |-> NoAuth]
  /\ made = [users |-> Cardinality({x \in Secret : users[x] # NoUser}), sessions |-> Len(ids)]
  /\ raced = [ids |-> {}, secrets |-> {}]

\* No method of t runs, and it has no handle.
Resting(t) == auth[t].in = "none" /\ Outside(t)

\* A method of t begins: it asks for a handle.
Call(t, a) == auth' = [auth EXCEPT ![t] = a] /\ Request(t)

\* It returns.
Return(t, a) == auth' = [auth EXCEPT ![t] = [a EXCEPT !.in = "none"]] /\ Release(t)

In(t, method) == auth[t].in = method /\ Holds(t)

Go(t, a, method) == auth' = [auth EXCEPT ![t] = [a EXCEPT !.in = method]] /\ UNCHANGED ask

-----------------------------------------------------------------------------
(* authenticate *)

CallAuthenticate(t) == Call(t, [auth[t] EXCEPT !.in = "authenticate", !.ok = FALSE])

\* Is there a time?
Authenticate(t) ==
  /\ In(t, "authenticate")
  /\ LET a == auth[t]
     IN IF a.id # NoSession /\ seen[a.id].last # "none" THEN Go(t, a, "time") ELSE Return(t, a)
  /\ UNCHANGED <<secrets, seen, made, raced, databases, signal>>

\* Is it less than an hour ago?  The time of an id cleared meanwhile is what
\* happens to be in the memory of an empty string.
CheckTime(t) ==
  /\ In(t, "time")
  /\ LET a == auth[t]
     IN \/ seen[a.id].last # "old" /\ Go(t, [a EXCEPT !.ok = TRUE], "stamp")
        \/ seen[a.id].last # "fresh" /\ Return(t, a)
  /\ UNCHANGED <<secrets, seen, made, raced, databases, signal>>

StampTime(t) ==
  /\ In(t, "stamp")
  /\ LET i == auth[t].id
     IN /\ seen' = [seen EXCEPT ![i].last = "fresh"]
        /\ raced' = IF seen[i].last = "none" THEN [raced EXCEPT !.ids = @ \cup {i}] ELSE raced
  /\ Go(t, auth[t], "user")
  /\ UNCHANGED <<secrets, made, databases, signal>>

ReadUser(t) ==
  /\ In(t, "user")
  /\ LET i == auth[t].id
     IN /\ Return(t, [auth[t] EXCEPT !.user = seen[i].user])
        /\ raced' = IF seen[i].last = "none" THEN [raced EXCEPT !.ids = @ \cup {i}] ELSE raced
  /\ UNCHANGED <<secrets, seen, made, databases, signal>>

-----------------------------------------------------------------------------
(* logon *)

CallLogon(t, secret) == Call(t, [auth[t] EXCEPT !.in = "logon", !.ok = FALSE, !.secret = secret])

\* Has the secret a user?
Logon(t) ==
  /\ In(t, "logon")
  /\ LET a == auth[t]
     IN IF secrets[a.secret] = NoUser THEN Go(t, a, "create")
        ELSE Go(t, [a EXCEPT !.user = secrets[a.secret]], "session")
  /\ UNCHANGED <<secrets, seen, made, raced, databases, signal>>

\* createRandom gives what no one has.
CreateUser(t) ==
  /\ In(t, "create")
  /\ made.users + 1 \in User
  /\ made' = [made EXCEPT !.users = @ + 1]
  /\ Go(t, [auth[t] EXCEPT !.user = made.users + 1], "secret")
  /\ UNCHANGED <<secrets, seen, raced, databases, signal>>

StoreSecret(t) ==
  /\ In(t, "secret")
  /\ secrets' = [secrets EXCEPT ![auth[t].secret] = auth[t].user]
  /\ raced' = IF secrets[auth[t].secret] # NoUser THEN [raced EXCEPT !.secrets = @ \cup {auth[t].secret}] ELSE raced
  /\ Go(t, auth[t], "session")
  /\ UNCHANGED <<seen, made, databases, signal>>

StoreSession(t) ==
  /\ In(t, "session")
  /\ LET i == made.sessions + 1
     IN /\ i \in SessionId
        /\ seen' = [seen EXCEPT ![i].user = auth[t].user]
        /\ made' = [made EXCEPT !.sessions = i]
        /\ Go(t, [auth[t] EXCEPT !.id = i], "last")
  /\ UNCHANGED <<secrets, raced, databases, signal>>

StoreLast(t) ==
  /\ In(t, "last")
  /\ seen' = [seen EXCEPT ![auth[t].id].last = "fresh"]
  /\ Return(t, [auth[t] EXCEPT !.ok = TRUE])
  /\ UNCHANGED <<secrets, made, raced, databases, signal>>

-----------------------------------------------------------------------------
(* logoff *)

Forget(a) == [a EXCEPT !.in = "none", !.ok = FALSE, !.id = NoSession, !.user = NoUser]

\* Without a session there is nothing to clear.
CallLogoff(t) ==
  IF auth[t].ok THEN Call(t, [auth[t] EXCEPT !.in = "logoff"])
  ELSE auth' = [auth EXCEPT ![t] = Forget(@)] /\ UNCHANGED ask

Logoff(t) ==
  /\ In(t, "logoff")
  /\ seen' = [seen EXCEPT ![auth[t].id] = Cleared]
  /\ Return(t, Forget(auth[t]))
  /\ UNCHANGED <<secrets, made, raced, databases, signal>>

-----------------------------------------------------------------------------

\* An hour goes by since a session was seen.
Expire(i) ==
  /\ seen[i].last = "fresh"
  /\ seen' = [seen EXCEPT ![i].last = "old"]
  /\ UNCHANGED <<secrets, auth, made, raced, pool>>

AuthenticationStep(t) ==
  \/ Authenticate(t) \/ CheckTime(t) \/ StampTime(t) \/ ReadUser(t)
  \/ Logon(t) \/ CreateUser(t) \/ StoreSecret(t) \/ StoreSession(t) \/ StoreLast(t)
  \/ Logoff(t)
=============================================================================
