-------------------------------- MODULE Pool --------------------------------
(***************************************************************************)
(* The handles on the database that the threads of a server share          *)
(* (src/code/Authentication/server.h).  A thread tries the locks of the    *)
(* handles one after the other; when all are taken it sleeps on one more   *)
(* mutex, which releaseDatabase unlocks as a signal, whoever locked it.    *)
(* To unlock it while it is not locked is undefined; with the mutex of the *)
(* C library it stays unlocked, so that signals do not add up.             *)
(***************************************************************************)
EXTENDS Naturals, FiniteSets

CONSTANTS Thread,   \* the threads of the server
          NoThread  \* the holder of a free lock

ASSUME PoolAssumption == NoThread \notin Thread

VARIABLES databases, \* _databaseLocks: who holds each
          signal,    \* _databaseLock is unlocked
          ask        \* thread -> where it is in requestDatabase or releaseDatabase, and at which handle

pool == <<databases, signal, ask>>

Asks == {"none", "scan", "sleep", "held", "unlock", "signal"}

NoAsk == [at |-> "none", i |-> 1]

PoolTypeOK ==
  /\ DOMAIN databases = 1 .. Cardinality(DOMAIN databases)
  /\ \A i \in DOMAIN databases : databases[i] \in Thread \cup {NoThread}
  /\ signal \in BOOLEAN
  /\ ask \in [Thread -> [at : Asks, i : DOMAIN databases]]

PoolInit(count) ==
  /\ databases = [i \in 1 .. count |-> NoThread]
  /\ signal = TRUE
  /\ ask = [t \in Thread |-> NoAsk]

Outside(t) == ask[t].at = "none"
Holds(t) == ask[t].at = "held"

\* ScopedDatabase begins: t calls requestDatabase.
Request(t) == ask' = [ask EXCEPT ![t] = [at |-> "scan", i |-> 1]]

\* ScopedDatabase ends: t calls releaseDatabase.
Release(t) == ask' = [ask EXCEPT ![t].at = "unlock"]

TryLock(t) ==
  /\ ask[t].at = "scan"
  /\ LET i == ask[t].i
     IN \/ /\ databases[i] = NoThread
           /\ databases' = [databases EXCEPT ![i] = t]
           /\ ask' = [ask EXCEPT ![t].at = "held"]
        \/ /\ databases[i] # NoThread
           /\ ask' = [ask EXCEPT ![t] = IF i + 1 \in DOMAIN databases
                                        THEN [@ EXCEPT !.i = i + 1] ELSE [@ EXCEPT !.at = "sleep"]]
           /\ UNCHANGED databases
  /\ UNCHANGED signal

Wake(t) ==
  /\ ask[t].at = "sleep"
  /\ signal
  /\ signal' = FALSE
  /\ Request(t)
  /\ UNCHANGED databases

Unlock(t) ==
  /\ ask[t].at = "unlock"
  /\ databases' = [databases EXCEPT ![ask[t].i] = NoThread]
  /\ ask' = [ask EXCEPT ![t].at = "signal"]
  /\ UNCHANGED signal

\* As Signal would be without the unlock of _databaseLock.
SignalLost(t) ==
  /\ ask[t].at = "signal"
  /\ ask' = [ask EXCEPT ![t] = NoAsk]
  /\ UNCHANGED <<databases, signal>>

Signal(t) ==
  /\ ask[t].at = "signal"
  /\ signal' = TRUE
  /\ ask' = [ask EXCEPT ![t] = NoAsk]
  /\ UNCHANGED databases

PoolStep(t) == TryLock(t) \/ Wake(t) \/ Unlock(t) \/ Signal(t)

-----------------------------------------------------------------------------

\* Each request for a handle is granted (requestDatabase, releaseDatabase:
\* no signal is lost between the scan of the locks and the sleep).
Served == \A t \in Thread : ask[t].at \in {"scan", "sleep"} ~> Holds(t)
=============================================================================
