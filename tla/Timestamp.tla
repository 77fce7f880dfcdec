----------------------------- MODULE Timestamp ------------------------------
(***************************************************************************)
(* The timestamps every Id carries (src/code/Id/Id.hpp): the system clock  *)
(* in milliseconds, and an increment that tells apart the timestamps of    *)
(* one millisecond.  The last milliseconds and increment are in a shared   *)
(* memory segment, under its mutex; its users are the processes that make  *)
(* timestamps.                                                             *)
(***************************************************************************)
EXTENDS SharedMemory, Sequences

CONSTANTS
  MaxClock,      \* bound: readings of the clock
  MaxStamps,     \* bound: timestamps made
  MaxStepsBack   \* bound: times the system clock is set back

ASSUME ClockAssumption ==
  MaxClock \in Nat /\ MaxStamps \in Nat /\ MaxStepsBack \in Nat

VARIABLES
  now,          \* milliseconds(): the system clock
  last,         \* segment -> [ms, inc]: lastMilliseconds and lastIncrement in it
  milliseconds, \* _milliseconds of the timestamp a user is making
  made,         \* the timestamps made, in order: <<milliseconds, increment>>
  stepsBack,    \* how often the clock was set back
  steady        \* the clock never was, and no segment was made in a
                \* millisecond that had its timestamps already

stampVars == <<now, last, milliseconds, made, stepsBack, steady>>

Begin ==
  /\ Init
  /\ now = 0 /\ stepsBack = 0
  /\ last = [s \in {} |-> [ms |-> 0, inc |-> 0]]
  /\ milliseconds = [p \in User |-> 0]
  /\ made = <<>>
  /\ steady = TRUE

\* The end of the constructor of Memory: find_or_construct of the last
\* milliseconds (now) and increment (0).
Construct(p) ==
  /\ CountWrite(p)
  /\ IF seg[p] \in DOMAIN last
     THEN UNCHANGED <<last, steady>>
     ELSE /\ last' = [s \in DOMAIN last \cup {seg[p]} |->
                        IF s = seg[p] THEN [ms |-> now, inc |-> 0] ELSE last[s]]
          /\ steady' = (steady /\ \A i \in 1 .. Len(made) : made[i][1] < now)
  /\ UNCHANGED <<now, milliseconds, made, stepsBack>>

\* Mutant: the clock is read without the mutex.
ReadClockUnlocked(p) ==
  /\ pc[p] = "in" /\ Len(made) < MaxStamps
  /\ pc' = [pc EXCEPT ![p] = "critical"]
  /\ milliseconds' = [milliseconds EXCEPT ![p] = now]
  /\ UNCHANGED <<named, created, counter, mutex, seg, reg,
                 now, last, made, stepsBack, steady>>

\* The constructor of Timestamp locks the mutex and reads the clock.
ReadClock(p) ==
  /\ Len(made) < MaxStamps
  /\ Enter(p)
  /\ milliseconds' = [milliseconds EXCEPT ![p] = now]
  /\ UNCHANGED <<now, last, made, stepsBack, steady>>

\* Mutant: the increment starts again in the same millisecond.
NextIncrementAgain(ms, l) == IF ms >= l.ms THEN 0 ELSE l.inc + 1

NextIncrement(ms, l) == IF ms > l.ms THEN 0 ELSE l.inc + 1

\* increment(), and the end of the constructor's scope.
Increment(p) ==
  /\ Leave(p)
  /\ LET ms == milliseconds[p]
         inc == NextIncrement(ms, last[seg[p]]) IN
       /\ last' = [last EXCEPT ![seg[p]] = [ms |-> ms, inc |-> inc]]
       /\ made' = Append(made, <<ms, inc>>)
  /\ UNCHANGED <<now, milliseconds, stepsBack, steady>>

\* The system clock.
Tick ==
  /\ now < MaxClock /\ now' = now + 1
  /\ UNCHANGED <<vars, last, milliseconds, made, stepsBack, steady>>

StepBack ==
  /\ now > 0 /\ stepsBack < MaxStepsBack
  /\ now' = now - 1 /\ stepsBack' = stepsBack + 1 /\ steady' = FALSE
  /\ UNCHANGED <<vars, last, milliseconds, made>>

\* Joining and leaving the segment.
Join(p) == (Attach(p) \/ CountRead(p)) /\ UNCHANGED stampVars
Quit(p) == (Detach(p) \/ CountOut(p) \/ Remove(p)) /\ UNCHANGED stampVars

Go ==
  \/ \E p \in User : Join(p) \/ Construct(p) \/ ReadClock(p) \/ Increment(p) \/ Quit(p)
  \/ Tick \/ StepBack

StampSpec == Begin /\ [][Go]_<<vars, stampVars>>

-----------------------------------------------------------------------------
(* Properties. *)

\* Type correctness.
StampTypeOK ==
  /\ TypeOK
  /\ now \in Nat /\ stepsBack \in Nat /\ steady \in BOOLEAN
  /\ DOMAIN last \subseteq Segment /\ last \in [DOMAIN last -> [ms : Nat, inc : Nat]]
  /\ milliseconds \in [User -> Nat]
  /\ made \in Seq(Nat \X Nat)

\* "Timestamps has all with no duplicates": no two timestamps are the same,
\* whichever threads and processes made them, as long as the clock is steady.
NoDuplicates ==
  steady => \A i, j \in 1 .. Len(made) : made[i] = made[j] => i = j

\* s is before t: an earlier millisecond, or the same and a smaller increment.
Before(s, t) == s[1] < t[1] \/ (s[1] = t[1] /\ s[2] < t[2])

\* As long as the clock is steady, timestamps are ordered as they were made.
InOrder ==
  steady => \A i, j \in 1 .. Len(made) : i < j => Before(made[i], made[j])
=============================================================================
