----------------------------- MODULE LockProofs -----------------------------
(***************************************************************************)
(* Theorems about LockFile, for any threads, indices and bounds: the map   *)
(* has an entry for exactly the indices in use, the mutex of an entry is   *)
(* held as its scopes say, nobody waits for it with the global mutex, and  *)
(* so the threads see a lock of its own for each index, as IndexLocks says.*)
(*                                                                         *)
(* The counter of an entry is what keeps the entry: it is the number of    *)
(* tickets for the index, one for each scope a thread has on it and one    *)
(* for the call it is in.  A lock moves a ticket of a call into a scope,   *)
(* an unlock moves it back.                                                *)
(***************************************************************************)
EXTENDS LockFile, FiniteSetTheorems, TLAPS

\* Where i is in a sequence of indices.
Places(s, i) == {n \in DOMAIN s : s[n] = i}

\* The tickets p has for i: those of its scopes, and of its call, which is numbered 0.
Own(p, i) == Places(held[p], i) \cup IF InCall(p, i) THEN {0} ELSE {}

Tickets(i) == {t \in Thread \X Nat : t[2] \in Own(t[1], i)}

\* The threads at work with the global mutex are those that hold it.
GlobalHeld == \A p \in Thread : pc[p] \in {"first", "drop"} <=> global = p

\* The counter of an entry, and which entries there are.
Counted ==
  \A i \in Index :
    /\ IsFiniteSet(Tickets(i))
    /\ i \in DOMAIN map <=> Tickets(i) # {}
    /\ i \in DOMAIN map => map[i].counter = Cardinality(Tickets(i))

\* Who finds nobody counted is alone until it lets go of the global mutex.
Alone == \A p \in Thread : pc[p] = "first" => Tickets(arg[p]) = {<<p, 0>>}

\* A mutex nobody owns is not held any number of times.
Unowned == \A i \in DOMAIN map : map[i].owner = NoThread => map[i].depth = 0

\* The inductive invariant.
Inv == TypeOK /\ GlobalHeld /\ Counted /\ Alone /\ MutexHeld /\ Unowned

-----------------------------------------------------------------------------
(* Sequences and sets. *)

\* An index has finitely many places in a sequence, none of them 0.
LEMMA PlacesFinite ==
  ASSUME NEW s \in Seq(Index), NEW i
  PROVE  /\ IsFiniteSet(Places(s, i))
         /\ Places(s, i) \subseteq Nat \ {0}
         /\ Cardinality(Places(s, i)) \in Nat
         /\ Cardinality(Places(s, i)) = 0 <=> Places(s, i) = {}
<1>1. DOMAIN s = 1 .. Len(s) /\ Len(s) \in Nat
  OBVIOUS
<1>2. IsFiniteSet(1 .. Len(s))
  BY <1>1, FS_Interval
<1>3. Places(s, i) \subseteq 1 .. Len(s)
  BY <1>1 DEF Places
<1>4. IsFiniteSet(Places(s, i))
  BY <1>2, <1>3, FS_Subset
<1>5. Cardinality(Places(s, i)) \in Nat
  BY <1>4, FS_CardinalityType
<1>6. Cardinality(Places(s, i)) = 0 <=> Places(s, i) = {}
  BY <1>4, FS_EmptySet
<1> QED
  BY <1>1, <1>3, <1>4, <1>5, <1>6

\* How often p has locked i.
LEMMA DepthPlaces ==
  ASSUME NEW p \in Thread, NEW i, held[p] \in Seq(Index)
  PROVE  /\ Depth(p, i) = Cardinality(Places(held[p], i))
         /\ Depth(p, i) \in Nat
         /\ Depth(p, i) = 0 <=> Places(held[p], i) = {}
<1>1. Depth(p, i) = Cardinality(Places(held[p], i))
  BY DEF Depth, Places
<1> QED
  BY <1>1, PlacesFinite

\* What Append does to the places of an index.
LEMMA AppendPlaces ==
  ASSUME NEW s \in Seq(Index), NEW e \in Index, NEW i
  PROVE  /\ Append(s, e) \in Seq(Index)
         /\ Len(s) + 1 \in Nat \ {0}
         /\ Len(s) + 1 \notin Places(s, i)
         /\ i = e => Places(Append(s, e), i) = Places(s, i) \cup {Len(s) + 1}
         /\ i # e => Places(Append(s, e), i) = Places(s, i)
<1>1. /\ Append(s, e) \in Seq(Index)
      /\ DOMAIN Append(s, e) = DOMAIN s \cup {Len(s) + 1}
      /\ Len(s) + 1 \notin DOMAIN s /\ Len(s) + 1 \in Nat \ {0}
      /\ \A n \in DOMAIN s : Append(s, e)[n] = s[n]
      /\ Append(s, e)[Len(s) + 1] = e
  OBVIOUS
<1> QED
  BY <1>1 DEF Places

\* What the removal of the newest does.
LEMMA FrontPlaces ==
  ASSUME NEW s \in Seq(Index), s # <<>>, NEW i
  PROVE  /\ SubSeq(s, 1, Len(s) - 1) \in Seq(Index)
         /\ s[Len(s)] \in Index
         /\ Len(s) \in Places(s, s[Len(s)])
         /\ Places(SubSeq(s, 1, Len(s) - 1), i) = Places(s, i) \ {Len(s)}
<1> DEFINE f == SubSeq(s, 1, Len(s) - 1)
<1>1. /\ f \in Seq(Index)
      /\ DOMAIN f = DOMAIN s \ {Len(s)}
      /\ Len(s) \in DOMAIN s
      /\ s[Len(s)] \in Index
      /\ \A n \in DOMAIN f : f[n] = s[n]
  OBVIOUS
<1> HIDE DEF f
<1>2. Places(f, i) = Places(s, i) \ {Len(s)} /\ Len(s) \in Places(s, s[Len(s)])
  BY <1>1 DEF Places
<1> QED
  BY <1>1, <1>2 DEF f

\* One element for another leaves the cardinality.
LEMMA Exchange ==
  ASSUME NEW S, IsFiniteSet(S), NEW x \in S, NEW y, y \notin S
  PROVE  /\ IsFiniteSet((S \ {x}) \cup {y})
         /\ Cardinality((S \ {x}) \cup {y}) = Cardinality(S)
<1>1. IsFiniteSet(S \ {x}) /\ Cardinality(S \ {x}) = Cardinality(S) - 1
  BY FS_RemoveElement
<1>2. y \notin S \ {x}
  OBVIOUS
<1>3. /\ IsFiniteSet((S \ {x}) \cup {y})
      /\ Cardinality((S \ {x}) \cup {y}) = Cardinality(S \ {x}) + 1
  BY <1>1, <1>2, FS_AddElement
<1>4. Cardinality(S) \in Nat
  BY FS_CardinalityType
<1> QED
  BY <1>1, <1>3, <1>4

-----------------------------------------------------------------------------
(* What a step does to the tickets. *)

\* The tickets of p, with TypeOK.
LEMMA OwnNat ==
  ASSUME TypeOK, NEW p \in Thread, NEW i
  PROVE  /\ held[p] \in Seq(Index)
         /\ Own(p, i) \subseteq Nat
         /\ 0 \in Own(p, i) <=> InCall(p, i)
         /\ Places(held[p], i) = Own(p, i) \ {0}
         /\ \A n : <<p, n>> \in Tickets(i) <=> n \in Own(p, i)
<1>1. held[p] \in Seq(Index)
  BY DEF TypeOK
<1>2. Places(held[p], i) \subseteq Nat \ {0}
  BY <1>1, PlacesFinite
<1> QED
  BY <1>1, <1>2 DEF Own, Tickets

\* A step of p leaves the tickets of the others.
LEMMA OthersTickets ==
  ASSUME NEW p \in Thread, NEW i,
         \A q \in Thread \ {p} : held'[q] = held[q] /\ pc'[q] = pc[q] /\ arg'[q] = arg[q]
  PROVE  \A t \in Thread \X Nat : t[1] # p => (t \in Tickets(i)' <=> t \in Tickets(i))
  BY DEF Tickets, Own, InCall

\* So does one that leaves the tickets of p for an index.
LEMMA SameTickets ==
  ASSUME NEW p \in Thread, NEW i,
         \A q \in Thread \ {p} : held'[q] = held[q] /\ pc'[q] = pc[q] /\ arg'[q] = arg[q],
         Own(p, i)' = Own(p, i)
  PROVE  Tickets(i)' = Tickets(i)
<1>1. \A t \in Thread \X Nat : t[1] # p => (t \in Tickets(i)' <=> t \in Tickets(i))
  BY OthersTickets
<1>2. \A t \in Thread \X Nat : t[1] = p => (t \in Tickets(i)' <=> t \in Tickets(i))
  BY DEF Tickets
<1> QED
  BY <1>1, <1>2 DEF Tickets

\* A ticket of p more: lock is called.
LEMMA MoreTickets ==
  ASSUME NEW p \in Thread, NEW i, NEW n \in Nat,
         \A q \in Thread \ {p} : held'[q] = held[q] /\ pc'[q] = pc[q] /\ arg'[q] = arg[q],
         Own(p, i)' = Own(p, i) \cup {n}
  PROVE  Tickets(i)' = Tickets(i) \cup {<<p, n>>}
<1>1. \A t \in Thread \X Nat : t[1] # p => (t \in Tickets(i)' <=> t \in Tickets(i))
  BY OthersTickets
<1>2. \A t \in Thread \X Nat : t[1] = p => (t \in Tickets(i)' <=> t \in Tickets(i) \/ t[2] = n)
  BY DEF Tickets
<1> QED
  BY <1>1, <1>2 DEF Tickets

\* A ticket of p less: unlock is done.
LEMMA LessTickets ==
  ASSUME NEW p \in Thread, NEW i, NEW n \in Nat,
         \A q \in Thread \ {p} : held'[q] = held[q] /\ pc'[q] = pc[q] /\ arg'[q] = arg[q],
         Own(p, i)' = Own(p, i) \ {n}
  PROVE  Tickets(i)' = Tickets(i) \ {<<p, n>>}
<1>1. \A t \in Thread \X Nat : t[1] # p => (t \in Tickets(i)' <=> t \in Tickets(i))
  BY OthersTickets
<1>2. \A t \in Thread \X Nat : t[1] = p => (t \in Tickets(i)' <=> t \in Tickets(i) /\ t[2] # n)
  BY DEF Tickets
<1> QED
  BY <1>1, <1>2 DEF Tickets

\* One ticket of p for another.
LEMMA MovedTicket ==
  ASSUME NEW p \in Thread, NEW i, NEW n \in Nat, NEW m \in Nat,
         \A q \in Thread \ {p} : held'[q] = held[q] /\ pc'[q] = pc[q] /\ arg'[q] = arg[q],
         Own(p, i)' = (Own(p, i) \ {n}) \cup {m}
  PROVE  Tickets(i)' = (Tickets(i) \ {<<p, n>>}) \cup {<<p, m>>}
<1>1. \A t \in Thread \X Nat : t[1] # p => (t \in Tickets(i)' <=> t \in Tickets(i))
  BY OthersTickets
<1>2. \A t \in Thread \X Nat : t[1] = p => (t \in Tickets(i)' <=> t[2] = m \/ (t \in Tickets(i) /\ t[2] # n))
  BY DEF Tickets
<1> QED
  BY <1>1, <1>2 DEF Tickets

-----------------------------------------------------------------------------
(* The invariant is inductive. *)

\* It holds before anybody has called lock: there are no tickets.
LEMMA InitInv == Init => Inv
<1> SUFFICES ASSUME Init PROVE Inv
  OBVIOUS
<1>1. TypeOK
  BY BoundAssumption DEF Init, TypeOK, PC, Entry
<1>2. GlobalHeld
  BY ThreadAssumption DEF Init, GlobalHeld
<1>3. \A i : Tickets(i) = {}
  BY DEF Init, Tickets, Own, Places, InCall
<1>4. Counted
  BY <1>3, FS_EmptySet DEF Init, Counted
<1>5. Alone /\ MutexHeld /\ Unowned
  BY DEF Init, Alone, MutexHeld, Unowned
<1> QED
  BY <1>1, <1>2, <1>4, <1>5 DEF Inv

\* lock counts its caller, who has no ticket of a call yet.
LEMMA LockKeepsInv ==
  ASSUME Inv, NEW p \in Thread, NEW a \in Index, Lock(p, a)
  PROVE  Inv'
<1>1. /\ TypeOK /\ pc[p] = "run" /\ global = NoThread
      /\ map' = [Found(a) EXCEPT ![a].counter = @ + 1]
      /\ arg' = [arg EXCEPT ![p] = a] /\ left' = [left EXCEPT ![p] = @ - 1] /\ left[p] > 0
      /\ held' = held
      /\ \/ pc' = [pc EXCEPT ![p] = "first"] /\ global' = p /\ Found(a)[a].counter = 0
         \/ pc' = [pc EXCEPT ![p] = "lookup"] /\ global' = global
  BY DEF Inv, Lock
<1>2. TypeOK'
  <2>1. DOMAIN map' = DOMAIN map \cup {a}
    BY <1>1 DEF Found
  <2>2. \A i \in DOMAIN map' : map'[i] \in Entry
    <3>1. Found(a)[a] \in Entry
      BY <1>1 DEF Found, TypeOK, Entry, NewEntry
    <3>2. map'[a] \in Entry
      BY <1>1, <3>1 DEF Found, Entry
    <3>3. \A i \in DOMAIN map \ {a} : map'[i] = map[i] /\ map[i] \in Entry
      BY <1>1 DEF Found, TypeOK
    <3> QED
      BY <2>1, <3>2, <3>3
  <2>3. map' = [i \in DOMAIN map' |-> map'[i]]
    BY <1>1 DEF Found
  <2>4. pc' \in [Thread -> PC] /\ global' \in Thread \cup {NoThread}
    BY <1>1 DEF TypeOK, PC
  <2>5. left' \in [Thread -> Nat]
    <3>1. left[p] - 1 \in Nat
      BY <1>1 DEF TypeOK
    <3> QED
      BY <1>1, <3>1 DEF TypeOK
  <2> QED
    BY <1>1, <2>1, <2>2, <2>3, <2>4, <2>5 DEF TypeOK
<1>3. \A q \in Thread : pc[q] \notin {"first", "drop"}
  BY <1>1, ThreadAssumption DEF Inv, GlobalHeld
<1>4. \A q \in Thread \ {p} : held'[q] = held[q] /\ pc'[q] = pc[q] /\ arg'[q] = arg[q]
  BY <1>1 DEF TypeOK
<1>5. pc'[p] \in {"first", "lookup"} /\ arg'[p] = a /\ held' = held
  BY <1>1 DEF TypeOK
<1>6. GlobalHeld'
  BY <1>1, <1>3, <1>4, ThreadAssumption DEF TypeOK, GlobalHeld
<1>7. /\ Own(p, a)' = Own(p, a) \cup {0}
      /\ \A i \in Index \ {a} : Own(p, i)' = Own(p, i)
  BY <1>1, <1>5 DEF Own, InCall
<1>8. /\ Tickets(a)' = Tickets(a) \cup {<<p, 0>>}
      /\ \A i \in Index \ {a} : Tickets(i)' = Tickets(i)
  BY <1>4, <1>7, MoreTickets, SameTickets
<1>9. <<p, 0>> \notin Tickets(a)
  BY <1>1, OwnNat DEF InCall
<1>10. Counted /\ IsFiniteSet(Tickets(a)) /\ Cardinality(Tickets(a)) \in Nat
  BY FS_CardinalityType DEF Inv, Counted
<1>11. Found(a)[a].counter = Cardinality(Tickets(a))
  <2>1. CASE a \in DOMAIN map
    BY <1>10, <2>1 DEF Found, Counted
  <2>2. CASE a \notin DOMAIN map
    BY <1>10, <2>2, FS_EmptySet DEF Found, Counted, NewEntry
  <2> QED
    BY <2>1, <2>2
<1>12. DOMAIN map' = DOMAIN map \cup {a} /\ map'[a].counter = Found(a)[a].counter + 1
  BY <1>1 DEF Found, NewEntry, TypeOK, Entry
<1>13. \A i \in DOMAIN map \ {a} : map'[i] = map[i]
  BY <1>1 DEF Found
<1>14. Counted'
  <2>1. IsFiniteSet(Tickets(a)') /\ Cardinality(Tickets(a)') = Cardinality(Tickets(a)) + 1
    <3>1. /\ IsFiniteSet(Tickets(a) \cup {<<p, 0>>})
          /\ Cardinality(Tickets(a) \cup {<<p, 0>>}) = Cardinality(Tickets(a)) + 1
      BY <1>9, <1>10, FS_AddElement
    <3> QED
      BY <1>8, <3>1
  <2>2. \A i \in Index \ {a} :
          /\ IsFiniteSet(Tickets(i)')
          /\ i \in DOMAIN map' <=> Tickets(i)' # {}
          /\ i \in DOMAIN map' => map'[i].counter = Cardinality(Tickets(i)')
    BY <1>8, <1>10, <1>12, <1>13 DEF Counted
  <2> QED
    BY <1>8, <1>11, <1>12, <2>1, <2>2 DEF Counted
<1>15. Alone'
  <2> SUFFICES ASSUME NEW q \in Thread, pc'[q] = "first" PROVE Tickets(arg[q])' = {<<q, 0>>}
    BY DEF Alone
  <2>1. q = p
    BY <1>3, <1>4
  <2>2. Found(a)[a].counter = 0
    BY <1>1, <2>1 DEF TypeOK
  <2>3. Tickets(a) = {}
    BY <1>10, <1>11, <2>2, FS_EmptySet
  <2> QED
    BY <1>5, <1>8, <2>1, <2>3
<1>16. \A i \in DOMAIN map' : /\ i \in DOMAIN map => map'[i].owner = map[i].owner /\ map'[i].depth = map[i].depth
                              /\ i \notin DOMAIN map => i = a /\ map'[i].owner = NoThread /\ map'[i].depth = 0
  BY <1>1, <1>12, <1>13 DEF Found, NewEntry, TypeOK, Entry
<1>17. \A q \in Thread : \A i : Depth(q, i)' = Depth(q, i)
  BY <1>1 DEF Depth
<1>18. a \notin DOMAIN map => \A q \in Thread : Depth(q, a) = 0
  <2> SUFFICES ASSUME a \notin DOMAIN map, NEW q \in Thread PROVE Depth(q, a) = 0
    OBVIOUS
  <2>1. Tickets(a) = {}
    BY <1>10 DEF Counted
  <2>2. Places(held[q], a) = {} /\ held[q] \in Seq(Index)
    BY <1>1, <2>1, OwnNat
  <2> QED
    BY <2>2, DepthPlaces
<1>19. MutexHeld' /\ Unowned'
  BY <1>16, <1>17, <1>18, ThreadAssumption DEF Inv, MutexHeld, Unowned
<1> QED
  BY <1>2, <1>6, <1>14, <1>15, <1>19 DEF Inv

\* A thread that waits for the mutex of an entry gets it: its call becomes a scope.
LEMMA EnterKeepsInv ==
  ASSUME Inv, NEW p \in Thread, LockFirst(p) \/ LockWait(p)
  PROVE  Inv'
<1>0. PICK a, n : a = arg[p] /\ n = Len(held[p]) + 1
  OBVIOUS
<1>1. /\ TypeOK /\ a \in Index /\ pc[p] \in {"first", "wait"} /\ Free(a, p)
      /\ map' = [map EXCEPT ![a].owner = p, ![a].depth = @ + 1]
      /\ held' = [held EXCEPT ![p] = Append(@, a)] /\ pc' = [pc EXCEPT ![p] = "run"]
      /\ arg' = arg /\ left' = left
      /\ pc[p] = "first" => global' = NoThread
      /\ pc[p] = "wait" => global' = global
  BY <1>0 DEF Inv, LockFirst, LockWait, Locked, TypeOK
<1>2. held[p] \in Seq(Index) /\ held'[p] = Append(held[p], a) /\ held'[p] \in Seq(Index)
  BY <1>1, AppendPlaces DEF TypeOK
<1>3. InCall(p, a) /\ (\A i \in Index \ {a} : ~ InCall(p, i)) /\ (\A i : ~ InCall(p, i)')
  BY <1>0, <1>1 DEF InCall, TypeOK
<1>4. <<p, 0>> \in Tickets(a)
  BY <1>1, <1>3, OwnNat
<1>5. Counted /\ a \in DOMAIN map
  BY <1>1, <1>4 DEF Inv, Counted
<1>6. \A q \in Thread \ {p} : held'[q] = held[q] /\ pc'[q] = pc[q] /\ arg'[q] = arg[q]
  BY <1>1 DEF TypeOK
<1>7. n \in Nat \ {0} /\ n \notin Own(p, a)
  <2>1. n \in Nat \ {0} /\ n \notin Places(held[p], a)
    BY <1>0, <1>1, <1>2, AppendPlaces
  <2> QED
    BY <2>1 DEF Own
<1>8. /\ Own(p, a)' = (Own(p, a) \ {0}) \cup {n}
      /\ \A i \in Index \ {a} : Own(p, i)' = Own(p, i)
  <2>1. Places(held'[p], a) = Places(held[p], a) \cup {n}
    BY <1>0, <1>1, <1>2, AppendPlaces
  <2>2. \A i \in Index \ {a} : Places(held'[p], i) = Places(held[p], i)
    BY <1>0, <1>1, <1>2, AppendPlaces
  <2>3. Places(held[p], a) = Own(p, a) \ {0}
    BY <1>1, OwnNat
  <2> QED
    BY <1>3, <2>1, <2>2, <2>3 DEF Own
<1>9. /\ Tickets(a)' = (Tickets(a) \ {<<p, 0>>}) \cup {<<p, n>>}
      /\ \A i \in Index \ {a} : Tickets(i)' = Tickets(i)
  <2>1. Tickets(a)' = (Tickets(a) \ {<<p, 0>>}) \cup {<<p, n>>}
    BY <1>6, <1>7, <1>8, MovedTicket
  <2>2. \A i \in Index \ {a} : Tickets(i)' = Tickets(i)
    BY <1>6, <1>8, SameTickets
  <2> QED
    BY <2>1, <2>2
<1>10. <<p, n>> \notin Tickets(a)
  BY <1>1, <1>7, OwnNat
<1>11. /\ DOMAIN map' = DOMAIN map
       /\ map'[a] = [map[a] EXCEPT !.owner = p, !.depth = @ + 1]
       /\ \A i \in DOMAIN map \ {a} : map'[i] = map[i]
  BY <1>1, <1>5 DEF TypeOK, Entry
<1>12. map[a] \in Entry /\ map'[a] \in Entry /\ map'[a].counter = map[a].counter
  <2>1. map[a] \in Entry
    BY <1>1, <1>5 DEF TypeOK
  <2>2. map'[a].counter = map[a].counter /\ map'[a].owner = p /\ map'[a].depth = map[a].depth + 1
    BY <1>11, <2>1 DEF Entry
  <2>3. map'[a] = [counter |-> map'[a].counter, owner |-> map'[a].owner, depth |-> map'[a].depth]
    BY <1>11, <2>1 DEF Entry
  <2>4. map[a].counter \in Nat /\ map[a].depth + 1 \in Nat
    BY <2>1 DEF Entry
  <2>5. map'[a] \in Entry
    BY <2>2, <2>3, <2>4 DEF Entry
  <2> QED
    BY <2>1, <2>2, <2>5
<1>13. TypeOK'
  <2>1. map' \in [DOMAIN map' -> Entry] /\ DOMAIN map' \subseteq Index
    BY <1>1, <1>11, <1>12 DEF TypeOK
  <2>2. held' \in [Thread -> Seq(Index)]
    BY <1>1, <1>2 DEF TypeOK
  <2>3. global' \in Thread \cup {NoThread} /\ pc' \in [Thread -> PC]
    BY <1>1 DEF TypeOK, PC
  <2> QED
    BY <1>1, <2>1, <2>2, <2>3 DEF TypeOK
<1>14. GlobalHeld'
  BY <1>1, <1>6, ThreadAssumption DEF Inv, GlobalHeld, TypeOK
<1>15. Counted'
  <2>1. IsFiniteSet(Tickets(a))
    BY <1>1, <1>5 DEF Counted
  <2>2. /\ IsFiniteSet((Tickets(a) \ {<<p, 0>>}) \cup {<<p, n>>})
        /\ Cardinality((Tickets(a) \ {<<p, 0>>}) \cup {<<p, n>>}) = Cardinality(Tickets(a))
    BY <1>4, <1>10, <2>1, Exchange
  <2>3. IsFiniteSet(Tickets(a)') /\ Cardinality(Tickets(a)') = map'[a].counter /\ Tickets(a)' # {}
    BY <1>1, <1>5, <1>9, <1>12, <2>2 DEF Counted
  <2>4. \A i \in Index \ {a} :
          /\ IsFiniteSet(Tickets(i)')
          /\ i \in DOMAIN map' <=> Tickets(i)' # {}
          /\ i \in DOMAIN map' => map'[i].counter = Cardinality(Tickets(i)')
    BY <1>5, <1>9, <1>11 DEF Counted
  <2> QED
    BY <1>5, <1>11, <2>3, <2>4 DEF Counted
<1>16. Alone'
  <2> SUFFICES ASSUME NEW q \in Thread, pc'[q] = "first" PROVE Tickets(arg[q])' = {<<q, 0>>}
    BY DEF Alone
  <2>1. q # p /\ pc[q] = "first" /\ arg'[q] = arg[q] /\ arg[q] \in Index
    BY <1>1, <1>6 DEF TypeOK
  <2>2. Tickets(arg[q]) = {<<q, 0>>}
    BY <2>1 DEF Inv, Alone
  <2>3. arg[q] # a
    BY <1>4, <2>1, <2>2
  <2> QED
    BY <1>9, <2>1, <2>2, <2>3
<1>17. \A q \in Thread \ {p} : \A i : Depth(q, i)' = Depth(q, i)
  BY <1>6 DEF Depth
<1>18. \A i \in Index \ {a} : Depth(p, i)' = Depth(p, i)
  <2>1. \A i \in Index \ {a} : Places(held'[p], i) = Places(held[p], i)
    BY <1>0, <1>1, <1>2, AppendPlaces
  <2> QED
    BY <2>1 DEF Depth, Places
<1>19. Depth(p, a)' = Depth(p, a) + 1 /\ Depth(p, a) \in Nat
  <2>1. Places(held'[p], a) = Places(held[p], a) \cup {n} /\ n \notin Places(held[p], a)
    BY <1>0, <1>1, <1>2, AppendPlaces
  <2>2. IsFiniteSet(Places(held[p], a))
    BY <1>2, PlacesFinite
  <2>3. Cardinality(Places(held[p], a) \cup {n}) = Cardinality(Places(held[p], a)) + 1
    BY <2>1, <2>2, FS_AddElement
  <2>4. Depth(p, a)' = Cardinality(Places(held'[p], a))
    BY DEF Depth, Places
  <2> QED
    BY <1>2, <2>1, <2>3, <2>4, DepthPlaces
<1>20. /\ map[a].owner \in {NoThread, p}
       /\ map[a].depth = Depth(p, a)
       /\ \A q \in Thread \ {p} : Depth(q, a) = 0
  BY <1>1, <1>5, ThreadAssumption DEF Inv, MutexHeld, Unowned, Free
<1>21. MutexHeld' /\ Unowned'
  <2>1. \A q \in Thread : /\ map'[a].owner = q => Depth(q, a)' = map'[a].depth /\ Depth(q, a)' > 0
                          /\ map'[a].owner # q => Depth(q, a)' = 0
    BY <1>11, <1>12, <1>17, <1>19, <1>20 DEF Entry
  <2>2. \A i \in DOMAIN map' \ {a}, q \in Thread :
          /\ map'[i].owner = q => Depth(q, i)' = map'[i].depth /\ Depth(q, i)' > 0
          /\ map'[i].owner # q => Depth(q, i)' = 0
    <3> SUFFICES ASSUME NEW i \in DOMAIN map' \ {a}, NEW q \in Thread
                 PROVE  /\ map'[i].owner = q => Depth(q, i)' = map'[i].depth /\ Depth(q, i)' > 0
                        /\ map'[i].owner # q => Depth(q, i)' = 0
      OBVIOUS
    <3>1. i \in DOMAIN map \ {a} /\ i \in Index /\ map'[i] = map[i]
      BY <1>1, <1>11 DEF TypeOK
    <3>2. Depth(q, i)' = Depth(q, i)
      BY <1>17, <1>18, <3>1
    <3> QED
      BY <3>1, <3>2 DEF Inv, MutexHeld
  <2>3. MutexHeld'
    BY <2>1, <2>2 DEF MutexHeld
  <2>4. Unowned'
    BY <1>11, <1>12, ThreadAssumption DEF Inv, Unowned, Entry
  <2> QED
    BY <2>3, <2>4
<1> QED
  BY <1>13, <1>14, <1>15, <1>16, <1>21 DEF Inv

\* The second look finds the entry that was counted.
LEMMA LookUpKeepsInv ==
  ASSUME Inv, NEW p \in Thread, LookUp(p)
  PROVE  Inv' /\ held' = held
<1>1. /\ TypeOK /\ arg[p] \in Index /\ pc[p] = "lookup" /\ map' = Found(arg[p])
      /\ pc' = [pc EXCEPT ![p] = "wait"]
      /\ global' = global /\ held' = held /\ arg' = arg /\ left' = left
  BY DEF Inv, LookUp, TypeOK
<1>2. <<p, 0>> \in Tickets(arg[p])
  BY <1>1, OwnNat DEF InCall
<1>3. arg[p] \in DOMAIN map
  BY <1>1, <1>2 DEF Inv, Counted
<1>4. map' = map
  BY <1>1, <1>3 DEF Found, TypeOK
<1>5. \A q \in Thread : \A i : InCall(q, i)' = InCall(q, i)
  BY <1>1 DEF InCall, TypeOK
<1>6. \A i : Tickets(i)' = Tickets(i)
  BY <1>1, <1>5 DEF Tickets, Own
<1>7. \A q \in Thread : \A i : Depth(q, i)' = Depth(q, i)
  BY <1>1 DEF Depth
<1>8. TypeOK'
  BY <1>1, <1>4 DEF TypeOK, PC
<1>9. GlobalHeld' /\ Counted'
  BY <1>1, <1>4, <1>6 DEF Inv, GlobalHeld, Counted, TypeOK
<1>10. Alone'
  BY <1>1, <1>6 DEF Inv, Alone, TypeOK
<1>11. MutexHeld' /\ Unowned'
  BY <1>4, <1>7 DEF Inv, MutexHeld, Unowned
<1> QED
  BY <1>1, <1>8, <1>9, <1>10, <1>11 DEF Inv

\* The newest scope becomes the call of unlock, which has the global mutex; the
\* mutex of the entry is one level freer.
LEMMA UnlockKeepsInv ==
  ASSUME Inv, NEW p \in Thread, Unlock(p)
  PROVE  Inv'
<1>0. PICK a, n : n = Len(held[p]) /\ a = held[p][n]
  OBVIOUS
<1>1. /\ TypeOK /\ pc[p] = "run" /\ held[p] # <<>> /\ global = NoThread
      /\ map' = [map EXCEPT ![a].depth = @ - 1,
                            ![a].owner = IF map[a].depth = 1 THEN NoThread ELSE @]
      /\ arg' = [arg EXCEPT ![p] = a] /\ pc' = [pc EXCEPT ![p] = "drop"]
      /\ held' = [held EXCEPT ![p] = SubSeq(@, 1, Len(@) - 1)]
      /\ global' = p /\ left' = left
  BY <1>0 DEF Inv, Unlock
<1>2. held[p] \in Seq(Index) /\ held'[p] = SubSeq(held[p], 1, Len(held[p]) - 1)
  BY <1>1 DEF TypeOK
<1>3. /\ held'[p] \in Seq(Index) /\ a \in Index /\ n \in Places(held[p], a)
      /\ \A i : Places(held'[p], i) = Places(held[p], i) \ {n}
  BY <1>0, <1>1, <1>2, FrontPlaces
<1>4. \A q \in Thread \ {p} : held'[q] = held[q] /\ pc'[q] = pc[q] /\ arg'[q] = arg[q]
  BY <1>1 DEF TypeOK
<1>5. (\A i : ~ InCall(p, i)) /\ InCall(p, a)' /\ (\A i \in Index \ {a} : ~ InCall(p, i)')
  BY <1>1 DEF InCall, TypeOK
<1>6. n \in Nat /\ n # 0
  BY <1>2, <1>3, PlacesFinite
<1>7. /\ Own(p, a)' = (Own(p, a) \ {n}) \cup {0}
      /\ \A i \in Index \ {a} : Own(p, i)' = Own(p, i)
  <2>1. \A i \in Index \ {a} : n \notin Places(held[p], i)
    BY <1>3 DEF Places
  <2> QED
    BY <1>3, <1>5, <2>1 DEF Own
<1>8. /\ Tickets(a)' = (Tickets(a) \ {<<p, n>>}) \cup {<<p, 0>>}
      /\ \A i \in Index \ {a} : Tickets(i)' = Tickets(i)
  <2>1. Tickets(a)' = (Tickets(a) \ {<<p, n>>}) \cup {<<p, 0>>}
    BY <1>4, <1>6, <1>7, MovedTicket
  <2>2. \A i \in Index \ {a} : Tickets(i)' = Tickets(i)
    BY <1>4, <1>7, SameTickets
  <2> QED
    BY <2>1, <2>2
<1>9. <<p, n>> \in Tickets(a) /\ <<p, 0>> \notin Tickets(a)
  <2>1. n \in Own(p, a) /\ 0 \notin Own(p, a)
    BY <1>1, <1>3, <1>5, OwnNat DEF Own
  <2> QED
    BY <1>1, <2>1, OwnNat
<1>10. Counted /\ a \in DOMAIN map
  BY <1>3, <1>9 DEF Inv, Counted
<1>11. Depth(p, a) > 0 /\ Depth(p, a) \in Nat /\ map[a].owner = p /\ map[a].depth = Depth(p, a)
  <2>1. Places(held[p], a) # {}
    BY <1>3
  <2>2. Depth(p, a) \in Nat /\ Depth(p, a) # 0
    BY <1>2, <2>1, DepthPlaces
  <2>3. Depth(p, a) > 0
    BY <2>2
  <2> QED
    BY <1>10, <2>2, <2>3 DEF Inv, MutexHeld
<1>12. /\ DOMAIN map' = DOMAIN map
       /\ \A i \in DOMAIN map \ {a} : map'[i] = map[i]
       /\ map'[a] = [counter |-> map[a].counter, depth |-> map[a].depth - 1,
                     owner |-> IF map[a].depth = 1 THEN NoThread ELSE p]
       /\ map[a].counter \in Nat
  <2>1. map[a] \in Entry
    BY <1>1, <1>10 DEF TypeOK
  <2>2. /\ DOMAIN map' = DOMAIN map
        /\ \A i \in DOMAIN map \ {a} : map'[i] = map[i]
        /\ map'[a] = [map[a] EXCEPT !.depth = @ - 1, !.owner = IF map[a].depth = 1 THEN NoThread ELSE @]
    BY <1>1, <1>10 DEF TypeOK
  <2> QED
    BY <1>11, <2>1, <2>2 DEF Entry
<1>13. TypeOK'
  <2>1. map[a].depth - 1 \in Nat
    BY <1>11
  <2>2. map'[a] \in Entry
    BY <1>12, <2>1 DEF Entry
  <2>3. map' \in [DOMAIN map' -> Entry] /\ DOMAIN map' \subseteq Index
    BY <1>1, <1>12, <2>2 DEF TypeOK
  <2>4. held' \in [Thread -> Seq(Index)]
    BY <1>1, <1>2, <1>3 DEF TypeOK
  <2> QED
    BY <1>1, <1>3, <2>3, <2>4 DEF TypeOK, PC
<1>14. \A q \in Thread : pc[q] \notin {"first", "drop"}
  BY <1>1, ThreadAssumption DEF Inv, GlobalHeld
<1>15. GlobalHeld' /\ Alone'
  BY <1>1, <1>4, <1>14 DEF GlobalHeld, Alone, TypeOK
<1>16. Counted'
  <2>1. IsFiniteSet(Tickets(a))
    BY <1>3, <1>10 DEF Counted
  <2>2. /\ IsFiniteSet((Tickets(a) \ {<<p, n>>}) \cup {<<p, 0>>})
        /\ Cardinality((Tickets(a) \ {<<p, n>>}) \cup {<<p, 0>>}) = Cardinality(Tickets(a))
    BY <1>9, <2>1, Exchange
  <2>3. map'[a].counter = Cardinality(Tickets(a))
    BY <1>3, <1>10, <1>12 DEF Counted
  <2>4. IsFiniteSet(Tickets(a)') /\ Cardinality(Tickets(a)') = map'[a].counter /\ Tickets(a)' # {}
    BY <1>8, <2>2, <2>3
  <2>5. \A i \in Index \ {a} :
          /\ IsFiniteSet(Tickets(i)')
          /\ i \in DOMAIN map' <=> Tickets(i)' # {}
          /\ i \in DOMAIN map' => map'[i].counter = Cardinality(Tickets(i)')
    BY <1>8, <1>10, <1>12 DEF Counted
  <2> QED
    BY <1>10, <1>12, <2>4, <2>5 DEF Counted
<1>17. \A q \in Thread \ {p} : \A i : Depth(q, i)' = Depth(q, i)
  BY <1>4 DEF Depth
<1>18. \A i \in Index \ {a} : Depth(p, i)' = Depth(p, i)
  <2>1. \A i \in Index \ {a} : Places(held'[p], i) = Places(held[p], i)
    BY <1>3 DEF Places
  <2> QED
    BY <2>1 DEF Depth, Places
<1>19. Depth(p, a)' = Depth(p, a) - 1
  <2>1. IsFiniteSet(Places(held[p], a))
    BY <1>2, PlacesFinite
  <2>2. Cardinality(Places(held[p], a) \ {n}) = Cardinality(Places(held[p], a)) - 1
    BY <1>3, <2>1, FS_RemoveElement
  <2>3. Depth(p, a)' = Cardinality(Places(held'[p], a))
    BY DEF Depth, Places
  <2> QED
    BY <1>2, <1>3, <2>2, <2>3, DepthPlaces
<1>20. \A q \in Thread \ {p} : Depth(q, a)' = 0
  BY <1>10, <1>11, <1>17 DEF Inv, MutexHeld
<1>21. MutexHeld'
  <2>1. \A q \in Thread : /\ map'[a].owner = q => Depth(q, a)' = map'[a].depth /\ Depth(q, a)' > 0
                          /\ map'[a].owner # q => Depth(q, a)' = 0
    BY <1>11, <1>12, <1>19, <1>20, ThreadAssumption
  <2>2. \A i \in DOMAIN map' \ {a}, q \in Thread :
          /\ map'[i].owner = q => Depth(q, i)' = map'[i].depth /\ Depth(q, i)' > 0
          /\ map'[i].owner # q => Depth(q, i)' = 0
    <3> SUFFICES ASSUME NEW i \in DOMAIN map' \ {a}, NEW q \in Thread
                 PROVE  /\ map'[i].owner = q => Depth(q, i)' = map'[i].depth /\ Depth(q, i)' > 0
                        /\ map'[i].owner # q => Depth(q, i)' = 0
      OBVIOUS
    <3>1. i \in DOMAIN map \ {a} /\ i \in Index /\ map'[i] = map[i]
      BY <1>1, <1>12 DEF TypeOK
    <3>2. Depth(q, i)' = Depth(q, i)
      BY <1>17, <1>18, <3>1
    <3> QED
      BY <3>1, <3>2 DEF Inv, MutexHeld
  <2> QED
    BY <2>1, <2>2 DEF MutexHeld
<1>22. Unowned'
  BY <1>11, <1>12, ThreadAssumption DEF Inv, Unowned
<1> QED
  BY <1>13, <1>15, <1>16, <1>21, <1>22 DEF Inv

\* The call gives back its ticket, and the entry goes with the last.
LEMMA DropKeepsInv ==
  ASSUME Inv, NEW p \in Thread, Drop(p)
  PROVE  Inv' /\ held' = held
<1>0. PICK a : a = arg[p]
  OBVIOUS
<1>1. /\ TypeOK /\ a \in Index /\ pc[p] = "drop"
      /\ map' = IF map[a].counter = 1 THEN [j \in DOMAIN map \ {a} |-> map[j]]
                ELSE [map EXCEPT ![a].counter = @ - 1]
      /\ global' = NoThread /\ pc' = [pc EXCEPT ![p] = "run"]
      /\ held' = held /\ arg' = arg /\ left' = left
  BY <1>0 DEF Inv, Drop, TypeOK
<1>2. \A q \in Thread \ {p} : held'[q] = held[q] /\ pc'[q] = pc[q] /\ arg'[q] = arg[q]
  BY <1>1 DEF TypeOK
<1>3. InCall(p, a) /\ (\A i \in Index \ {a} : ~ InCall(p, i)) /\ (\A i : ~ InCall(p, i)')
  BY <1>0, <1>1 DEF InCall, TypeOK
<1>4. <<p, 0>> \in Tickets(a)
  BY <1>1, <1>3, OwnNat
<1>5. Counted /\ a \in DOMAIN map /\ map[a] \in Entry
  BY <1>1, <1>4 DEF Inv, Counted, TypeOK
<1>6. /\ Own(p, a)' = Own(p, a) \ {0}
      /\ \A i \in Index \ {a} : Own(p, i)' = Own(p, i)
  <2>1. Places(held[p], a) = Own(p, a) \ {0}
    BY <1>1, OwnNat
  <2> QED
    BY <1>1, <1>3, <2>1 DEF Own
<1>7. /\ Tickets(a)' = Tickets(a) \ {<<p, 0>>}
      /\ \A i \in Index \ {a} : Tickets(i)' = Tickets(i)
  <2>1. Tickets(a)' = Tickets(a) \ {<<p, 0>>}
    BY <1>2, <1>6, LessTickets
  <2>2. \A i \in Index \ {a} : Tickets(i)' = Tickets(i)
    BY <1>2, <1>6, SameTickets
  <2> QED
    BY <2>1, <2>2
<1>8. /\ IsFiniteSet(Tickets(a) \ {<<p, 0>>})
      /\ Cardinality(Tickets(a) \ {<<p, 0>>}) = map[a].counter - 1
      /\ map[a].counter \in Nat
  <2>1. IsFiniteSet(Tickets(a)) /\ map[a].counter = Cardinality(Tickets(a))
    BY <1>1, <1>5 DEF Counted
  <2> QED
    BY <1>4, <1>5, <2>1, FS_RemoveElement DEF Entry
<1>9. map[a].counter = 1 <=> Tickets(a)' = {}
  <2>1. Cardinality(Tickets(a) \ {<<p, 0>>}) = 0 <=> Tickets(a) \ {<<p, 0>>} = {}
    BY <1>8, FS_EmptySet
  <2> QED
    BY <1>7, <1>8, <2>1
<1>10. /\ DOMAIN map' = IF map[a].counter = 1 THEN DOMAIN map \ {a} ELSE DOMAIN map
       /\ \A i \in DOMAIN map \ {a} : map'[i] = map[i]
       /\ map[a].counter # 1 => map'[a] = [map[a] EXCEPT !.counter = @ - 1]
  BY <1>1, <1>5 DEF TypeOK
<1>11. map[a].counter # 1 => /\ map'[a] \in Entry /\ map'[a].counter = map[a].counter - 1
                             /\ map'[a].owner = map[a].owner /\ map'[a].depth = map[a].depth
  <2> SUFFICES ASSUME map[a].counter # 1
               PROVE  /\ map'[a] \in Entry /\ map'[a].counter = map[a].counter - 1
                      /\ map'[a].owner = map[a].owner /\ map'[a].depth = map[a].depth
    OBVIOUS
  <2>1. Cardinality(Tickets(a) \ {<<p, 0>>}) \in Nat
    BY <1>8, FS_CardinalityType
  <2>2. map[a].counter - 1 \in Nat
    BY <1>8, <2>1
  <2> QED
    BY <1>5, <1>10, <2>2 DEF Entry
<1>12. TypeOK'
  <2>1. map' = [i \in DOMAIN map' |-> map'[i]]
    BY <1>1 DEF TypeOK
  <2>2. \A i \in DOMAIN map' : map'[i] \in Entry /\ i \in Index
    BY <1>1, <1>10, <1>11 DEF TypeOK
  <2> QED
    BY <1>1, <2>1, <2>2 DEF TypeOK, PC
<1>13. \A q \in Thread \ {p} : pc[q] \notin {"first", "drop"}
  BY <1>1 DEF Inv, GlobalHeld
<1>14. GlobalHeld' /\ Alone'
  BY <1>1, <1>2, <1>13, ThreadAssumption DEF GlobalHeld, Alone, TypeOK
<1>15. Counted'
  <2>1. /\ IsFiniteSet(Tickets(a)')
        /\ a \in DOMAIN map' <=> Tickets(a)' # {}
        /\ a \in DOMAIN map' => map'[a].counter = Cardinality(Tickets(a)')
    BY <1>5, <1>7, <1>8, <1>9, <1>10, <1>11
  <2>2. \A i \in Index \ {a} :
          /\ IsFiniteSet(Tickets(i)')
          /\ i \in DOMAIN map' <=> Tickets(i)' # {}
          /\ i \in DOMAIN map' => map'[i].counter = Cardinality(Tickets(i)')
    BY <1>5, <1>7, <1>10 DEF Counted
  <2> QED
    BY <2>1, <2>2 DEF Counted
<1>16. \A q \in Thread : \A i : Depth(q, i)' = Depth(q, i)
  BY <1>1 DEF Depth
<1>17. \A i \in DOMAIN map' : i \in DOMAIN map /\ map'[i].owner = map[i].owner /\ map'[i].depth = map[i].depth
  BY <1>5, <1>10, <1>11
<1>18. MutexHeld' /\ Unowned'
  BY <1>16, <1>17 DEF Inv, MutexHeld, Unowned
<1> QED
  BY <1>1, <1>12, <1>14, <1>15, <1>18 DEF Inv

\* A step that changes nothing.
LEMMA StutterKeepsInv ==
  ASSUME Inv, UNCHANGED vars
  PROVE  Inv' /\ held' = held
<1>1. /\ map' = map /\ global' = global /\ held' = held
      /\ pc' = pc /\ arg' = arg /\ left' = left
  BY DEF vars
<1>2. TypeOK' /\ GlobalHeld' /\ Unowned'
  BY <1>1 DEF Inv, TypeOK, GlobalHeld, Unowned
<1>3. \A i : Tickets(i)' = Tickets(i)
  BY <1>1 DEF Tickets, Own, InCall
<1>4. Counted' /\ Alone'
  BY <1>1, <1>3 DEF Inv, Counted, Alone
<1>5. MutexHeld'
  BY <1>1 DEF Inv, MutexHeld, Depth
<1> QED
  BY <1>1, <1>2, <1>4, <1>5 DEF Inv

-----------------------------------------------------------------------------
(* What follows from the invariant. *)

\* The users of an index are those who have tickets for it.
LEMMA UsersTickets ==
  ASSUME TypeOK, NEW i
  PROVE  Users(i) # {} <=> Tickets(i) # {}
<1>1. \A p \in Thread : p \in Users(i) <=> Own(p, i) # {}
  <2> SUFFICES ASSUME NEW p \in Thread PROVE p \in Users(i) <=> Own(p, i) # {}
    OBVIOUS
  <2>1. held[p] \in Seq(Index) /\ Depth(p, i) \in Nat
    BY DepthPlaces DEF TypeOK
  <2>2. Depth(p, i) = 0 <=> Places(held[p], i) = {}
    BY <2>1, DepthPlaces
  <2>3. Depth(p, i) > 0 <=> Places(held[p], i) # {}
    BY <2>1, <2>2
  <2> QED
    BY <2>3 DEF Users, Own
<1>2. \A p \in Thread : Own(p, i) # {} <=> \E n : <<p, n>> \in Tickets(i)
  BY OwnNat
<1>3. \A t \in Tickets(i) : t = <<t[1], t[2]>> /\ t[1] \in Thread
  BY DEF Tickets
<1>4. Users(i) \subseteq Thread
  BY DEF Users
<1> QED
  BY <1>1, <1>2, <1>3, <1>4

\* Entries are those with tickets.
LEMMA InvEntryKept == Inv => EntryKept
<1> SUFFICES ASSUME Inv PROVE EntryKept
  OBVIOUS
<1>1. \A i \in Index : i \in DOMAIN map <=> Users(i) # {}
  BY UsersTickets DEF Inv, Counted
<1> QED
  BY <1>1 DEF Inv, TypeOK, EntryKept

\* Whoever waits with the global mutex is the only one counted, so that nobody
\* has the mutex it waits for.
LEMMA InvGlobalBrief == Inv => GlobalBrief
<1> SUFFICES ASSUME Inv, NEW p \in Thread, pc[p] = "first" PROVE Free(arg[p], p)
  BY DEF GlobalBrief
<1>0. PICK a : a = arg[p]
  OBVIOUS
<1>1. TypeOK /\ a \in Index /\ Tickets(a) = {<<p, 0>>}
  BY <1>0 DEF Inv, TypeOK, Alone
<1>2. a \in DOMAIN map
  BY <1>1 DEF Inv, Counted
<1>3. map[a].owner \in Thread \cup {NoThread}
  BY <1>1, <1>2 DEF TypeOK, Entry
<1>4. \A q \in Thread : map[a].owner # q
  <2> SUFFICES ASSUME NEW q \in Thread, map[a].owner = q PROVE FALSE
    OBVIOUS
  <2>1. held[q] \in Seq(Index) /\ Places(held[q], a) = {}
    <3>1. \A n : n \in Own(q, a) => n = 0
      BY <1>1, OwnNat
    <3> QED
      BY <1>1, <3>1, OwnNat
  <2>2. Depth(q, a) = 0
    BY <2>1, DepthPlaces
  <2> QED
    BY <1>2, <2>2 DEF Inv, MutexHeld
<1> QED
  BY <1>0, <1>3, <1>4 DEF Free

\* Whoever gets an index is the only one to hold it.
LEMMA EnterAcquires ==
  ASSUME Inv, NEW p \in Thread, LockFirst(p) \/ LockWait(p)
  PROVE  Locks!Acquire(p, arg[p])
<1>0. PICK a : a = arg[p]
  OBVIOUS
<1>1. /\ TypeOK /\ a \in Index /\ InCall(p, a) /\ Free(a, p)
      /\ held' = [held EXCEPT ![p] = Append(@, a)]
  BY <1>0 DEF Inv, TypeOK, LockFirst, LockWait, InCall
<1>2. a \in DOMAIN map
  <2>1. <<p, 0>> \in Tickets(a)
    BY <1>1, OwnNat
  <2> QED
    BY <1>1, <2>1 DEF Inv, Counted
<1>3. \A q \in Thread \ {p} : Depth(q, a) = 0
  BY <1>1, <1>2, ThreadAssumption DEF Inv, MutexHeld, Free
<1>4. \A q \in Thread \ {p} : ~ Locks!Holds(q, a)
  <2> SUFFICES ASSUME NEW q \in Thread \ {p} PROVE ~ Locks!Holds(q, a)
    OBVIOUS
  <2>1. Places(held[q], a) = {}
    BY <1>1, <1>3, DepthPlaces DEF TypeOK
  <2> QED
    BY <2>1 DEF Places, Locks!Holds
<1> QED
  BY <1>0, <1>1, <1>4 DEF Locks!Acquire

\* Every step keeps the invariant, and is a step of IndexLocks or none of its steps.
LEMMA NextInv == Inv /\ [Next]_vars => Inv' /\ [Locks!Next]_held
<1> SUFFICES ASSUME Inv, [Next]_vars PROVE Inv' /\ [Locks!Next]_held
  OBVIOUS
<1>1. CASE UNCHANGED vars
  BY <1>1, StutterKeepsInv
<1>2. ASSUME NEW p \in Thread, NEW i \in Index, Lock(p, i)
      PROVE  Inv' /\ held' = held
  BY <1>2, LockKeepsInv DEF Lock
<1>3. ASSUME NEW p \in Thread, LockFirst(p) \/ LockWait(p)
      PROVE  Inv' /\ Locks!Next
  <2>1. arg[p] \in Index
    BY DEF Inv, TypeOK
  <2>2. Locks!Acquire(p, arg[p])
    BY <1>3, EnterAcquires
  <2> QED
    BY <1>3, <2>1, <2>2, EnterKeepsInv DEF Locks!Next
<1>4. ASSUME NEW p \in Thread, LookUp(p) \/ Drop(p)
      PROVE  Inv' /\ held' = held
  BY <1>4, LookUpKeepsInv, DropKeepsInv
<1>5. ASSUME NEW p \in Thread, Unlock(p)
      PROVE  Inv' /\ Locks!Next
  <2>1. Locks!Release(p)
    BY <1>5 DEF Unlock, Locks!Release
  <2> QED
    BY <1>5, <2>1, UnlockKeepsInv DEF Locks!Next
<1>6. CASE Finished
  BY <1>1, <1>6 DEF Finished
<1> QED
  BY <1>1, <1>2, <1>3, <1>4, <1>5, <1>6 DEF Next, Step

-----------------------------------------------------------------------------
(* Theorems.  Fairness is not needed for any of them. *)

\* The inductive invariant holds in every behaviour.
THEOREM InvCorrect == Spec => []Inv
<1>1. Inv /\ [Next]_vars => Inv'
  BY NextInv
<1> QED
  BY <1>1, InitInv, PTL DEF Spec

\* Every variable keeps its type.
THEOREM TypeCorrect == Spec => []TypeOK
<1>1. Inv => TypeOK
  BY DEF Inv
<1> QED
  BY <1>1, InvCorrect, PTL

\* However lock and unlock interleave, the map has an entry for the indices in
\* use and for no other.
THEOREM EntryCorrect == Spec => []EntryKept
  BY InvEntryKept, InvCorrect, PTL

\* An entry's mutex is held by the thread whose scopes lock the index, as often
\* as they do.
THEOREM MutexCorrect == Spec => []MutexHeld
<1>1. Inv => MutexHeld
  BY DEF Inv
<1> QED
  BY <1>1, InvCorrect, PTL

\* Nobody waits for the mutex of an entry with the global mutex.
THEOREM GlobalCorrect == Spec => []GlobalBrief
  BY InvGlobalBrief, InvCorrect, PTL

\* LockFile implements one recursive lock for each index.
THEOREM LocksCorrect == Spec => ImplementsLocks
<1>1. Init => Locks!Init
  BY DEF Init, Locks!Init
<1>2. Inv /\ [Next]_vars => [Locks!Next]_held
  BY NextInv
<1> QED
  BY <1>1, <1>2, InvCorrect, PTL DEF Spec, ImplementsLocks, Locks!Spec
=============================================================================
