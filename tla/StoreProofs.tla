----------------------------- MODULE StoreProofs -----------------------------
(***************************************************************************)
(* Database implements KeyValue, for any number of handles, any keys none  *)
(* of which extends another, any values, any bounds, as long as nothing is *)
(* deleted.  The argument: two walks from the root arrive at one branch    *)
(* only if they walk the same bits, so a handle still on its way never     *)
(* stands where another has arrived, a branch written back whole has the   *)
(* links it had, and every walk that arrives keeps arriving where it did.  *)
(*                                                                         *)
(* And one handle may delete too: clear(value) takes its key out of the    *)
(* tree, and no other.                                                     *)
(*                                                                         *)
(* NodeAt is a recursive function.  To the provers it is a CHOOSE, which   *)
(* WalkOn turns into one equation a bit; facts about all walks follow from *)
(* SeqInduct, whose set of sequences takes the place of the statement that *)
(* an induction theorem would have as an operator.                         *)
(***************************************************************************)
EXTENDS DatabaseProofs

Encoding == INSTANCE EncodingProofs

-----------------------------------------------------------------------------
(* Induction over numbers and over sequences of bits. *)

Bits == Seq({0, 1})

\* What a key is without its last bit.
LEMMA FrontBits ==
  ASSUME NEW k \in Bits, NEW n \in 0 .. Len(k) - 1
  PROVE  /\ SubSeq(k, 1, n) \in Bits /\ Len(SubSeq(k, 1, n)) = n
         /\ k[n + 1] \in {0, 1}
         /\ SubSeq(k, 1, n + 1) = Append(SubSeq(k, 1, n), k[n + 1])
         /\ SubSeq(k, 1, Len(k)) = k
<1>1. SubSeq(k, 1, n) \in Bits /\ Len(SubSeq(k, 1, n)) = n
  BY DEF Bits
<1>2. k[n + 1] \in {0, 1}
  BY DEF Bits
<1>3. SubSeq(k, 1, n + 1) = Append(SubSeq(k, 1, n), k[n + 1])
  BY <1>1 DEF Bits
<1>4. SubSeq(k, 1, Len(k)) = k
  BY DEF Bits
<1> QED
  BY <1>1, <1>2, <1>3, <1>4

\* Induction over sequences of bits, from their first bit on.
LEMMA SeqInduct ==
  ASSUME NEW T, <<>> \in T,
         \A k \in Bits, b \in {0, 1} : k \in T => Append(k, b) \in T
  PROVE  Bits \subseteq T
<1> DEFINE N == {n \in Nat : \A k \in Bits : Len(k) = n => k \in T}
<1>1. 0 \in N
  BY DEF Bits
<1>2. ASSUME NEW n \in Nat, n \in N PROVE n + 1 \in N
  <2> SUFFICES ASSUME NEW k \in Bits, Len(k) = n + 1 PROVE k \in T
    OBVIOUS
  <2>1. n \in 0 .. Len(k) - 1
    OBVIOUS
  <2>2. /\ SubSeq(k, 1, n) \in Bits /\ Len(SubSeq(k, 1, n)) = n /\ k[n + 1] \in {0, 1}
        /\ k = Append(SubSeq(k, 1, n), k[n + 1])
    BY <2>1, FrontBits
  <2>3. SubSeq(k, 1, n) \in T
    BY <1>2, <2>2
  <2> QED
    BY <2>2, <2>3
<1>3. Nat \subseteq N
  <2> HIDE DEF N
  <2> QED
    BY <1>1, <1>2, Encoding!NatInduct
<1>4. ASSUME NEW k \in Bits PROVE k \in T
  <2>1. Len(k) \in Nat
    BY DEF Bits
  <2> QED
    BY <1>3, <2>1
<1> QED
  BY <1>4

-----------------------------------------------------------------------------
(* Walks. *)

\* Where bit i leads from node m: 0 once a link is missing.
After(br, i, m, bit) ==
  IF m \notin DOMAIN br \/ (i > 1 /\ m = 0) THEN 0 ELSE Link(br[m], bit)

\* f is where a walk of the first n bits of k passes.
IsWalk(br, k, n, f) ==
  f = [i \in 0 .. n |-> IF i = 0 THEN 0 ELSE After(br, i, f[i - 1], k[i])]

\* NodeAt, of any file.
NodeIn(br, k) ==
  LET f[i \in 0 .. Len(k)] ==
        IF i = 0 THEN 0
        ELSE IF f[i-1] \notin DOMAIN br \/ (i > 1 /\ f[i-1] = 0) THEN 0
        ELSE Link(br[f[i-1]], k[i])
  IN f[Len(k)]

\* NodeAt, now and after a step.
LEMMA NodeAtIsNodeIn == \A k : NodeAt(k) = NodeIn(branch, k) /\ NodeAt(k)' = NodeIn(branch', k)
BY DEF NodeAt, NodeIn

\* A walk is determined by the bits it walks.
LEMMA WalkUnique ==
  ASSUME NEW br, NEW k, NEW n \in Nat, NEW f, NEW g, IsWalk(br, k, n, f), IsWalk(br, k, n, g)
  PROVE  \A i \in 0 .. n : f[i] = g[i]
<1> DEFINE T == {i \in Nat : i <= n => f[i] = g[i]}
<1>1. \A i \in 0 .. n : f[i] = IF i = 0 THEN 0 ELSE After(br, i, f[i - 1], k[i])
  BY Zenon DEF IsWalk
<1>2. \A i \in 0 .. n : g[i] = IF i = 0 THEN 0 ELSE After(br, i, g[i - 1], k[i])
  BY Zenon DEF IsWalk
<1>3. 0 \in T
  BY <1>1, <1>2
<1>4. ASSUME NEW i \in Nat, i \in T PROVE i + 1 \in T
  BY <1>1, <1>2, <1>4
<1>5. Nat \subseteq T
  <2> HIDE DEF T
  <2> QED
    BY <1>3, <1>4, Encoding!NatInduct
<1> QED
  BY <1>5

\* Any bits can be walked.
LEMMA WalkExists ==
  ASSUME NEW br, NEW k, NEW n \in Nat
  PROVE  \E f : IsWalk(br, k, n, f)
<1> DEFINE T == {m \in Nat : \E f : IsWalk(br, k, m, f)}
<1>1. 0 \in T
  <2>1. IsWalk(br, k, 0, [i \in 0 .. 0 |-> 0])
    BY DEF IsWalk
  <2> QED
    BY <2>1
<1>2. ASSUME NEW m \in Nat, m \in T PROVE m + 1 \in T
  <2>1. PICK f : IsWalk(br, k, m, f)
    BY <1>2
  <2> DEFINE g == [i \in 0 .. m + 1 |-> IF i <= m THEN f[i] ELSE After(br, m + 1, f[m], k[m + 1])]
  <2>2. \A i \in 0 .. m : f[i] = IF i = 0 THEN 0 ELSE After(br, i, f[i - 1], k[i])
    BY <2>1, Zenon DEF IsWalk
  <2>3. \A i \in 0 .. m + 1 : g[i] = IF i = 0 THEN 0 ELSE After(br, i, g[i - 1], k[i])
    <3> SUFFICES ASSUME NEW i \in 0 .. m + 1
                 PROVE  g[i] = IF i = 0 THEN 0 ELSE After(br, i, g[i - 1], k[i])
      OBVIOUS
    <3>1. CASE i = 0
      BY <2>2, <3>1
    <3>2. CASE i # 0 /\ i <= m
      BY <2>2, <3>2
    <3>3. CASE i = m + 1
      BY <3>3
    <3> QED
      BY <3>1, <3>2, <3>3
  <2>4. IsWalk(br, k, m + 1, g)
    <3> DEFINE G == [i \in 0 .. m + 1 |-> IF i = 0 THEN 0 ELSE After(br, i, g[i - 1], k[i])]
    <3>1. DOMAIN g = 0 .. m + 1 /\ g = [i \in DOMAIN g |-> g[i]]
      OBVIOUS
    <3>2. g = G
      BY <2>3
    <3> QED
      BY <3>2, Zenon DEF IsWalk
  <2> QED
    BY <2>4
<1>3. Nat \subseteq T
  <2> HIDE DEF T
  <2> QED
    BY <1>1, <1>2, Encoding!NatInduct
<1> QED
  BY <1>3

\* NodeIn is where the walk ends.
LEMMA NodeInIsWalk ==
  ASSUME NEW br, NEW k \in Bits, NEW f, IsWalk(br, k, Len(k), f)
  PROVE  NodeIn(br, k) = f[Len(k)]
<1> DEFINE g == CHOOSE g : g = [i \in 0 .. Len(k) |->
                  IF i = 0 THEN 0
                  ELSE IF g[i-1] \notin DOMAIN br \/ (i > 1 /\ g[i-1] = 0) THEN 0
                  ELSE Link(br[g[i-1]], k[i])]
<1>1. f = [i \in 0 .. Len(k) |->
                  IF i = 0 THEN 0
                  ELSE IF f[i-1] \notin DOMAIN br \/ (i > 1 /\ f[i-1] = 0) THEN 0
                  ELSE Link(br[f[i-1]], k[i])]
  BY Zenon DEF IsWalk, After
<1>2. g = [i \in 0 .. Len(k) |->
                  IF i = 0 THEN 0
                  ELSE IF g[i-1] \notin DOMAIN br \/ (i > 1 /\ g[i-1] = 0) THEN 0
                  ELSE Link(br[g[i-1]], k[i])]
  BY <1>1, Zenon
<1>3. NodeIn(br, k) = g[Len(k)]
  BY DEF NodeIn
<1> HIDE DEF g
<1>4. IsWalk(br, k, Len(k), g)
  BY <1>2, Zenon DEF IsWalk, After
<1>5. Len(k) \in Nat
  BY DEF Bits
<1>6. f[Len(k)] = g[Len(k)]
  BY <1>4, <1>5, WalkUnique
<1> QED
  BY <1>3, <1>6

\* The walk of no bits stays at the root, and that of one bit more goes one
\* link on.
LEMMA WalkOn ==
  ASSUME NEW br
  PROVE  /\ NodeIn(br, <<>>) = 0
         /\ \A k \in Bits, b \in {0, 1} :
              NodeIn(br, Append(k, b)) = After(br, Len(k) + 1, NodeIn(br, k), b)
<1>1. NodeIn(br, <<>>) = 0
  <2>1. PICK f : IsWalk(br, <<>>, 0, f)
    BY WalkExists
  <2>2. \A i \in 0 .. 0 : f[i] = IF i = 0 THEN 0 ELSE After(br, i, f[i - 1], <<>>[i])
    BY <2>1, Zenon DEF IsWalk
  <2>3. f[0] = 0
    BY <2>2
  <2>4. <<>> \in Bits /\ Len(<<>>) = 0
    BY DEF Bits
  <2> QED
    BY <2>1, <2>3, <2>4, NodeInIsWalk
<1>2. ASSUME NEW k \in Bits, NEW b \in {0, 1}
      PROVE  NodeIn(br, Append(k, b)) = After(br, Len(k) + 1, NodeIn(br, k), b)
  <2> DEFINE l == Append(k, b)
             n == Len(k)
  <2>1. n \in Nat /\ l \in Bits /\ Len(l) = n + 1 /\ l[n + 1] = b /\ \A i \in 1 .. n : l[i] = k[i]
    <3>1. k \in Seq({0, 1}) /\ b \in {0, 1}
      BY DEF Bits
    <3>2. l \in Seq({0, 1}) /\ Len(l) = n + 1 /\ n \in Nat
      BY <3>1
    <3>3. l[n + 1] = b /\ \A i \in 1 .. n : l[i] = k[i]
      BY <3>1
    <3> QED
      BY <3>2, <3>3 DEF Bits
  <2>2. PICK f : IsWalk(br, l, n + 1, f)
    <3>1. n + 1 \in Nat
      BY <2>1
    <3> QED
      BY <3>1, WalkExists, Zenon
  <2>3. \A i \in 0 .. n + 1 : f[i] = IF i = 0 THEN 0 ELSE After(br, i, f[i - 1], l[i])
    BY <2>2, Zenon DEF IsWalk
  <2>4. PICK g : IsWalk(br, k, n, g)
    BY <2>1, WalkExists
  <2>5. \A i \in 0 .. n : g[i] = IF i = 0 THEN 0 ELSE After(br, i, g[i - 1], k[i])
    BY <2>4, Zenon DEF IsWalk
  <2> DEFINE T == {i \in Nat : i <= n => f[i] = g[i]}
  <2>6. 0 \in T
    BY <2>1, <2>3, <2>5
  <2>7. ASSUME NEW i \in Nat, i \in T PROVE i + 1 \in T
    BY <2>1, <2>3, <2>5, <2>7
  <2>8. Nat \subseteq T
    <3> HIDE DEF T
    <3> QED
      BY <2>6, <2>7, Encoding!NatInduct
  <2>9. f[n] = g[n]
    BY <2>1, <2>8
  <2>10. NodeIn(br, k) = g[n] /\ NodeIn(br, l) = f[n + 1]
    BY <2>1, <2>2, <2>4, NodeInIsWalk
  <2> HIDE DEF l
  <2>11. f[n + 1] = After(br, n + 1, f[n], b)
    BY <2>1, <2>3
  <2> QED
    BY <2>9, <2>10, <2>11 DEF l
<1> QED
  BY <1>1, <1>2

\* A bit more is one link on, and a walk that arrives has passed no gap.
LEMMA WalkBit ==
  ASSUME NEW br, NEW k \in Bits, NEW b \in {0, 1}
  PROVE  NodeIn(br, Append(k, b)) =
           IF NodeIn(br, k) \in DOMAIN br /\ (k = <<>> \/ NodeIn(br, k) # 0)
           THEN Link(br[NodeIn(br, k)], b) ELSE 0
<1>1. Len(k) \in Nat /\ (Len(k) = 0 <=> k = <<>>)
  BY DEF Bits
<1>2. Len(k) + 1 > 1 <=> k # <<>>
  BY <1>1
<1>3. NodeIn(br, Append(k, b)) = After(br, Len(k) + 1, NodeIn(br, k), b)
  BY WalkOn
<1> QED
  BY <1>2, <1>3 DEF After

\* Every sequence of bits is empty or one bit more than another.
LEMMA LastBit ==
  ASSUME NEW k \in Bits, k # <<>>
  PROVE  \E l \in Bits, b \in {0, 1} : k = Append(l, b)
<1>1. Len(k) \in Nat /\ Len(k) # 0
  BY DEF Bits
<1>2. PICK n \in 0 .. Len(k) - 1 : n + 1 = Len(k)
  BY <1>1
<1>3. /\ SubSeq(k, 1, n) \in Bits /\ k[n + 1] \in {0, 1}
      /\ SubSeq(k, 1, n + 1) = Append(SubSeq(k, 1, n), k[n + 1])
      /\ SubSeq(k, 1, Len(k)) = k
  BY FrontBits
<1>4. k = Append(SubSeq(k, 1, n), k[n + 1])
  BY <1>2, <1>3
<1> QED
  BY <1>3, <1>4

\* br2 has the branches of br, with the links they have.
Grown(br, br2) ==
  \A n \in DOMAIN br :
    /\ n \in DOMAIN br2
    /\ br[n].left # 0 => br2[n].left = br[n].left
    /\ br[n].right # 0 => br2[n].right = br[n].right

SameLinks(b, c) == b.left = c.left /\ b.right = c.right

\* Where a walk arrived it arrives again.
LEMMA WalkStays ==
  ASSUME NEW br, NEW br2, Grown(br, br2)
  PROVE  \A k \in Bits : NodeIn(br, k) # 0 => NodeIn(br2, k) = NodeIn(br, k)
<1> DEFINE T == {k \in Bits : NodeIn(br, k) # 0 => NodeIn(br2, k) = NodeIn(br, k)}
<1>1. <<>> \in T
  BY WalkOn DEF Bits
<1>2. ASSUME NEW k \in Bits, NEW b \in {0, 1}, k \in T PROVE Append(k, b) \in T
  <2>1. Append(k, b) \in Bits
    BY DEF Bits
  <2>2. SUFFICES ASSUME NodeIn(br, Append(k, b)) # 0
                 PROVE  NodeIn(br2, Append(k, b)) = NodeIn(br, Append(k, b))
    BY <2>1
  <2>3. /\ NodeIn(br, k) \in DOMAIN br /\ (k = <<>> \/ NodeIn(br, k) # 0)
        /\ NodeIn(br, Append(k, b)) = Link(br[NodeIn(br, k)], b)
    BY <2>2, WalkBit
  <2>4. NodeIn(br2, k) = NodeIn(br, k)
    BY <1>2, <2>3, WalkOn
  <2>5. NodeIn(br, k) \in DOMAIN br2
        /\ Link(br2[NodeIn(br, k)], b) = Link(br[NodeIn(br, k)], b)
    BY <2>2, <2>3 DEF Grown, Link
  <2> QED
    BY <2>3, <2>4, <2>5, WalkBit
<1>3. Bits \subseteq T
  <2> HIDE DEF T
  <2> QED
    BY <1>1, <1>2, SeqInduct
<1> QED
  BY <1>3

\* Branches without links, and links that do not change, change no walk.
LEMMA WalkSame ==
  ASSUME NEW br, NEW br2, DOMAIN br \subseteq DOMAIN br2,
         \A n \in DOMAIN br : SameLinks(br2[n], br[n]),
         \A n \in DOMAIN br2 \ DOMAIN br : br2[n].left = 0 /\ br2[n].right = 0
  PROVE  \A k \in Bits : NodeIn(br2, k) = NodeIn(br, k)
<1> DEFINE T == {k \in Bits : NodeIn(br2, k) = NodeIn(br, k)}
<1>1. <<>> \in T
  BY WalkOn DEF Bits
<1>2. ASSUME NEW k \in Bits, NEW b \in {0, 1}, k \in T PROVE Append(k, b) \in T
  <2>1. Append(k, b) \in Bits
    BY DEF Bits
  <2> DEFINE n == NodeIn(br, k)
  <2>2. NodeIn(br2, k) = n
    BY <1>2
  <2>3. n \in DOMAIN br => n \in DOMAIN br2 /\ Link(br2[n], b) = Link(br[n], b)
    BY DEF SameLinks, Link
  <2>4. n \in DOMAIN br2 /\ n \notin DOMAIN br => Link(br2[n], b) = 0
    BY DEF Link
  <2>5. NodeIn(br2, Append(k, b)) = NodeIn(br, Append(k, b))
    <3>1. NodeIn(br, Append(k, b)) =
            IF n \in DOMAIN br /\ (k = <<>> \/ n # 0) THEN Link(br[n], b) ELSE 0
      BY WalkBit
    <3>2. NodeIn(br2, Append(k, b)) =
            IF n \in DOMAIN br2 /\ (k = <<>> \/ n # 0) THEN Link(br2[n], b) ELSE 0
      BY <2>2, WalkBit
    <3> HIDE DEF n
    <3> QED
      BY <2>3, <2>4, <3>1, <3>2
  <2> QED
    BY <2>1, <2>5
<1>3. Bits \subseteq T
  <2> HIDE DEF T
  <2> QED
    BY <1>1, <1>2, SeqInduct
<1> QED
  BY <1>3

\* A new link to a branch without links changes only the walks that end there.
LEMMA WalkLinked ==
  ASSUME NEW br, NEW br2, NEW c, NEW f, NEW bit \in {0, 1},
         Grown(br, br2), DOMAIN br2 = DOMAIN br, f # 0,
         \A n \in DOMAIN br \ {c} : SameLinks(br2[n], br[n]),
         \A b \in {0, 1} : b # bit => Link(br2[c], b) = Link(br[c], b),
         Link(br2[c], bit) = f,
         f \in DOMAIN br => br2[f].left = 0 /\ br2[f].right = 0
  PROVE  \A k \in Bits : NodeIn(br2, k) \in {NodeIn(br, k), f}
<1> DEFINE T == {k \in Bits : NodeIn(br2, k) \in {NodeIn(br, k), f}}
<1>1. <<>> \in T
  BY WalkOn DEF Bits
<1>2. ASSUME NEW k \in Bits, NEW b \in {0, 1}, k \in T PROVE Append(k, b) \in T
  <2>1. Append(k, b) \in Bits
    BY DEF Bits
  <2>2. CASE NodeIn(br2, k) = NodeIn(br, k)
    <3> DEFINE n == NodeIn(br, k)
    <3>1. NodeIn(br, Append(k, b)) =
            IF n \in DOMAIN br /\ (k = <<>> \/ n # 0) THEN Link(br[n], b) ELSE 0
      BY WalkBit
    <3>2. NodeIn(br2, Append(k, b)) =
            IF n \in DOMAIN br2 /\ (k = <<>> \/ n # 0) THEN Link(br2[n], b) ELSE 0
      BY <2>2, WalkBit
    <3> HIDE DEF n
    <3>3. n \in DOMAIN br => Link(br2[n], b) \in {Link(br[n], b), f}
      BY DEF SameLinks, Link
    <3> QED
      BY <2>1, <3>1, <3>2, <3>3
  <2>3. CASE NodeIn(br2, k) = f
    <3>1. NodeIn(br2, Append(k, b)) = 0
      BY <2>3, WalkBit DEF Link
    <3>2. NodeIn(br, Append(k, b)) # 0 => NodeIn(br2, Append(k, b)) = NodeIn(br, Append(k, b))
      BY <2>1, WalkStays
    <3> QED
      BY <2>1, <3>1, <3>2
  <2> QED
    BY <1>2, <2>2, <2>3
<1>3. Bits \subseteq T
  <2> HIDE DEF T
  <2> QED
    BY <1>1, <1>2, SeqInduct
<1> QED
  BY <1>3

\* A walk that arrives came over a link to where it arrives.
LEMMA WalkBack ==
  ASSUME WellFormed, NEW k \in Bits, NodeIn(branch, k) # 0
  PROVE  \E l \in Bits, b \in {0, 1} :
           /\ k = Append(l, b)
           /\ NodeIn(branch, l) \in DOMAIN branch
           /\ l = <<>> \/ NodeIn(branch, l) # 0
           /\ NodeIn(branch, k) = Link(branch[NodeIn(branch, l)], b)
           /\ ChildOf(branch, NodeIn(branch, l), NodeIn(branch, k))
<1>1. k # <<>>
  BY WalkOn
<1>2. PICK l \in Bits, b \in {0, 1} : k = Append(l, b)
  BY <1>1, LastBit
<1>3. /\ NodeIn(branch, l) \in DOMAIN branch
      /\ l = <<>> \/ NodeIn(branch, l) # 0
      /\ NodeIn(branch, k) = Link(branch[NodeIn(branch, l)], b)
  BY <1>2, WalkBit
<1>4. ChildOf(branch, NodeIn(branch, l), NodeIn(branch, k))
  BY <1>3 DEF WellFormed, SoundAt, Link
<1> QED
  BY <1>2, <1>3, <1>4

\* Two walks arrive at one branch only if they walk the same bits.
LEMMA WalkInjective ==
  ASSUME WellFormed
  PROVE  \A k, l \in Bits : NodeIn(branch, k) = NodeIn(branch, l) /\ NodeIn(branch, k) # 0 => k = l
<1> DEFINE T == {k \in Bits : \A l \in Bits :
                   NodeIn(branch, k) = NodeIn(branch, l) /\ NodeIn(branch, k) # 0 => k = l}
<1>1. <<>> \in T
  BY WalkOn DEF Bits
<1>2. ASSUME NEW k \in Bits, NEW b \in {0, 1}, k \in T PROVE Append(k, b) \in T
  <2>1. Append(k, b) \in Bits
    BY DEF Bits
  <2>2. SUFFICES ASSUME NEW l \in Bits, NodeIn(branch, Append(k, b)) = NodeIn(branch, l),
                        NodeIn(branch, l) # 0
                 PROVE  Append(k, b) = l
    BY <2>1
  <2>3. PICK m \in Bits, c \in {0, 1} :
          /\ l = Append(m, c)
          /\ NodeIn(branch, m) \in DOMAIN branch
          /\ m = <<>> \/ NodeIn(branch, m) # 0
          /\ NodeIn(branch, l) = Link(branch[NodeIn(branch, m)], c)
          /\ ChildOf(branch, NodeIn(branch, m), NodeIn(branch, l))
    BY <2>2, WalkBack
  <2>4. /\ NodeIn(branch, k) \in DOMAIN branch /\ (k = <<>> \/ NodeIn(branch, k) # 0)
        /\ NodeIn(branch, l) = Link(branch[NodeIn(branch, k)], b)
    BY <2>2, WalkBit
  <2>5. NodeIn(branch, k) = NodeIn(branch, m)
    BY <2>2, <2>3, <2>4 DEF WellFormed, SoundAt, Link, ChildOf
  <2>6. b = c
    BY <2>2, <2>3, <2>4, <2>5 DEF WellFormed, SoundAt, Link
  <2>7. k = m
    <3>1. CASE NodeIn(branch, k) # 0
      BY <1>2, <2>5, <3>1
    <3>2. CASE NodeIn(branch, k) = 0
      BY <2>3, <2>4, <2>5, <3>2
    <3> QED
      BY <3>1, <3>2
  <2> QED
    BY <2>3, <2>6, <2>7
<1>3. Bits \subseteq T
  <2> HIDE DEF T
  <2> QED
    BY <1>1, <1>2, SeqInduct
<1> QED
  BY <1>3

-----------------------------------------------------------------------------
(* Where the handles stand, and what they are about to write there. *)

\* No operation in use takes a branch out of the tree.
NoDelete == Ops \subseteq {"insert", "put", "get"}

\* No key extends another.
PrefixFree == \A k, l \in Key : \A n \in 0 .. Len(l) : k = SubSeq(l, 1, n) => k = l

Walking  == {"walk", "claim", "append", "link", "seek"}
Putting  == {"wipe", "wiping", "allocate", "header", "payload", "store", "rewrite"}
Standing == {"load", "fetch", "read"} \cup Putting

Passed(r) == SubSeq(r.key, 1, r.pos)

\* In file br a handle in state r stands where the bits it has passed lead, and
\* what it is about to write back there has the links the branch has now.
WalkOK(br, r) ==
  /\ r.pc \in {"closed", "create", "idle"} \cup Walking \cup Standing
  /\ r.op \in {"insert", "put", "get"}
  /\ r.pc \in Walking \cup Standing => r.key \in Key
  /\ r.pc \in Standing => r.pos = Len(r.key)
  /\ r.cursor = NodeIn(br, Passed(r))
  /\ r.pos > 0 => r.cursor # 0
  /\ r.pc \in {"append", "link"} \cup Putting => SameLinks(r.copy, br[r.cursor])
  /\ r.pc \in {"append", "link"} => Link(br[r.cursor], NextBit(r)) = 0
  /\ r.pc \in {"wipe", "wiping"} => r.op = "put" /\ r.todo = <<r.cursor>>
  /\ r.pc = "wiping" => SameLinks(r.spare, br[r.cursor])

WalkInv == Inv /\ \A p \in Proc : WalkOK(branch, h[p])

\* In file br, bl a put in state r has the lock, and nobody else writes what it
\* has read or written of its branch and its data; a branch about to be linked
\* is empty.
PutOK(br, bl, r) ==
  /\ r.locked <=> r.pc \in Putting
  /\ r.pc \in {"allocate", "header", "payload", "store"} => br[r.cursor].data = 0
  /\ r.pc = "rewrite" => r.copy.data = br[r.cursor].data
  /\ r.pc = "store" => bl[r.fresh].body = r.val
  /\ r.pc = "link" => br[r.fresh] = NewBranch(r.cursor)

OneWriter ==
  \A p, q \in Proc : h[p].locked /\ h[q].locked /\ h[p].cursor = h[q].cursor => p = q

StoreInv ==
  /\ WalkInv
  /\ Private
  /\ \A p \in Proc : PutOK(branch, blob, h[p])
  /\ OneWriter

-----------------------------------------------------------------------------
(* Lemmas on a handle's walk. *)

\* The bits passed are those of the key up to the position.
LEMMA PassedBits ==
  ASSUME NEW r \in Handle, r.pos <= Len(r.key)
  PROVE  /\ r.key \in Bits /\ Passed(r) \in Bits /\ Len(Passed(r)) = r.pos
         /\ r.pos = 0 => Passed(r) = <<>>
         /\ r.pos = Len(r.key) => Passed(r) = r.key
         /\ r.pos < Len(r.key) => /\ NextBit(r) \in {0, 1}
                                  /\ SubSeq(r.key, 1, r.pos + 1) = Append(Passed(r), NextBit(r))
<1>1. r.key \in Bits /\ r.pos \in Nat /\ Len(r.key) \in Nat
  BY DEF Handle, Bits
<1>2. Passed(r) \in Bits /\ Len(Passed(r)) = r.pos
  BY <1>1 DEF Bits, Passed
<1>3. r.pos = 0 => Passed(r) = <<>>
  BY <1>2 DEF Bits
<1>4. r.pos = Len(r.key) => Passed(r) = r.key
  BY <1>1 DEF Bits, Passed
<1>5. ASSUME r.pos < Len(r.key)
      PROVE  /\ NextBit(r) \in {0, 1}
             /\ SubSeq(r.key, 1, r.pos + 1) = Append(Passed(r), NextBit(r))
  <2>1. r.pos \in 0 .. Len(r.key) - 1
    BY <1>1, <1>5
  <2> QED
    BY <1>1, <2>1, FrontBits DEF Passed, NextBit
<1> QED
  BY <1>1, <1>2, <1>3, <1>4, <1>5

\* No handle is past the end of its key.
LEMMA Placed ==
  ASSUME WalkInv, NEW p \in Proc
  PROVE  /\ h[p].pos <= Len(h[p].key) /\ h[p].pos \in Nat
         /\ h[p].pc \in Walking => h[p].pos < Len(h[p].key)
<1>1. h[p] \in Handle /\ HandleOK(branch, blob, size, mutex, p, h[p]) /\ WalkOK(branch, h[p])
  BY Acting DEF WalkInv
<1>2. h[p].pos \in Nat /\ Len(h[p].key) \in Nat
  BY <1>1 DEF Handle
<1> QED
  BY <1>1, <1>2 DEF HandleOK, WalkOK, Walking

\* A write elsewhere leaves a handle where its bits lead.
LEMMA WalkKept ==
  ASSUME NEW br, NEW br2, NEW r \in Handle, r.pos <= Len(r.key), WalkOK(br, r), Grown(br, br2),
         r.pc \in {"append", "link"} \cup Putting => SameLinks(br2[r.cursor], br[r.cursor])
  PROVE  WalkOK(br2, r)
<1>1. Passed(r) \in Bits /\ (r.pos = 0 => Passed(r) = <<>>) /\ r.pos \in Nat
  BY PassedBits DEF Handle
<1>2. r.cursor = NodeIn(br2, Passed(r))
  <2>1. CASE r.pos = 0
    BY <1>1, <2>1, WalkOn DEF WalkOK
  <2>2. CASE r.pos > 0
    BY <1>1, <2>2, WalkStays DEF WalkOK
  <2> QED
    BY <1>1, <2>1, <2>2
<1>3. r.pc \in {"append", "link"} \cup Putting => SameLinks(r.copy, br2[r.cursor])
  BY DEF WalkOK, SameLinks
<1>4. r.pc \in {"append", "link"} => Link(br2[r.cursor], NextBit(r)) = 0
  BY DEF WalkOK, SameLinks, Link
<1>5. r.pc = "wiping" => SameLinks(r.spare, br2[r.cursor])
  BY DEF WalkOK, SameLinks, Putting
<1> QED
  BY <1>2, <1>3, <1>4, <1>5 DEF WalkOK

\* A handle between operations stands at the root.
LEMMA IdleWalk ==
  ASSUME NEW br, NEW r \in Handle
  PROVE  WalkOK(br, Idle(r)) /\ WalkOK(br, Closed(r.left))
<1> DEFINE c == Closed(r.left)
<1>1. c.pc = "closed" /\ c.op = "insert" /\ c.key = <<>> /\ c.pos = 0 /\ c.cursor = 0
  BY DEF Closed
<1>2. Idle(r).pc = "idle" /\ Idle(r).op = "insert" /\ Idle(r).key = <<>> /\ Idle(r).pos = 0
      /\ Idle(r).cursor = 0
  BY DEF Idle, Closed
<1>3. SubSeq(<<>>, 1, 0) = <<>> /\ NodeIn(br, <<>>) = 0
  BY WalkOn
<1> HIDE DEF c
<1>4. c.cursor = NodeIn(br, Passed(c)) /\ Idle(r).cursor = NodeIn(br, Passed(Idle(r)))
  BY <1>1, <1>2, <1>3, Zenon DEF Passed
<1>5. WalkOK(br, c)
  BY <1>1, <1>4 DEF WalkOK, Walking, Standing, Putting
<1>6. WalkOK(br, Idle(r))
  BY <1>2, <1>4 DEF WalkOK, Walking, Standing, Putting
<1> QED
  BY <1>5, <1>6 DEF c

\* A handle that follows a link stands where one bit more leads.
LEMMA MovedWalk ==
  ASSUME NEW br, NEW r \in Handle, r.pc \in {"walk", "seek"}, r.op \in {"insert", "put", "get"},
         r.key \in Key, r.pos < Len(r.key), r.cursor = NodeIn(br, Passed(r)),
         r.pos > 0 => r.cursor # 0, r.cursor \in DOMAIN br,
         NEW i \in Nat, i = Link(br[r.cursor], NextBit(r)), i # 0
  PROVE  WalkOK(br, Moved(r, i))
<1> DEFINE moved == [r EXCEPT !.cursor = i, !.pos = @ + 1]
           there == [r EXCEPT !.cursor = i, !.pos = @ + 1, !.pc = AtKey(r.op)]
<1>1. r.pos \in Nat /\ Len(r.key) \in Nat /\ r.pos <= Len(r.key)
  BY DEF Handle
<1>2. NodeIn(br, SubSeq(r.key, 1, r.pos + 1)) = i
  <2>1. /\ Passed(r) \in Bits /\ NextBit(r) \in {0, 1} /\ Len(Passed(r)) = r.pos
        /\ SubSeq(r.key, 1, r.pos + 1) = Append(Passed(r), NextBit(r))
    BY <1>1, PassedBits
  <2>2. Passed(r) = <<>> \/ r.cursor # 0
    BY <1>1, PassedBits
  <2>3. NodeIn(br, Append(Passed(r), NextBit(r))) = Link(br[r.cursor], NextBit(r))
    BY <2>1, <2>2, WalkBit
  <2> QED
    BY <2>1, <2>3
<1>3. CASE r.pos + 1 < Len(r.key)
  <2>1. moved.pc = r.pc /\ moved.op = r.op /\ moved.key = r.key /\ moved.cursor = i
        /\ moved.pos = r.pos + 1
    BY DEF Handle
  <2>2. WalkOK(br, moved)
    BY <1>2, <2>1 DEF WalkOK, Passed, Walking, Standing, Putting
  <2> QED
    BY <1>3, <2>2 DEF Moved
<1>4. CASE ~(r.pos + 1 < Len(r.key)) /\ r.op = "insert"
  BY <1>4, IdleWalk DEF Moved
<1>5. CASE ~(r.pos + 1 < Len(r.key)) /\ r.op # "insert"
  <2>1. AtKey(r.op) \in {"load", "fetch"}
    BY <1>5 DEF AtKey
  <2>2. there.pc = AtKey(r.op) /\ there.op = r.op /\ there.key = r.key /\ there.cursor = i
        /\ there.pos = r.pos + 1
    BY DEF Handle
  <2>3. r.pos + 1 = Len(r.key)
    BY <1>1, <1>5
  <2>4. WalkOK(br, there)
    BY <1>2, <2>1, <2>2, <2>3 DEF WalkOK, Passed, Walking, Standing, Putting
  <2> QED
    BY <1>5, <2>4 DEF Moved
<1> QED
  BY <1>3, <1>4, <1>5

\* A handle that stands at a key and one still on its way stand apart.
LEMMA Apart ==
  ASSUME PrefixFree, WalkInv, NEW p \in Proc, NEW q \in Proc,
         h[p].pc \in Standing, h[q].pc \in Walking
  PROVE  h[p].cursor # h[q].cursor
<1>1. /\ h[p] \in Handle /\ h[q] \in Handle /\ WalkOK(branch, h[p]) /\ WalkOK(branch, h[q])
      /\ WellFormed
  BY Acting DEF WalkInv, Inv
<1>2. /\ h[p].pos \in Nat /\ h[p].pos = Len(h[p].key) /\ h[p].key \in Key
      /\ h[q].pos \in Nat /\ h[q].pos < Len(h[q].key) /\ h[q].key \in Key
  BY <1>1, Placed DEF WalkOK
<1>3. h[p].key \in Bits /\ h[p].cursor = NodeIn(branch, h[p].key) /\ h[p].cursor # 0
  BY <1>1, <1>2, PassedBits, KeyAssumption DEF WalkOK
<1>4. Passed(h[q]) \in Bits /\ h[q].cursor = NodeIn(branch, Passed(h[q]))
      /\ Len(Passed(h[q])) = h[q].pos
  BY <1>1, <1>2, PassedBits DEF WalkOK
<1>5. SUFFICES ASSUME h[p].cursor = h[q].cursor PROVE FALSE
  OBVIOUS
<1>6. h[p].key = Passed(h[q])
  BY <1>1, <1>3, <1>4, <1>5, WalkInjective, ZenonT(30)
<1>7. h[p].key = h[q].key
  <2>1. h[q].pos \in 0 .. Len(h[q].key)
    <3>1. h[q].key \in Bits
      BY <1>2, KeyAssumption DEF Bits
    <3>2. Len(h[q].key) \in Nat
      BY <3>1 DEF Bits
    <3> QED
      BY <1>2, <3>2
  <2> QED
    BY <1>2, <1>6, <2>1 DEF PrefixFree, Passed
<1> QED
  BY <1>2, <1>4, <1>6, <1>7

\* Two handles that stand on one branch stand at one key.
LEMMA SameKey ==
  ASSUME WalkInv, NEW p \in Proc, NEW q \in Proc,
         h[p].pc \in Standing, h[q].pc \in Standing
  PROVE  h[p].cursor = h[q].cursor <=> h[p].key = h[q].key
<1>1. /\ h[p] \in Handle /\ h[q] \in Handle /\ WalkOK(branch, h[p]) /\ WalkOK(branch, h[q])
      /\ WellFormed
  BY Acting DEF WalkInv, Inv
<1>2. /\ h[p].pos \in Nat /\ h[p].pos = Len(h[p].key) /\ h[p].key \in Key
      /\ h[q].pos \in Nat /\ h[q].pos = Len(h[q].key) /\ h[q].key \in Key
  BY <1>1, Placed DEF WalkOK
<1>3. /\ h[p].key \in Bits /\ h[p].cursor = NodeIn(branch, h[p].key) /\ h[p].cursor # 0
      /\ h[q].key \in Bits /\ h[q].cursor = NodeIn(branch, h[q].key)
  BY <1>1, <1>2, PassedBits, KeyAssumption DEF WalkOK
<1> QED
  BY <1>1, <1>3, WalkInjective

-----------------------------------------------------------------------------
(* The actions, and where the handles stand after them. *)

\* A step that writes no link another handle has copied.
LEMMA StepKeepsWalk ==
  ASSUME WalkInv, NEW p \in Proc, NEW r, h' = [h EXCEPT ![p] = r],
         Grown(branch, branch'),
         \A q \in Proc \ {p} : h[q].pc \in {"append", "link"} \cup Putting =>
           SameLinks(branch'[h[q].cursor], branch[h[q].cursor]),
         WalkOK(branch', r)
  PROVE  Grown(branch, branch') /\ \A q \in Proc : WalkOK(branch', h'[q])
<1>1. ASSUME NEW q \in Proc PROVE WalkOK(branch', h'[q])
  <2>1. CASE q = p
    BY <2>1 DEF WalkInv, Inv, TypeOK
  <2>2. CASE q # p
    <3>1. h'[q] = h[q] /\ h[q] \in Handle /\ WalkOK(branch, h[q])
      BY <2>2 DEF WalkInv, Inv, TypeOK
    <3> QED
      BY <2>2, <3>1, Placed, WalkKept
  <2> QED
    BY <2>1, <2>2
<1> QED
  BY <1>1

\* A step that writes no branch.
LEMMA ReadKeepsWalk ==
  ASSUME WalkInv, NEW p \in Proc, NEW r, h' = [h EXCEPT ![p] = r], branch' = branch,
         WalkOK(branch, r)
  PROVE  Grown(branch, branch') /\ \A q \in Proc : WalkOK(branch', h'[q])
<1>1. Grown(branch, branch')
  BY DEF Grown
<1>2. \A q \in Proc : SameLinks(branch'[h[q].cursor], branch[h[q].cursor])
  BY DEF SameLinks
<1> QED
  BY <1>1, <1>2, StepKeepsWalk

\* A step that appends a branch without links.
LEMMA AppendKeepsWalk ==
  ASSUME WalkInv, NEW p \in Proc, NEW r, h' = [h EXCEPT ![p] = r],
         NEW n, n \notin DOMAIN branch, NEW m, branch' = Written(branch, n, NewBranch(m)),
         WalkOK(branch', r)
  PROVE  Grown(branch, branch') /\ \A q \in Proc : WalkOK(branch', h'[q])
<1>1. \A i \in DOMAIN branch : i \in DOMAIN branch' /\ branch'[i] = branch[i]
  BY DEF Written
<1>2. Grown(branch, branch')
  BY <1>1 DEF Grown
<1>3. \A q \in Proc : h[q].pc \in {"append", "link"} \cup Putting => h[q].cursor \in DOMAIN branch
  BY DEF WalkInv, Inv, HandleOK, Putting
<1>4. \A q \in Proc : h[q].pc \in {"append", "link"} \cup Putting =>
        SameLinks(branch'[h[q].cursor], branch[h[q].cursor])
  BY <1>1, <1>3 DEF SameLinks
<1> QED
  BY <1>2, <1>4, StepKeepsWalk

\* A step that writes a branch back with the links it has.
LEMMA WriteKeepsWalk ==
  ASSUME WalkInv, NEW p \in Proc, NEW r, h' = [h EXCEPT ![p] = r],
         NEW n \in DOMAIN branch, NEW b, branch' = [branch EXCEPT ![n] = b],
         SameLinks(b, branch[n]), WalkOK(branch', r)
  PROVE  Grown(branch, branch') /\ \A q \in Proc : WalkOK(branch', h'[q])
<1>1. DOMAIN branch' = DOMAIN branch /\ \A i \in DOMAIN branch : SameLinks(branch'[i], branch[i])
  BY DEF SameLinks, WalkInv, Inv, TypeOK
<1>2. Grown(branch, branch')
  BY <1>1 DEF Grown, SameLinks
<1>3. \A q \in Proc : h[q].pc \in {"append", "link"} \cup Putting => h[q].cursor \in DOMAIN branch
  BY DEF WalkInv, Inv, HandleOK, Putting
<1> QED
  BY <1>1, <1>2, <1>3, StepKeepsWalk

\* Opening a file, and starting an operation, puts the handle at the root.
LEMMA OpenWalks ==
  ASSUME NoDelete, WalkInv, NEW p \in Proc, Open(p) \/ Create(p) \/ Start(p)
  PROVE  Grown(branch, branch') /\ \A q \in Proc : WalkOK(branch', h'[q])
<1>1. /\ h[p] \in Handle /\ WalkOK(branch, h[p])
      /\ HandleOK(branch, blob, size, mutex, p, h[p])
  BY Acting DEF WalkInv
<1>2. h[p].pc \in {"closed", "create", "idle"} => h[p].pos = 0 /\ h[p].cursor = 0
  <2>1. h[p].pos = 0 => Passed(h[p]) = <<>>
    BY <1>1, Placed, PassedBits
  <2> QED
    BY <1>1, <2>1, WalkOn DEF HandleOK, WalkOK
<1>3. CASE Open(p)
  <2> DEFINE c == [h[p] EXCEPT !.pc = "create"]
  <2>1. c.pc = "create" /\ c.op = h[p].op /\ c.key = h[p].key /\ c.pos = 0 /\ c.cursor = 0
    BY <1>1, <1>2, <1>3 DEF Handle, Open
  <2>2. Passed(c) = Passed(h[p])
    BY <1>2, <1>3, <2>1 DEF Passed, Open
  <2>3. WalkOK(branch, c)
    BY <1>1, <1>2, <1>3, <2>1, <2>2 DEF WalkOK, Walking, Standing, Putting, Open
  <2>4. PICK r : h' = [h EXCEPT ![p] = r] /\ WalkOK(branch, r)
    BY <1>1, <1>3, <2>3, IdleWalk DEF Open, Become
  <2> QED
    BY <1>3, <2>4, ReadKeepsWalk DEF Open
<1>4. CASE Create(p)
  <2>1. h' = [h EXCEPT ![p] = Idle(h[p])]
    BY <1>4 DEF Create, Become
  <2>2. CASE size = 0
    <3>1. 0 \notin DOMAIN branch
      BY <2>2 DEF WalkInv, Inv, WellFormed
    <3>2. branch' = Written(branch, 0, NewBranch(0))
      BY <1>4, <2>2 DEF Create
    <3> QED
      BY <1>1, <2>1, <3>1, <3>2, IdleWalk, AppendKeepsWalk
  <2>3. CASE size # 0
    BY <1>1, <1>4, <2>1, <2>3, IdleWalk, ReadKeepsWalk DEF Create
  <2> QED
    BY <2>2, <2>3
<1>5. CASE Start(p)
  <2>1. PICK o \in Ops, k \in Key, v \in Value \cup {NoValue} :
          h' = [h EXCEPT ![p] =
                  [h[p] EXCEPT !.pc = IF o \in {"get", "remove"} THEN "seek" ELSE "walk",
                               !.op = o, !.key = k, !.val = v, !.left = @ - 1]]
    BY <1>5 DEF Start, Become
  <2> DEFINE r == [h[p] EXCEPT !.pc = IF o \in {"get", "remove"} THEN "seek" ELSE "walk",
                               !.op = o, !.key = k, !.val = v, !.left = @ - 1]
  <2>2. /\ r.pc \in {"seek", "walk"} /\ r.op \in {"insert", "put", "get"} /\ r.key = k
        /\ r.pos = 0 /\ r.cursor = 0
    BY <1>1, <1>2, <1>5 DEF Handle, Start, NoDelete
  <2>3. k \in Seq({0, 1})
    BY KeyAssumption
  <2> HIDE DEF r
  <2>4. Passed(r) = <<>>
    BY <2>2, <2>3 DEF Passed
  <2>5. WalkOK(branch, r)
    BY <2>2, <2>4, WalkOn DEF WalkOK, Walking, Standing, Putting
  <2>6. h' = [h EXCEPT ![p] = r] /\ branch' = branch
    BY <1>5, <2>1 DEF r, Start
  <2> QED
    BY <2>5, <2>6, ReadKeepsWalk
<1> QED
  BY <1>3, <1>4, <1>5

\* A handle that stays where it is.
LEMMA StayWalk ==
  ASSUME NEW br, NEW r, NEW s, WalkOK(br, r), r.pc \in Walking \cup Standing,
         s.op = r.op, s.key = r.key, s.pos = r.pos, s.cursor = r.cursor,
         s.pc \in Walking \cup Standing, s.pc \in Standing => r.pc \in Standing,
         s.pc \in {"append", "link"} \cup Putting => SameLinks(s.copy, br[r.cursor]),
         s.pc \in {"append", "link"} => Link(br[r.cursor], NextBit(r)) = 0,
         s.pc \in {"wipe", "wiping"} => s.op = "put" /\ s.todo = <<r.cursor>>,
         s.pc = "wiping" => SameLinks(s.spare, br[r.cursor])
  PROVE  WalkOK(br, s)
<1>1. Passed(s) = Passed(r) /\ NextBit(s) = NextBit(r)
  BY DEF Passed, NextBit
<1> QED
  BY <1>1 DEF WalkOK

\* goLeft and goRight follow a link, or add one that was missing.
LEMMA WalkWalks ==
  ASSUME PrefixFree, WalkInv, NEW p \in Proc, Walk(p)
  PROVE  Grown(branch, branch') /\ \A q \in Proc : WalkOK(branch', h'[q])
<1> DEFINE s == [h[p] EXCEPT !.pc = "walk"]
           t == [h[p] EXCEPT !.pc = "walk", !.copy = NewBranch(0), !.fresh = 0]
<1>1. /\ h[p] \in Handle /\ WalkOK(branch, h[p]) /\ Inv
      /\ HandleOK(branch, blob, size, mutex, p, h[p])
      /\ h[p].pc \in {"walk", "claim", "append", "link"}
  BY Acting DEF WalkInv, Walk, Go, Claim, GetNextIndex, SetLink
<1>2. /\ h[p].pc \in Walking /\ h[p].pos < Len(h[p].key) /\ h[p].pos \in Nat /\ h[p].key \in Key
      /\ h[p].pos <= Len(h[p].key) /\ h[p].cursor \in DOMAIN branch
      /\ h[p].cursor = NodeIn(branch, Passed(h[p])) /\ (h[p].pos > 0 => h[p].cursor # 0)
      /\ h[p].op \in {"insert", "put", "get"}
  BY <1>1, Placed DEF WalkOK, Walking, HandleOK
<1>3. /\ s \in Handle /\ s.pc = "walk" /\ s.key = h[p].key /\ s.pos = h[p].pos
      /\ s.cursor = h[p].cursor /\ s.op = h[p].op
      /\ t \in Handle /\ t.pc = "walk" /\ t.key = h[p].key /\ t.pos = h[p].pos
      /\ t.cursor = h[p].cursor /\ t.op = h[p].op
  BY <1>1, PCs, BranchTypes DEF Handle
<1> HIDE DEF s, t
<1>4. /\ NextBit(s) = NextBit(h[p]) /\ Passed(s) = Passed(h[p])
      /\ NextBit(t) = NextBit(h[p]) /\ Passed(t) = Passed(h[p])
  BY <1>3 DEF NextBit, Passed
<1>5. ASSUME NEW i, i = Link(branch[h[p].cursor], NextBit(h[p])), i # 0
      PROVE  WalkOK(branch, Moved(s, i)) /\ (h[p].pc = "walk" => WalkOK(branch, Moved(h[p], i)))
  <2>1. i \in Nat
    BY <1>1, <1>2, <1>5, LinkOK
  <2> QED
    BY <1>1, <1>2, <1>3, <1>4, <1>5, <2>1, MovedWalk
<1>6. CASE Go(p)
  <2> DEFINE c == [h[p] EXCEPT !.pc = "claim"]
  <2>1. c.pc = "claim" /\ c.key = h[p].key /\ c.pos = h[p].pos /\ c.cursor = h[p].cursor
        /\ c.op = h[p].op
    BY <1>1 DEF Handle
  <2> HIDE DEF c
  <2>2. WalkOK(branch, c)
    BY <1>1, <1>2, <2>1, StayWalk DEF Walking, Standing, Putting
  <2>3. PICK r : h' = [h EXCEPT ![p] = r] /\ WalkOK(branch, r)
    BY <1>5, <1>6, <2>2 DEF Go, Become, c
  <2> QED
    BY <1>6, <2>3, ReadKeepsWalk DEF Go
<1>7. CASE Claim(p)
  <2> DEFINE c == [h[p] EXCEPT !.pc = "append", !.copy = branch[h[p].cursor], !.fresh = size]
  <2>1. c.pc = "append" /\ c.key = h[p].key /\ c.pos = h[p].pos /\ c.cursor = h[p].cursor
        /\ c.op = h[p].op /\ c.copy = branch[h[p].cursor]
    BY <1>1 DEF Handle
  <2> HIDE DEF c
  <2>2. Link(branch[h[p].cursor], NextBit(h[p])) = 0 => WalkOK(branch, c)
    BY <1>1, <1>2, <2>1, StayWalk DEF Walking, Standing, Putting, SameLinks
  <2>3. PICK r : h' = [h EXCEPT ![p] = r] /\ WalkOK(branch, r)
    BY <1>5, <1>7, <2>2 DEF Claim, Become, c, s
  <2> QED
    BY <1>7, <2>3, ReadKeepsWalk DEF Claim
<1>8. CASE GetNextIndex(p)
  <2> DEFINE c == [h[p] EXCEPT !.pc = "link"]
  <2>1. c.pc = "link" /\ c.key = h[p].key /\ c.pos = h[p].pos /\ c.cursor = h[p].cursor
        /\ c.op = h[p].op /\ c.copy = h[p].copy
    BY <1>1 DEF Handle
  <2> HIDE DEF c
  <2>2. size \notin DOMAIN branch /\ h[p].fresh = size /\ h[p].pc = "append"
    BY <1>1, <1>8 DEF Inv, TypeOK, WellFormed, HandleOK, GetNextIndex
  <2>3. branch' = Written(branch, size, NewBranch(h[p].cursor))
    BY <1>8, <2>2 DEF GetNextIndex
  <2>4. branch'[h[p].cursor] = branch[h[p].cursor] /\ Grown(branch, branch')
    BY <1>2, <2>2, <2>3 DEF Written, Grown
  <2>5. WalkOK(branch', h[p])
    BY <1>1, <1>2, <2>4, WalkKept DEF SameLinks
  <2>6. WalkOK(branch', c)
    <3>1. /\ SameLinks(c.copy, branch'[h[p].cursor])
          /\ Link(branch'[h[p].cursor], NextBit(h[p])) = 0
      BY <2>1, <2>2, <2>5 DEF WalkOK
    <3> QED
      BY <1>2, <2>1, <2>5, <3>1, StayWalk DEF Walking, Standing, Putting
  <2>7. h' = [h EXCEPT ![p] = c]
    BY <1>8 DEF GetNextIndex, Become, c
  <2> QED
    BY <2>2, <2>3, <2>6, <2>7, AppendKeepsWalk
<1>9. CASE SetLink(p)
  <2> DEFINE b == WithLink(h[p].copy, NextBit(h[p]), h[p].fresh)
  <2>1. /\ h[p].pc = "link" /\ branch' = [branch EXCEPT ![h[p].cursor] = b]
        /\ h' = [h EXCEPT ![p] = Moved(t, h[p].fresh)]
    BY <1>9 DEF SetLink, Become, t
  <2>2. /\ SameLinks(h[p].copy, branch[h[p].cursor])
        /\ Link(branch[h[p].cursor], NextBit(h[p])) = 0
        /\ h[p].fresh \in Nat /\ h[p].fresh # 0 /\ h[p].copy \in Branch /\ mutex = p
    BY <1>1, <1>2, <2>1 DEF WalkOK, HandleOK, ChildOf, Holding, Handle, Inv, TypeOK
  <2>3. /\ Link(b, NextBit(h[p])) = h[p].fresh
        /\ branch[h[p].cursor].left # 0 => b.left = branch[h[p].cursor].left
        /\ branch[h[p].cursor].right # 0 => b.right = branch[h[p].cursor].right
    BY <2>2 DEF WithLink, Link, SameLinks, Branch
  <2> HIDE DEF b
  <2>4. \A n \in DOMAIN branch : n \in DOMAIN branch' /\
          branch'[n] = IF n = h[p].cursor THEN b ELSE branch[n]
    BY <1>1, <2>1 DEF Inv, TypeOK
  <2>5. Grown(branch, branch')
    BY <2>3, <2>4 DEF Grown
  <2>6. ASSUME NEW q \in Proc \ {p}, h[q].pc \in {"append", "link"} \cup Putting
        PROVE  SameLinks(branch'[h[q].cursor], branch[h[q].cursor])
    <3>1. HandleOK(branch, blob, size, mutex, q, h[q])
      BY <1>1 DEF Inv
    <3>2. h[q].pc \notin {"append", "link"}
      BY <2>2, <3>1 DEF HandleOK, Holding
    <3>3. h[q].cursor # h[p].cursor
      BY <1>2, <2>6, <3>2, Apart DEF Standing
    <3>4. h[q].cursor \in DOMAIN branch
      BY <2>6, <3>1 DEF HandleOK, Putting
    <3> QED
      BY <2>4, <3>3, <3>4 DEF SameLinks
  <2>7. h[p].cursor = NodeIn(branch', Passed(h[p]))
    BY <1>1, <1>2, <2>5, WalkStays, PassedBits, WalkOn
  <2>8. /\ h[p].cursor \in DOMAIN branch'
        /\ Link(branch'[h[p].cursor], NextBit(h[p])) = h[p].fresh
    BY <1>2, <2>3, <2>4
  <2>9. WalkOK(branch', Moved(t, h[p].fresh))
    BY <1>2, <1>3, <1>4, <2>2, <2>7, <2>8, MovedWalk
  <2> QED
    BY <2>1, <2>5, <2>6, <2>9, StepKeepsWalk
<1> QED
  BY <1>6, <1>7, <1>8, <1>9 DEF Walk

\* setData reads its branch, and writes it back with the links it has.
LEMMA SetDataWalks ==
  ASSUME WalkInv, NEW p \in Proc, SetData(p)
  PROVE  Grown(branch, branch') /\ \A q \in Proc : WalkOK(branch', h'[q])
<1>1. /\ h[p] \in Handle /\ WalkOK(branch, h[p]) /\ Inv
      /\ HandleOK(branch, blob, size, mutex, p, h[p])
      /\ h[p].pc \in {"load", "allocate", "header", "payload", "store", "rewrite"}
  BY Acting DEF WalkInv, SetData, Load, Allocate, WriteHeader, WritePayload, SetBranch, Rewrite
<1>2. h[p].pc \in Standing /\ h[p].op = "put" /\ h[p].cursor \in DOMAIN branch
  BY <1>1 DEF Standing, Putting, HandleOK
<1>3. CASE Load(p)
  <2> DEFINE b == branch[h[p].cursor]
             s == [h[p] EXCEPT !.copy = b, !.locked = TRUE]
             w == [s EXCEPT !.pc = "wipe", !.todo = <<s.cursor>>, !.copy.data = 0]
             a == [s EXCEPT !.pc = "allocate"]
             e == [s EXCEPT !.pc = "rewrite"]
  <2>1. b \in Branch
    BY <1>1, <1>2, LinkOK
  <2>2. s \in Handle /\ s.copy = b /\ s.cursor = h[p].cursor /\ s.op = "put"
        /\ s.key = h[p].key /\ s.pos = h[p].pos
    BY <1>1, <1>2, <2>1 DEF Handle
  <2> HIDE DEF s
  <2>3. /\ a.pc = "allocate" /\ a.copy = b /\ a.cursor = h[p].cursor /\ a.op = "put"
        /\ a.key = h[p].key /\ a.pos = h[p].pos
        /\ e.pc = "rewrite" /\ e.copy = b /\ e.cursor = h[p].cursor /\ e.op = "put"
        /\ e.key = h[p].key /\ e.pos = h[p].pos
        /\ w.pc = "wipe" /\ SameLinks(w.copy, b) /\ w.cursor = h[p].cursor /\ w.op = "put"
        /\ w.key = h[p].key /\ w.pos = h[p].pos /\ w.todo = <<h[p].cursor>>
    BY <2>1, <2>2 DEF Handle, Branch, SameLinks
  <2>4. \/ h' = [h EXCEPT ![p] = a] \/ h' = [h EXCEPT ![p] = e]
        \/ h' = [h EXCEPT ![p] = w] \/ h' = [h EXCEPT ![p] = Idle(s)]
    BY <1>3 DEF Load, Become, s
  <2> HIDE DEF a, e, w
  <2>5. WalkOK(branch, a) /\ WalkOK(branch, e) /\ WalkOK(branch, w)
    BY <1>1, <1>2, <2>3, StayWalk DEF SameLinks, Walking, Standing, Putting
  <2> QED
    BY <1>3, <2>2, <2>4, <2>5, IdleWalk, ReadKeepsWalk DEF Load
<1>4. CASE Allocate(p) \/ WriteHeader(p) \/ WritePayload(p)
  <2> DEFINE a == [h[p] EXCEPT !.pc = "header", !.fresh = size]
             b == [h[p] EXCEPT !.pc = "payload"]
             c == [h[p] EXCEPT !.pc = "store"]
  <2>1. SameLinks(h[p].copy, branch[h[p].cursor])
    BY <1>1, <1>4 DEF WalkOK, Putting, Allocate, WriteHeader, WritePayload
  <2>2. \A r \in {a, b, c} :
          /\ r.pc \in {"header", "payload", "store"} /\ r.copy = h[p].copy /\ r.op = h[p].op
          /\ r.key = h[p].key /\ r.pos = h[p].pos /\ r.cursor = h[p].cursor
    BY <1>1 DEF Handle
  <2>3. branch' = branch /\ \E r \in {a, b, c} : h' = [h EXCEPT ![p] = r]
    BY <1>4 DEF Allocate, WriteHeader, WritePayload, Become
  <2> HIDE DEF a, b, c
  <2>4. \A r \in {a, b, c} : WalkOK(branch, r)
    BY <1>1, <1>2, <2>1, <2>2, StayWalk DEF Walking, Standing, Putting
  <2> QED
    BY <2>3, <2>4, ReadKeepsWalk
<1>5. CASE SetBranch(p)
  <2> DEFINE b == [h[p].copy EXCEPT !.data = h[p].fresh]
  <2>1. SameLinks(b, branch[h[p].cursor])
    BY <1>1, <1>5 DEF WalkOK, Putting, SetBranch, SameLinks, Handle, Branch
  <2>2. branch' = [branch EXCEPT ![h[p].cursor] = b] /\ h' = [h EXCEPT ![p] = Idle(h[p])]
    BY <1>5 DEF SetBranch, Become
  <2> HIDE DEF b
  <2> QED
    BY <1>1, <1>2, <2>1, <2>2, IdleWalk, WriteKeepsWalk
<1>6. CASE Rewrite(p)
  BY <1>1, <1>6, IdleWalk, ReadKeepsWalk DEF Rewrite, Become
<1> QED
  BY <1>3, <1>4, <1>5, <1>6 DEF SetData

\* deleteData of setData: of deletion nothing else is left.
LEMMA DeleteWalks ==
  ASSUME WalkInv, NEW p \in Proc, Delete(p)
  PROVE  Grown(branch, branch') /\ \A q \in Proc : WalkOK(branch', h'[q])
<1>1. /\ h[p] \in Handle /\ WalkOK(branch, h[p]) /\ Inv
      /\ HandleOK(branch, blob, size, mutex, p, h[p])
  BY Acting DEF WalkInv
<1>2. h[p].pc \in {"wipe", "wiping"} /\ (DeleteDataRead(p) \/ DeleteDataWrite(p))
  BY <1>1 DEF WalkOK, Walking, Standing, Putting, Delete, Clear, Trace, Prune, DeleteDataRead,
              DeleteDataWrite, DeleteBranchRead, DeleteBranchParent, DeleteBranchWrite
<1>3. /\ h[p].pc \in Standing /\ h[p].op = "put" /\ h[p].todo = <<h[p].cursor>>
      /\ h[p].cursor \in DOMAIN branch /\ SameLinks(h[p].copy, branch[h[p].cursor])
      /\ Head(h[p].todo) = h[p].cursor
  BY <1>1, <1>2 DEF Standing, Putting, HandleOK, WalkOK
<1> DEFINE b == branch[h[p].cursor]
           s == [h[p] EXCEPT !.spare = NewBranch(0)]
           a == [h[p] EXCEPT !.pc = "allocate", !.todo = <<>>]
           c == [s EXCEPT !.pc = "allocate", !.todo = <<>>]
           w == [h[p] EXCEPT !.pc = "wiping", !.spare = b]
<1>4. Wiped(h[p]) = a /\ Wiped(s) = c
  BY <1>1, <1>3 DEF Wiped, Handle
<1>5. /\ \A r \in {a, c, w} : /\ r.copy = h[p].copy /\ r.op = h[p].op /\ r.key = h[p].key
                              /\ r.pos = h[p].pos /\ r.cursor = h[p].cursor
      /\ a.pc = "allocate" /\ c.pc = "allocate"
      /\ w.pc = "wiping" /\ w.spare = b /\ w.todo = h[p].todo
  BY <1>1 DEF Handle
<1> HIDE DEF a, c, w, s
<1>6. WalkOK(branch, a) /\ WalkOK(branch, w) /\ WalkOK(branch, c)
  BY <1>1, <1>3, <1>5, StayWalk DEF Walking, Standing, Putting, SameLinks
<1>7. CASE DeleteDataRead(p)
  <2>1. branch' = branch /\ (h' = [h EXCEPT ![p] = a] \/ h' = [h EXCEPT ![p] = w])
    BY <1>3, <1>4, <1>7 DEF DeleteDataRead, Become, w
  <2> QED
    BY <1>6, <2>1, ReadKeepsWalk
<1>8. CASE DeleteDataWrite(p)
  <2> DEFINE d == [h[p].spare EXCEPT !.data = 0]
  <2>1. SameLinks(d, b) /\ SameLinks(h[p].copy, d)
    BY <1>1, <1>3, <1>8 DEF WalkOK, DeleteDataWrite, SameLinks, Handle, Branch
  <2>2. branch' = [branch EXCEPT ![h[p].cursor] = d] /\ h' = [h EXCEPT ![p] = c]
    BY <1>3, <1>4, <1>8 DEF DeleteDataWrite, Become, s
  <2> HIDE DEF d
  <2>3. DOMAIN branch' = DOMAIN branch /\ \A n \in DOMAIN branch : SameLinks(branch'[n], branch[n])
    BY <1>1, <2>1, <2>2 DEF Inv, TypeOK, SameLinks
  <2>4. Grown(branch, branch')
    BY <2>3 DEF Grown, SameLinks
  <2>5. c \in Handle /\ c.pos <= Len(c.key)
    <3>1. s \in Handle
      BY <1>1, BranchTypes DEF s, Handle
    <3>2. <<>> \in Seq(Nat)
      OBVIOUS
    <3>3. c \in Handle
      BY <3>1, <3>2, PCs DEF c, Handle
    <3> QED
      BY <1>5, <3>3, Placed
  <2>6. WalkOK(branch', c)
    BY <1>3, <1>5, <1>6, <2>3, <2>4, <2>5, WalkKept
  <2> QED
    BY <1>3, <2>1, <2>2, <2>6, WriteKeepsWalk
<1> QED
  BY <1>2, <1>7, <1>8

\* contains and getData follow links.
LEMMA ReadWalks ==
  ASSUME WalkInv, NEW p \in Proc, Read(p)
  PROVE  Grown(branch, branch') /\ \A q \in Proc : WalkOK(branch', h'[q])
<1>1. /\ h[p] \in Handle /\ WalkOK(branch, h[p]) /\ Inv
      /\ HandleOK(branch, blob, size, mutex, p, h[p])
  BY Acting DEF WalkInv
<1>2. CASE ContainsBit(p)
  <2>1. /\ h[p].pc = "seek" /\ h[p].pos < Len(h[p].key) /\ h[p].key \in Key
        /\ h[p].cursor \in DOMAIN branch
        /\ h[p].cursor = NodeIn(branch, Passed(h[p])) /\ (h[p].pos > 0 => h[p].cursor # 0)
        /\ h[p].op \in {"insert", "put", "get"}
    BY <1>1, <1>2, Placed DEF ContainsBit, WalkOK, Walking, HandleOK
  <2> DEFINE i == Link(branch[h[p].cursor], NextBit(h[p]))
  <2>2. i \in Nat
    BY <1>1, <2>1, LinkOK
  <2>3. i # 0 => WalkOK(branch, Moved(h[p], i))
    BY <1>1, <2>1, <2>2, MovedWalk
  <2>4. h' = [h EXCEPT ![p] = Idle(h[p])] \/ (i # 0 /\ h' = [h EXCEPT ![p] = Moved(h[p], i)])
    BY <1>2 DEF ContainsBit, Become
  <2> HIDE DEF i
  <2> QED
    BY <1>1, <1>2, <2>3, <2>4, IdleWalk, ReadKeepsWalk DEF ContainsBit
<1>3. CASE GetBranch(p)
  <2> DEFINE c == [h[p] EXCEPT !.pc = "read", !.copy = branch[h[p].cursor]]
  <2>1. c.pc = "read" /\ c.key = h[p].key /\ c.pos = h[p].pos /\ c.cursor = h[p].cursor
        /\ c.op = h[p].op /\ h[p].pc = "fetch"
    BY <1>1, <1>3 DEF Handle, GetBranch
  <2>2. h' = [h EXCEPT ![p] = Idle(h[p])] \/ h' = [h EXCEPT ![p] = c]
    BY <1>3 DEF GetBranch, Become
  <2> HIDE DEF c
  <2>3. WalkOK(branch, c)
    BY <1>1, <2>1, StayWalk DEF Walking, Standing, Putting
  <2> QED
    BY <1>1, <1>3, <2>2, <2>3, IdleWalk, ReadKeepsWalk DEF GetBranch
<1>4. CASE GetData(p)
  BY <1>1, <1>4, IdleWalk, ReadKeepsWalk DEF GetData, Become
<1> QED
  BY <1>2, <1>3, <1>4 DEF Read

-----------------------------------------------------------------------------
(* Where every handle stands, and what stays in the tree. *)

\* In an empty file every handle is closed.
LEMMA InitWalk == Init => WalkInv
<1> SUFFICES ASSUME Init PROVE WalkInv
  OBVIOUS
<1>1. \A p \in Proc : h[p] \in Handle /\ h[p] = Closed(h[p].left)
  <2>1. \A p \in Proc : h[p] = Closed(MaxOps)
    BY DEF Init
  <2>2. Closed(MaxOps).left = MaxOps
    BY DEF Closed
  <2> QED
    BY <2>1, <2>2, InitInv DEF Inv, TypeOK
<1>2. \A p \in Proc : WalkOK(branch, Closed(h[p].left))
  BY <1>1, IdleWalk
<1> QED
  BY <1>1, <1>2, InitInv DEF WalkInv

\* Every step keeps every handle where its bits lead, and every link.
LEMMA NextWalk ==
  ASSUME NoDelete, PrefixFree
  PROVE  WalkInv /\ [Next]_vars => WalkInv' /\ Grown(branch, branch')
<1> SUFFICES ASSUME WalkInv, [Next]_vars
             PROVE  Grown(branch, branch') /\ \A p \in Proc : WalkOK(branch', h'[p])
  BY NextInv DEF WalkInv
<1>1. CASE UNCHANGED vars
  BY <1>1 DEF vars, WalkInv, Grown
<1>2. CASE \E p \in Proc : Step(p)
  BY <1>2, OpenWalks, WalkWalks, SetDataWalks, DeleteWalks, ReadWalks DEF Step, Work
<1>3. CASE Crash
  <2>1. branch' = branch /\ \A p \in Proc : h'[p] = Closed(h[p].left)
    BY <1>3 DEF Crash
  <2>2. \A p \in Proc : h[p] \in Handle
    BY Acting DEF WalkInv
  <2> QED
    BY <2>1, <2>2, IdleWalk DEF Grown
<1> QED
  BY <1>1, <1>2, <1>3 DEF Next, Finished

\* When nothing is deleted and no key extends another, every handle stands where
\* a walk of its bits from the root leads now, whatever the others have inserted
\* since it passed.
THEOREM CursorCorrect ==
  ASSUME NoDelete, PrefixFree
  PROVE  Spec => []CursorAtKey
<1>1. WalkInv /\ [Next]_vars => WalkInv'
  BY NextWalk
<1>2. WalkInv => CursorAtKey
  BY NodeAtIsNodeIn DEF WalkInv, WalkOK, CursorAtKey, Passed
<1> QED
  BY <1>1, <1>2, InitWalk, PTL DEF Spec

\* A link once stored stays.
THEOREM LinksCorrect ==
  ASSUME NoDelete, PrefixFree
  PROVE  Spec => LinksStay
<1>1. WalkInv /\ [Next]_vars => WalkInv'
  BY NextWalk
<1>2. WalkInv /\ [Next]_vars =>
        [\A n \in DOMAIN branch :
           /\ branch[n].left # 0 => branch'[n].left = branch[n].left
           /\ branch[n].right # 0 => branch'[n].right = branch[n].right]_vars
  BY NextWalk DEF Grown
<1> QED
  BY <1>1, <1>2, InitWalk, PTL DEF Spec, LinksStay

-----------------------------------------------------------------------------
(* The store of KeyValue: what a step of the file does to it. *)

PendingSame(k) == PendingAt(k)' = PendingAt(k)
DataSame(k) == DataAt(k)' = DataAt(k)

Unmoved == \A k \in Key : DataSame(k) /\ PendingSame(k)

Begun(k) ==
  /\ PendingAt(k) = NoValue /\ PendingAt(k)' \in Value
  /\ \A l \in Key : DataSame(l) /\ (l # k => PendingSame(l))

Removed(k) ==
  /\ PendingAt(k) # NoValue /\ DataAt(k)' = NoValue
  /\ \A l \in Key : PendingSame(l) /\ (l # k => DataSame(l))

Committed(k) ==
  /\ PendingAt(k) # NoValue /\ DataAt(k)' = PendingAt(k) /\ PendingAt(k)' = NoValue
  /\ \A l \in Key \ {k} : DataSame(l) /\ PendingSame(l)

Stopped == \A k \in Key : DataSame(k) /\ PendingAt(k)' = NoValue

StoreStep ==
  Unmoved \/ Stopped \/ \E k \in Key : Begun(k) \/ Removed(k) \/ Committed(k)

\* Each of these is a step of the store, or none.
LEMMA StoreStepIsStep ==
  ASSUME StoreStep
  PROVE  [Store!Next]_<<[k \in Key |-> DataAt(k)], [k \in Key |-> PendingAt(k)]>>
<1> DEFINE st == [k \in Key |-> DataAt(k)]
           pd == [k \in Key |-> PendingAt(k)]
           st2 == [k \in Key |-> DataAt(k)']
           pd2 == [k \in Key |-> PendingAt(k)']
<1>1. st' = st2 /\ pd' = pd2
  OBVIOUS
<1>2. \A k \in Key : st[k] = DataAt(k) /\ pd[k] = PendingAt(k)
  OBVIOUS
<1>3. CASE Unmoved
  <2>1. st2 = st /\ pd2 = pd
    BY <1>3 DEF Unmoved, DataSame, PendingSame
  <2> QED
    BY <1>1, <2>1
<1>4. CASE Stopped
  <2>1. st2 = st /\ pd2 = [k \in Key |-> NoValue]
    BY <1>4 DEF Stopped, DataSame
  <2>2. Store!Crash
    BY <1>1, <2>1 DEF Store!Crash
  <2> QED
    BY <2>2 DEF Store!Next
<1>5. ASSUME NEW k \in Key, Begun(k) PROVE Store!Next
  <2>1. st2 = st /\ pd2 = [pd EXCEPT ![k] = PendingAt(k)']
    BY <1>5 DEF Begun, DataSame, PendingSame
  <2>2. Store!Begin(k, PendingAt(k)')
    BY <1>1, <1>2, <1>5, <2>1 DEF Begun, Store!Begin
  <2> QED
    BY <1>5, <2>2 DEF Begun, Store!Next
<1>6. ASSUME NEW k \in Key, Removed(k) PROVE Store!Next
  <2>1. st2 = [st EXCEPT ![k] = NoValue] /\ pd2 = pd
    BY <1>6 DEF Removed, DataSame, PendingSame
  <2>2. Store!Remove(k)
    BY <1>1, <1>2, <1>6, <2>1 DEF Removed, Store!Remove
  <2> QED
    BY <2>2 DEF Store!Next
<1>7. ASSUME NEW k \in Key, Committed(k) PROVE Store!Next
  <2>1. st2 = [st EXCEPT ![k] = pd[k]] /\ pd2 = [pd EXCEPT ![k] = NoValue]
    BY <1>7 DEF Committed, DataSame, PendingSame
  <2>2. Store!Commit(k)
    BY <1>1, <1>2, <1>7, <2>1 DEF Committed, Store!Commit
  <2> QED
    BY <2>2 DEF Store!Next
<1> QED
  BY <1>3, <1>4, <1>5, <1>6, <1>7 DEF StoreStep

-----------------------------------------------------------------------------
(* What is pending. *)

\* Two puts in progress under one key are one.
LEMMA OnePut ==
  ASSUME StoreInv, NEW p \in Proc, NEW q \in Proc, h[p].locked, h[q].locked,
         h[p].key = h[q].key
  PROVE  p = q
<1>1. h[p].pc \in Standing /\ h[q].pc \in Standing
  BY DEF StoreInv, PutOK, Standing
<1> QED
  BY <1>1, SameKey DEF StoreInv, OneWriter

\* A step that neither begins nor ends a put under key k.
LEMMA PendingKept ==
  ASSUME Inv, NEW p \in Proc, NEW r, h' = [h EXCEPT ![p] = r], NEW k,
         r.locked /\ r.key = k <=> h[p].locked /\ h[p].key = k,
         r.locked /\ r.key = k => r.val = h[p].val
  PROVE  PendingSame(k)
<1>1. \A q \in Proc : h'[q] = IF q = p THEN r ELSE h[q]
  BY DEF Inv, TypeOK
<1> DEFINE W == {q \in Proc : h[q].locked /\ h[q].key = k}
           X == {q \in Proc : h'[q].locked /\ h'[q].key = k}
           c == CHOOSE q \in W : TRUE
<1>2. X = W
  BY <1>1
<1>3. \A q \in W : h'[q].val = h[q].val
  BY <1>1
<1>4. W # {} => c \in W
  OBVIOUS
<1>5. PendingAt(k) = IF W = {} THEN NoValue ELSE h[c].val
  BY DEF PendingAt
<1>6. PendingAt(k)' = IF X = {} THEN NoValue ELSE h'[CHOOSE q \in X : TRUE].val
  BY DEF PendingAt
<1>7. (CHOOSE q \in X : TRUE) = c
  BY <1>2, Zenon
<1> HIDE DEF W, X, c
<1>8. PendingAt(k)' = PendingAt(k)
  BY <1>2, <1>3, <1>4, <1>5, <1>6, <1>7
<1> QED
  BY <1>8 DEF PendingSame

\* What is pending under the key of a put that holds its lock is its value.
LEMMA PendingIs ==
  ASSUME StoreInv, NEW p \in Proc, h[p].locked
  PROVE  PendingAt(h[p].key) = h[p].val
<1> DEFINE W == {q \in Proc : h[q].locked /\ h[q].key = h[p].key}
<1>1. \A q \in W : q = p
  BY OnePut
<1>2. p \in W
  OBVIOUS
<1>3. (CHOOSE q \in W : TRUE) \in W
  BY <1>2
<1>4. PendingAt(h[p].key) = IF W = {} THEN NoValue ELSE h[CHOOSE q \in W : TRUE].val
  BY DEF PendingAt
<1> HIDE DEF W
<1> QED
  BY <1>1, <1>2, <1>3, <1>4

\* A put that takes the lock of its key, which nobody holds, is the one pending.
LEMMA PendingBegins ==
  ASSUME Inv, NEW p \in Proc, NEW r, h' = [h EXCEPT ![p] = r], ~ h[p].locked, r.locked,
         \A q \in Proc \ {p} : h[q].locked => h[q].key # r.key
  PROVE  /\ PendingAt(r.key) = NoValue /\ PendingAt(r.key)' = r.val
         /\ \A k : k # r.key => PendingSame(k)
<1>1. \A q \in Proc : h'[q] = IF q = p THEN r ELSE h[q]
  BY DEF Inv, TypeOK
<1>2. PendingAt(r.key) = NoValue
  BY DEF PendingAt
<1>3. PendingAt(r.key)' = r.val
  <2> DEFINE X == {q \in Proc : h'[q].locked /\ h'[q].key = r.key}
  <2>1. X = {p}
    BY <1>1
  <2>2. PendingAt(r.key)' = IF X = {} THEN NoValue ELSE h'[CHOOSE q \in X : TRUE].val
    BY DEF PendingAt
  <2> HIDE DEF X
  <2>3. (CHOOSE q \in X : TRUE) = p
    BY <2>1
  <2> QED
    BY <1>1, <2>1, <2>2, <2>3
<1>4. \A k : k # r.key => PendingSame(k)
  BY PendingKept
<1> QED
  BY <1>2, <1>3, <1>4

\* A put that gives its lock back is no longer pending.
LEMMA PendingEnds ==
  ASSUME StoreInv, NEW p \in Proc, NEW r, h' = [h EXCEPT ![p] = r], h[p].locked, ~ r.locked,
         NEW k, k = h[p].key
  PROVE  /\ PendingAt(k) = h[p].val /\ PendingAt(k)' = NoValue
         /\ \A l : l # k => PendingSame(l)
<1>1. \A q \in Proc : h'[q] = IF q = p THEN r ELSE h[q]
  BY DEF StoreInv, WalkInv, Inv, TypeOK
<1>2. \A q \in Proc : h[q].locked /\ h[q].key = k => q = p
  BY OnePut
<1>3. {q \in Proc : h'[q].locked /\ h'[q].key = k} = {}
  BY <1>1, <1>2
<1>4. PendingAt(k)' = NoValue
  BY <1>3 DEF PendingAt
<1>5. \A l : l # k => PendingSame(l)
  BY PendingKept DEF StoreInv, WalkInv
<1> QED
  BY <1>4, <1>5, PendingIs

-----------------------------------------------------------------------------
(* What is stored. *)

DataIn(br, bl, k) ==
  LET n == NodeIn(br, k) IN
    IF n = 0 THEN NoValue
    ELSE IF br[n].data = 0 THEN NoValue
    ELSE bl[br[n].data].body

\* DataAt, of any file.
LEMMA DataAtIsDataIn ==
  \A k : DataAt(k) = DataIn(branch, blob, k) /\ DataAt(k)' = DataIn(branch', blob', k)
BY NodeAtIsNodeIn DEF DataAt, DataIn

\* A step that writes neither branch nor data.
LEMMA DataUnwritten ==
  ASSUME branch' = branch, blob' = blob
  PROVE  \A k : DataSame(k)
BY DataAtIsDataIn DEF DataSame

\* The node of a key is a branch of the file, and of that key alone.
LEMMA KeyNode ==
  ASSUME WellFormed, NEW k \in Key, NodeIn(branch, k) # 0
  PROVE  /\ NodeIn(branch, k) \in DOMAIN branch
         /\ \A l \in Bits : NodeIn(branch, l) = NodeIn(branch, k) => l = k
<1>1. k \in Bits
  BY KeyAssumption DEF Bits
<1> QED
  BY <1>1, WalkBack, WalkInjective DEF ChildOf

\* A handle that stands at its key stands on the node of that key.
LEMMA StandsAtKey ==
  ASSUME WalkInv, NEW p \in Proc, h[p].pc \in Standing
  PROVE  /\ h[p].key \in Key /\ h[p].cursor = NodeIn(branch, h[p].key) /\ h[p].cursor # 0
         /\ h[p].cursor \in DOMAIN branch
<1>1. h[p] \in Handle /\ WalkOK(branch, h[p]) /\ WellFormed
  BY Acting DEF WalkInv, Inv
<1>2. /\ h[p].pos \in Nat /\ h[p].pos = Len(h[p].key) /\ h[p].key \in Key
  BY <1>1, Placed DEF WalkOK
<1>3. h[p].key \in Bits /\ h[p].cursor = NodeIn(branch, h[p].key) /\ h[p].cursor # 0
  BY <1>1, <1>2, PassedBits, KeyAssumption DEF WalkOK
<1> QED
  BY <1>1, <1>2, <1>3, KeyNode

\* A step that appends a branch with nothing in it, and writes no data.
LEMMA DataAppended ==
  ASSUME Inv, NEW n, n \notin DOMAIN branch, NEW m,
         branch' = Written(branch, n, NewBranch(m)), blob' = blob
  PROVE  \A k \in Key : DataSame(k)
<1>1. /\ \A i \in DOMAIN branch : i \in DOMAIN branch' /\ branch'[i] = branch[i]
      /\ \A i \in DOMAIN branch' \ DOMAIN branch : branch'[i].left = 0 /\ branch'[i].right = 0
  BY DEF Written, NewBranch
<1>2. \A k \in Bits : NodeIn(branch', k) = NodeIn(branch, k)
  BY <1>1, WalkSame DEF SameLinks
<1>3. ASSUME NEW k \in Key PROVE DataIn(branch', blob', k) = DataIn(branch, blob, k)
  <2>1. NodeIn(branch', k) = NodeIn(branch, k)
    BY <1>2, KeyAssumption DEF Bits
  <2>2. NodeIn(branch, k) # 0 => NodeIn(branch, k) \in DOMAIN branch
    BY KeyNode DEF Inv
  <2> QED
    BY <1>1, <2>1, <2>2 DEF DataIn
<1> QED
  BY <1>3, DataAtIsDataIn DEF DataSame

\* A step that writes back, at the node of key k, a branch with the links it
\* has, and no data.
LEMMA DataWritten ==
  ASSUME Inv, NEW k \in Key, NEW n, n = NodeIn(branch, k), n # 0, NEW b,
         branch' = [branch EXCEPT ![n] = b], SameLinks(b, branch[n]), blob' = blob
  PROVE  /\ DataAt(k)' = IF b.data = 0 THEN NoValue ELSE blob[b.data].body
         /\ \A l \in Key : l # k => DataSame(l)
<1>1. /\ n \in DOMAIN branch
      /\ \A l \in Key : l # k => NodeIn(branch, l) # n
      /\ \A l \in Key : NodeIn(branch, l) # 0 => NodeIn(branch, l) \in DOMAIN branch
  <2>1. \A l \in Key : l \in Bits
    BY KeyAssumption DEF Bits
  <2> QED
    BY <2>1, KeyNode DEF Inv
<1>2. /\ DOMAIN branch' = DOMAIN branch
      /\ \A i \in DOMAIN branch : branch'[i] = IF i = n THEN b ELSE branch[i]
  BY DEF Inv, TypeOK
<1>3. \A i \in DOMAIN branch : SameLinks(branch'[i], branch[i])
  BY <1>2 DEF SameLinks
<1>4. \A l \in Bits : NodeIn(branch', l) = NodeIn(branch, l)
  BY <1>2, <1>3, WalkSame
<1>5. \A l \in Key : NodeIn(branch', l) = NodeIn(branch, l)
  BY <1>4, KeyAssumption DEF Bits
<1>6. DataIn(branch', blob', k) = IF b.data = 0 THEN NoValue ELSE blob[b.data].body
  BY <1>1, <1>2, <1>5 DEF DataIn
<1>7. \A l \in Key : l # k => DataIn(branch', blob', l) = DataIn(branch, blob, l)
  BY <1>1, <1>2, <1>5 DEF DataIn
<1> QED
  BY <1>6, <1>7, DataAtIsDataIn DEF DataSame

\* A step that writes data that nothing but a branch leads to, and no branch.
LEMMA DataRewritten ==
  ASSUME Inv, Private, NEW k \in Key, NEW n, n = NodeIn(branch, k), NEW d, d # 0, Leads(n, d),
         branch' = branch, NEW v, blob' = [blob EXCEPT ![d] = v]
  PROVE  /\ n # 0 /\ branch[n].data = d => DataAt(k)' = v.body
         /\ n # 0 /\ branch[n].data # d => DataSame(k)
         /\ \A l \in Key : l # k => DataSame(l)
<1>1. d \in DOMAIN blob /\ \A e \in DOMAIN blob : blob'[e] = IF e = d THEN v ELSE blob[e]
  BY LeadsToData DEF Inv, TypeOK
<1>2. n # 0 /\ branch[n].data = d => DataIn(branch', blob', k) = v.body
  BY <1>1 DEF DataIn
<1>3. \A l \in Key : NodeIn(branch, l) # 0 =>
        /\ NodeIn(branch, l) \in DOMAIN branch
        /\ l # k => NodeIn(branch, l) # n
        /\ branch[NodeIn(branch, l)].data # 0 => branch[NodeIn(branch, l)].data \in DOMAIN blob
  <2>1. \A l \in Key : l \in Bits
    BY KeyAssumption DEF Bits
  <2> QED
    BY <2>1, KeyNode DEF Inv, WellFormed, SoundAt
<1>4. \A l \in Key : NodeIn(branch, l) # 0 /\ l # k => branch[NodeIn(branch, l)].data # d
  BY <1>3 DEF Private, Leads
<1>5. ASSUME NEW l \in Key, NodeIn(branch, l) # 0 => branch[NodeIn(branch, l)].data # d
      PROVE  DataIn(branch', blob', l) = DataIn(branch, blob, l)
  BY <1>1, <1>3, <1>5 DEF DataIn
<1> QED
  BY <1>2, <1>4, <1>5, DataAtIsDataIn DEF DataSame

\* A step that appends data.
LEMMA DataFresh ==
  ASSUME Inv, NEW v, branch' = branch, blob' = Written(blob, size, v)
  PROVE  \A k \in Key : DataSame(k)
<1>1. \A d \in DOMAIN blob : blob'[d] = blob[d]
  BY DEF Inv, TypeOK, WellFormed, Written
<1>2. \A l \in Key : NodeIn(branch, l) # 0 =>
        /\ NodeIn(branch, l) \in DOMAIN branch
        /\ branch[NodeIn(branch, l)].data # 0 => branch[NodeIn(branch, l)].data \in DOMAIN blob
  BY KeyNode DEF Inv, WellFormed, SoundAt
<1>3. \A l \in Key : DataIn(branch', blob', l) = DataIn(branch, blob, l)
  BY <1>1, <1>2 DEF DataIn
<1> QED
  BY <1>3, DataAtIsDataIn DEF DataSame

\* The branch a handle is about to link to is reached by no walk.
LEMMA Unreached ==
  ASSUME WalkInv, NEW p \in Proc, h[p].pc = "link"
  PROVE  \A k \in Bits : NodeIn(branch, k) # h[p].fresh
<1>1. /\ HandleOK(branch, blob, size, mutex, p, h[p]) /\ WalkOK(branch, h[p])
      /\ WellFormed /\ h[p] \in Handle /\ DOMAIN branch \subseteq Nat
  BY Acting DEF WalkInv, Inv, TypeOK
<1>2. /\ ChildOf(branch, h[p].cursor, h[p].fresh) /\ h[p].fresh # 0
      /\ h[p].fresh \notin {branch[h[p].cursor].left, branch[h[p].cursor].right}
  BY <1>1 DEF HandleOK, WalkOK, SameLinks, ChildOf, Handle
<1>3. SUFFICES ASSUME NEW k \in Bits, NodeIn(branch, k) = h[p].fresh PROVE FALSE
  OBVIOUS
<1>4. PICK l \in Bits, b \in {0, 1} :
        /\ h[p].fresh = Link(branch[NodeIn(branch, l)], b)
        /\ ChildOf(branch, NodeIn(branch, l), h[p].fresh)
  BY <1>1, <1>2, <1>3, WalkBack
<1>5. NodeIn(branch, l) = h[p].cursor
  BY <1>2, <1>4 DEF ChildOf
<1> QED
  BY <1>2, <1>4, <1>5 DEF Link

\* A new link to an empty branch adds no data and takes none away.
LEMMA DataLinked ==
  ASSUME PrefixFree, StoreInv, NEW p \in Proc, SetLink(p)
  PROVE  \A k \in Key : DataSame(k)
<1> DEFINE c == h[p].cursor
           f == h[p].fresh
           bit == NextBit(h[p])
           b == WithLink(h[p].copy, bit, f)
<1>1. /\ h[p] \in Handle /\ WalkOK(branch, h[p]) /\ Inv /\ WalkInv /\ h[p].pc = "link"
      /\ HandleOK(branch, blob, size, mutex, p, h[p]) /\ PutOK(branch, blob, h[p])
  BY Acting DEF StoreInv, WalkInv, SetLink
<1>2. /\ h[p].pos < Len(h[p].key) /\ h[p].pos \in Nat /\ h[p].key \in Key
      /\ c \in DOMAIN branch /\ c = NodeIn(branch, Passed(h[p])) /\ bit \in {0, 1}
      /\ SameLinks(h[p].copy, branch[c]) /\ Link(branch[c], bit) = 0
      /\ f \in DOMAIN branch /\ f \in Nat /\ f # 0 /\ f # c /\ branch[f] = NewBranch(c)
      /\ h[p].copy \in Branch /\ Passed(h[p]) \in Bits
  <2>1. h[p].pc \in Walking
    BY <1>1 DEF Walking
  <2>2. /\ h[p].pos < Len(h[p].key) /\ h[p].pos \in Nat /\ h[p].key \in Key
        /\ h[p].pos <= Len(h[p].key)
        /\ c \in DOMAIN branch /\ c = NodeIn(branch, Passed(h[p]))
        /\ SameLinks(h[p].copy, branch[c]) /\ Link(branch[c], bit) = 0
    BY <1>1, <2>1, Placed DEF WalkOK, HandleOK
  <2>3. f \in DOMAIN branch /\ f \in Nat /\ f # 0 /\ f # c /\ h[p].copy \in Branch
    BY <1>1, <2>2 DEF HandleOK, ChildOf, Handle
  <2>4. branch[f] = NewBranch(c)
    BY <1>1 DEF PutOK
  <2> QED
    BY <1>1, <2>2, <2>3, <2>4, PassedBits
<1>3. branch' = [branch EXCEPT ![c] = b] /\ blob' = blob
  BY DEF SetLink
<1> HIDE DEF c, f, bit
<1>4. /\ \A x \in {0, 1} : x # bit => Link(b, x) = Link(branch[c], x)
      /\ Link(b, bit) = f
      /\ branch[c].left # 0 => b.left = branch[c].left
      /\ branch[c].right # 0 => b.right = branch[c].right
  BY <1>2 DEF WithLink, Link, SameLinks, Branch
<1> HIDE DEF b
<1>5. /\ DOMAIN branch' = DOMAIN branch
      /\ \A n \in DOMAIN branch : branch'[n] = IF n = c THEN b ELSE branch[n]
  BY <1>1, <1>3 DEF Inv, TypeOK
<1>6. Grown(branch, branch')
  BY <1>4, <1>5 DEF Grown
<1>7. /\ \A n \in DOMAIN branch \ {c} : SameLinks(branch'[n], branch[n])
      /\ branch'[c] = b /\ branch'[f] = NewBranch(c)
  BY <1>2, <1>5 DEF SameLinks
<1>8. \A k \in Bits : /\ NodeIn(branch', k) \in {NodeIn(branch, k), f}
                      /\ NodeIn(branch, k) # 0 => NodeIn(branch', k) = NodeIn(branch, k)
  <2>1. branch'[f].left = 0 /\ branch'[f].right = 0
    BY <1>7 DEF NewBranch
  <2>2. \A k \in Bits : NodeIn(branch', k) \in {NodeIn(branch, k), f}
    BY <1>2, <1>4, <1>5, <1>6, <1>7, <2>1, WalkLinked
  <2> QED
    BY <1>6, <2>2, WalkStays
<1>9. ASSUME NEW k \in Key PROVE DataIn(branch', blob', k) = DataIn(branch, blob, k)
  <2>1. k \in Bits
    BY KeyAssumption DEF Bits
  <2>2. CASE NodeIn(branch, k) # 0
    <3>1. NodeIn(branch', k) = NodeIn(branch, k) /\ NodeIn(branch, k) \in DOMAIN branch
      BY <1>1, <1>8, <2>1, <2>2, KeyNode DEF Inv
    <3>2. NodeIn(branch, k) # c
      <4>1. SUFFICES ASSUME NodeIn(branch, k) = c PROVE FALSE
        OBVIOUS
      <4>2. k = Passed(h[p])
        BY <1>1, <1>2, <2>1, <2>2, <4>1, KeyNode DEF Inv
      <4>3. h[p].pos \in 0 .. Len(h[p].key)
        BY <1>1, <1>2 DEF Handle
      <4>4. k = h[p].key
        BY <1>2, <4>2, <4>3 DEF PrefixFree, Passed
      <4>5. Len(Passed(h[p])) = h[p].pos
        BY <1>1, <1>2, Placed, PassedBits
      <4> QED
        BY <1>2, <4>2, <4>4, <4>5
    <3> QED
      BY <1>3, <1>5, <3>1, <3>2 DEF DataIn
  <2>3. CASE NodeIn(branch, k) = 0
    <3>1. NodeIn(branch', k) \in {0, f} /\ branch'[f].data = 0
      BY <1>7, <1>8, <2>1, <2>3 DEF NewBranch
    <3> QED
      BY <2>3, <3>1 DEF DataIn
  <2> QED
    BY <2>2, <2>3
<1> QED
  BY <1>9, DataAtIsDataIn DEF DataSame

-----------------------------------------------------------------------------
(* What puts hold on to. *)

\* A step of another handle that writes nothing of this one's.
LEMMA PutKept ==
  ASSUME NEW br, NEW bl, NEW br2, NEW bl2, NEW r, PutOK(br, bl, r),
         r.pc \in Putting => br2[r.cursor].data = br[r.cursor].data,
         r.pc = "store" => bl2[r.fresh].body = bl[r.fresh].body,
         r.pc = "link" => br2[r.fresh] = br[r.fresh]
  PROVE  PutOK(br2, bl2, r)
BY DEF PutOK, Putting

\* A handle that puts nothing.
LEMMA IdlePut ==
  ASSUME NEW br, NEW bl, NEW r \in Handle
  PROVE  PutOK(br, bl, Idle(r)) /\ ~ Idle(r).locked
         /\ PutOK(br, bl, Closed(r.left)) /\ ~ Closed(r.left).locked
BY DEF PutOK, Putting, Idle, Closed

\* Nor does one that walks.
LEMMA MovedPut ==
  ASSUME NEW br, NEW bl, NEW r \in Handle, r.pc \in {"walk", "seek"}, ~ r.locked,
         r.op \in {"insert", "put", "get"}, NEW i
  PROVE  PutOK(br, bl, Moved(r, i)) /\ ~ Moved(r, i).locked
<1> DEFINE moved == [r EXCEPT !.cursor = i, !.pos = @ + 1]
           there == [r EXCEPT !.cursor = i, !.pos = @ + 1, !.pc = AtKey(r.op)]
<1>1. moved.pc = r.pc /\ moved.locked = r.locked /\ there.locked = r.locked
      /\ there.pc = AtKey(r.op)
  BY DEF Handle
<1>2. PutOK(br, bl, moved) /\ ~ moved.locked
  BY <1>1 DEF PutOK, Putting
<1>3. r.op # "insert" => PutOK(br, bl, there) /\ ~ there.locked
  <2>1. r.op # "insert" => AtKey(r.op) \in {"load", "fetch"}
    BY DEF AtKey
  <2> QED
    BY <1>1, <2>1 DEF PutOK, Putting
<1> QED
  BY <1>2, <1>3, IdlePut DEF Moved

\* A step shows of its own handle that it is in order, and that it takes no lock
\* another holds, and of the others that it writes nothing of theirs.
LEMMA StepKeepsPut ==
  ASSUME StoreInv, NEW p \in Proc, NEW r, h' = [h EXCEPT ![p] = r],
         PutOK(branch', blob', r),
         r.locked => \/ h[p].locked /\ r.cursor = h[p].cursor
                     \/ \A q \in Proc \ {p} : h[q].locked => h[q].cursor # r.cursor,
         \A q \in Proc \ {p} :
           /\ h[q].pc \in Putting => branch'[h[q].cursor].data = branch[h[q].cursor].data
           /\ h[q].pc = "store" => blob'[h[q].fresh].body = blob[h[q].fresh].body
           /\ h[q].pc = "link" => branch'[h[q].fresh] = branch[h[q].fresh]
  PROVE  (\A q \in Proc : PutOK(branch', blob', h'[q])) /\ OneWriter'
<1>1. \A q \in Proc : h'[q] = IF q = p THEN r ELSE h[q]
  BY DEF StoreInv, WalkInv, Inv, TypeOK
<1>2. ASSUME NEW q \in Proc PROVE PutOK(branch', blob', h'[q])
  BY <1>1, PutKept DEF StoreInv
<1>3. OneWriter'
  BY <1>1 DEF OneWriter, StoreInv
<1> QED
  BY <1>2, <1>3

\* A step that writes neither branch nor data.
LEMMA ReadKeepsPut ==
  ASSUME StoreInv, NEW p \in Proc, NEW r, h' = [h EXCEPT ![p] = r],
         branch' = branch, blob' = blob, PutOK(branch, blob, r),
         r.locked => \/ h[p].locked /\ r.cursor = h[p].cursor
                     \/ \A q \in Proc \ {p} : h[q].locked => h[q].cursor # r.cursor
  PROVE  (\A q \in Proc : PutOK(branch', blob', h'[q])) /\ OneWriter'
BY StepKeepsPut

\* A step of a handle without a lock that writes neither branch nor data, and
\* takes no lock, moves nothing in the store.
LEMMA ReadMovesNothing ==
  ASSUME StoreInv, NEW p \in Proc, NEW r, h' = [h EXCEPT ![p] = r],
         branch' = branch, blob' = blob, PutOK(branch, blob, r), ~ r.locked, ~ h[p].locked
  PROVE  (\A q \in Proc : PutOK(branch', blob', h'[q])) /\ OneWriter' /\ StoreStep
<1>1. \A k : PendingSame(k)
  BY PendingKept DEF StoreInv, WalkInv
<1> QED
  BY <1>1, ReadKeepsPut, DataUnwritten DEF StoreStep, Unmoved

-----------------------------------------------------------------------------
(* The actions, and the store. *)

\* What StoreInv says of the acting handle.
LEMMA ActingPut ==
  ASSUME StoreInv, NEW p \in Proc
  PROVE  /\ h[p] \in Handle /\ WalkOK(branch, h[p]) /\ PutOK(branch, blob, h[p])
         /\ HandleOK(branch, blob, size, mutex, p, h[p])
         /\ Inv /\ WalkInv /\ Private /\ WellFormed
         /\ DOMAIN branch \subseteq Nat /\ branch \in [DOMAIN branch -> Branch]
  BY Acting DEF StoreInv, WalkInv, Inv, TypeOK

\* Opening and starting move nothing.
LEMMA OpenStore ==
  ASSUME NoDelete, StoreInv, NEW p \in Proc, Open(p) \/ Create(p) \/ Start(p)
  PROVE  (\A q \in Proc : PutOK(branch', blob', h'[q])) /\ OneWriter' /\ StoreStep
<1>1. ~ h[p].locked /\ h[p] \in Handle
  BY ActingPut DEF PutOK, Putting, Open, Create, Start
<1>2. CASE Open(p)
  <2> DEFINE c == [h[p] EXCEPT !.pc = "create"]
  <2>1. PutOK(branch, blob, c) /\ ~ c.locked
    BY <1>1 DEF PutOK, Putting, Handle
  <2>2. h' = [h EXCEPT ![p] = c] \/ h' = [h EXCEPT ![p] = Idle(h[p])]
    BY <1>2 DEF Open, Become
  <2> HIDE DEF c
  <2> QED
    BY <1>1, <1>2, <2>1, <2>2, IdlePut, ReadMovesNothing DEF Open
<1>3. CASE Create(p)
  <2>1. h' = [h EXCEPT ![p] = Idle(h[p])]
    BY <1>3 DEF Create, Become
  <2>2. CASE size = 0
    <3>1. 0 \notin DOMAIN branch /\ DOMAIN branch = {}
      <4>1. DOMAIN branch \cup DOMAIN blob = 0 .. (size - 1)
        BY ActingPut DEF WellFormed
      <4>2. 0 .. (size - 1) = {}
        BY <2>2
      <4> QED
        BY <4>1, <4>2, Zenon
    <3>2. branch' = Written(branch, 0, NewBranch(0)) /\ blob' = blob
      BY <1>3, <2>2 DEF Create
    <3>3. \A k \in Key : DataSame(k)
      BY <3>1, <3>2, DataAppended, ActingPut
    <3>4. \A q \in Proc : h[q].pc \notin Putting \cup {"link"}
      BY <3>1, ActingPut DEF HandleOK, Putting
    <3>5. (\A q \in Proc : PutOK(branch', blob', h'[q])) /\ OneWriter'
      BY <1>1, <2>1, <3>4, IdlePut, StepKeepsPut DEF Putting
    <3>6. \A k : PendingSame(k)
      BY <1>1, <2>1, IdlePut, PendingKept, ActingPut
    <3> QED
      BY <3>3, <3>5, <3>6 DEF StoreStep, Unmoved
  <2>3. CASE size # 0
    BY <1>1, <1>3, <2>1, <2>3, IdlePut, ReadMovesNothing DEF Create
  <2> QED
    BY <2>2, <2>3
<1>4. CASE Start(p)
  <2>1. PICK o, k, v : h' = [h EXCEPT ![p] =
          [h[p] EXCEPT !.pc = IF o \in {"get", "remove"} THEN "seek" ELSE "walk",
                       !.op = o, !.key = k, !.val = v, !.left = @ - 1]]
    BY <1>4 DEF Start, Become
  <2> DEFINE r == [h[p] EXCEPT !.pc = IF o \in {"get", "remove"} THEN "seek" ELSE "walk",
                       !.op = o, !.key = k, !.val = v, !.left = @ - 1]
  <2>2. r.pc \in {"seek", "walk"} /\ ~ r.locked
    BY <1>1 DEF Handle
  <2>3. h' = [h EXCEPT ![p] = r] /\ branch' = branch /\ blob' = blob
    BY <1>4, <2>1 DEF Start
  <2> HIDE DEF r
  <2>4. PutOK(branch, blob, r)
    BY <2>2 DEF PutOK, Putting
  <2> QED
    BY <1>1, <2>2, <2>3, <2>4, ReadMovesNothing
<1> QED
  BY <1>2, <1>3, <1>4

\* Nor do goLeft and goRight.
LEMMA WalkStore ==
  ASSUME PrefixFree, StoreInv, NEW p \in Proc, Walk(p)
  PROVE  (\A q \in Proc : PutOK(branch', blob', h'[q])) /\ OneWriter' /\ StoreStep
<1> DEFINE s == [h[p] EXCEPT !.pc = "walk"]
           t == [h[p] EXCEPT !.pc = "walk", !.copy = NewBranch(0), !.fresh = 0]
<1>1. /\ ~ h[p].locked /\ h[p] \in Handle /\ h[p].op \in {"insert", "put", "get"}
      /\ HandleOK(branch, blob, size, mutex, p, h[p]) /\ PutOK(branch, blob, h[p])
  BY ActingPut DEF PutOK, Putting, WalkOK, Walk, Go, Claim, GetNextIndex, SetLink
<1>2. /\ s \in Handle /\ s.pc = "walk" /\ ~ s.locked /\ s.op = h[p].op
      /\ t \in Handle /\ t.pc = "walk" /\ ~ t.locked /\ t.op = h[p].op
  BY <1>1, PCs, BranchTypes DEF Handle
<1> HIDE DEF s, t
<1>3. CASE Go(p)
  <2> DEFINE c == [h[p] EXCEPT !.pc = "claim"]
  <2>1. PutOK(branch, blob, c) /\ ~ c.locked
    BY <1>1 DEF PutOK, Putting, Handle
  <2>2. \/ h' = [h EXCEPT ![p] = c]
        \/ \E i : h' = [h EXCEPT ![p] = Moved(h[p], i)]
    BY <1>3 DEF Go, Become
  <2> HIDE DEF c
  <2>3. PICK r : h' = [h EXCEPT ![p] = r] /\ PutOK(branch, blob, r) /\ ~ r.locked
    BY <1>1, <1>3, <2>1, <2>2, MovedPut DEF Go
  <2> QED
    BY <1>1, <1>3, <2>3, ReadMovesNothing DEF Go
<1>4. CASE Claim(p)
  <2> DEFINE c == [h[p] EXCEPT !.pc = "append", !.copy = branch[h[p].cursor], !.fresh = size]
  <2>1. PutOK(branch, blob, c) /\ ~ c.locked
    BY <1>1 DEF PutOK, Putting, Handle
  <2>2. \/ h' = [h EXCEPT ![p] = c]
        \/ \E i : h' = [h EXCEPT ![p] = Moved(s, i)]
    BY <1>4 DEF Claim, Become, s
  <2> HIDE DEF c
  <2>3. PICK r : h' = [h EXCEPT ![p] = r] /\ PutOK(branch, blob, r) /\ ~ r.locked
    BY <1>1, <1>2, <2>1, <2>2, MovedPut
  <2> QED
    BY <1>1, <1>4, <2>3, ReadMovesNothing DEF Claim
<1>5. CASE GetNextIndex(p)
  <2> DEFINE c == [h[p] EXCEPT !.pc = "link"]
  <2>1. c.pc = "link" /\ ~ c.locked /\ c.fresh = h[p].fresh /\ c.cursor = h[p].cursor
    BY <1>1 DEF Handle
  <2>2. /\ size \notin DOMAIN branch /\ h[p].fresh = size /\ blob' = blob
        /\ branch' = Written(branch, size, NewBranch(h[p].cursor))
    BY <1>1, <1>5, ActingPut DEF WellFormed, Inv, TypeOK, HandleOK, GetNextIndex
  <2>3. h' = [h EXCEPT ![p] = c]
    BY <1>5 DEF GetNextIndex, Become
  <2> HIDE DEF c
  <2>4. /\ branch'[size] = NewBranch(h[p].cursor)
        /\ \A n \in DOMAIN branch : branch'[n] = branch[n]
    BY <2>2 DEF Written
  <2>5. PutOK(branch', blob', c)
    BY <2>1, <2>2, <2>4 DEF PutOK, Putting
  <2>6. \A q \in Proc : h[q].pc \in Putting => h[q].cursor \in DOMAIN branch
    BY ActingPut DEF HandleOK, Putting
  <2>7. \A q \in Proc : h[q].pc = "link" => h[q].fresh \in DOMAIN branch
    BY ActingPut DEF HandleOK, ChildOf
  <2>8. (\A q \in Proc : PutOK(branch', blob', h'[q])) /\ OneWriter'
    BY <2>1, <2>2, <2>3, <2>4, <2>5, <2>6, <2>7, StepKeepsPut
  <2>9. \A k : PendingSame(k)
    BY <1>1, <2>1, <2>3, PendingKept, ActingPut
  <2>10. \A k \in Key : DataSame(k)
    BY <2>2, DataAppended, ActingPut
  <2> QED
    BY <2>8, <2>9, <2>10 DEF StoreStep, Unmoved
<1>6. CASE SetLink(p)
  <2> DEFINE b == WithLink(h[p].copy, NextBit(h[p]), h[p].fresh)
  <2>1. /\ h[p].pc = "link" /\ branch' = [branch EXCEPT ![h[p].cursor] = b] /\ blob' = blob
        /\ h' = [h EXCEPT ![p] = Moved(t, h[p].fresh)] /\ mutex = p
    BY <1>1, <1>6 DEF SetLink, Become, t, HandleOK, Holding
  <2> HIDE DEF b
  <2>2. \A n \in DOMAIN branch \ {h[p].cursor} : branch'[n] = branch[n]
    BY <2>1, ActingPut DEF Inv, TypeOK
  <2>3. ASSUME NEW q \in Proc \ {p}
        PROVE  /\ h[q].pc \in Putting => branch'[h[q].cursor] = branch[h[q].cursor]
               /\ h[q].pc # "link"
    <3>1. HandleOK(branch, blob, size, mutex, q, h[q])
      BY ActingPut
    <3>2. h[q].pc # "link"
      BY <2>1, <3>1 DEF HandleOK, Holding
    <3>3. h[q].pc \in Putting => h[q].cursor # h[p].cursor /\ h[q].cursor \in DOMAIN branch
      BY <2>1, <3>1, Apart, ActingPut DEF HandleOK, Putting, Standing, Walking
    <3> QED
      BY <2>2, <3>2, <3>3
  <2>4. PutOK(branch', blob', Moved(t, h[p].fresh)) /\ ~ Moved(t, h[p].fresh).locked
    BY <1>1, <1>2, MovedPut
  <2>5. (\A q \in Proc : PutOK(branch', blob', h'[q])) /\ OneWriter'
    BY <2>1, <2>3, <2>4, StepKeepsPut
  <2>6. \A k : PendingSame(k)
    BY <1>1, <2>1, <2>4, PendingKept, ActingPut
  <2>7. \A k \in Key : DataSame(k)
    BY <1>6, DataLinked
  <2> QED
    BY <2>5, <2>6, <2>7 DEF StoreStep, Unmoved
<1> QED
  BY <1>3, <1>4, <1>5, <1>6 DEF Walk

\* Nor do contains and getData.
LEMMA ReadStore ==
  ASSUME StoreInv, NEW p \in Proc, Read(p)
  PROVE  (\A q \in Proc : PutOK(branch', blob', h'[q])) /\ OneWriter' /\ StoreStep
<1>1. /\ ~ h[p].locked /\ h[p] \in Handle /\ h[p].op \in {"insert", "put", "get"}
      /\ branch' = branch /\ blob' = blob
  BY ActingPut DEF PutOK, Putting, WalkOK, Read, ContainsBit, GetBranch, GetData
<1> DEFINE c == [h[p] EXCEPT !.pc = "read", !.copy = branch[h[p].cursor]]
<1>2. PutOK(branch, blob, c) /\ ~ c.locked
  BY <1>1 DEF PutOK, Putting, Handle
<1>3. \/ h' = [h EXCEPT ![p] = c] \/ h' = [h EXCEPT ![p] = Idle(h[p])]
      \/ h[p].pc = "seek" /\ \E i : h' = [h EXCEPT ![p] = Moved(h[p], i)]
  BY DEF Read, ContainsBit, GetBranch, GetData, Become
<1> HIDE DEF c
<1>4. PICK r : h' = [h EXCEPT ![p] = r] /\ PutOK(branch, blob, r) /\ ~ r.locked
  BY <1>1, <1>2, <1>3, MovedPut, IdlePut
<1> QED
  BY <1>1, <1>4, ReadMovesNothing

\* A put's own step that writes neither branch nor data, and keeps its lock.
LEMMA PutMovesNothing ==
  ASSUME StoreInv, NEW p \in Proc, NEW r, h' = [h EXCEPT ![p] = r],
         branch' = branch, blob' = blob, PutOK(branch, blob, r),
         r.locked, h[p].locked, r.cursor = h[p].cursor, r.key = h[p].key, r.val = h[p].val
  PROVE  (\A q \in Proc : PutOK(branch', blob', h'[q])) /\ OneWriter' /\ StoreStep
<1>1. \A k : PendingSame(k)
  BY PendingKept DEF StoreInv, WalkInv
<1> QED
  BY <1>1, ReadKeepsPut, DataUnwritten DEF StoreStep, Unmoved

\* A put that takes the lock of its key begins.
LEMMA LoadStore ==
  ASSUME StoreInv, NEW p \in Proc, Load(p)
  PROVE  (\A q \in Proc : PutOK(branch', blob', h'[q])) /\ OneWriter' /\ StoreStep
<1>1. /\ ~ h[p].locked /\ h[p] \in Handle /\ h[p].pc = "load" /\ h[p].pc \in Standing
      /\ h[p].val \in Value /\ branch' = branch /\ blob' = blob
  BY ActingPut DEF PutOK, Putting, HandleOK, Load, Standing
<1>2. h[p].key \in Key /\ h[p].cursor \in DOMAIN branch /\ branch[h[p].cursor] \in Branch
  BY <1>1, StandsAtKey, ActingPut
<1>3. \A q \in Proc \ {p} : h[q].locked => h[q].cursor # h[p].cursor /\ h[q].key # h[p].key
  <2>1. ASSUME NEW q \in Proc \ {p}, h[q].locked PROVE h[q].cursor # h[p].cursor
    BY <2>1 DEF Load, PathLocked
  <2>2. \A q \in Proc : h[q].locked => h[q].pc \in Standing
    BY ActingPut DEF PutOK, Standing
  <2> QED
    BY <1>1, <2>1, <2>2, SameKey, ActingPut
<1> DEFINE b == branch[h[p].cursor]
           s == [h[p] EXCEPT !.copy = b, !.locked = TRUE]
           w == [s EXCEPT !.pc = "wipe", !.todo = <<s.cursor>>, !.copy.data = 0]
           a == [s EXCEPT !.pc = "allocate"]
           e == [s EXCEPT !.pc = "rewrite"]
<1>4. s \in Handle /\ s.copy = b /\ s.cursor = h[p].cursor /\ s.locked
      /\ s.key = h[p].key /\ s.val = h[p].val
  BY <1>1, <1>2 DEF Handle
<1>5. \/ b.data = 0 /\ h' = [h EXCEPT ![p] = a]
      \/ h' = [h EXCEPT ![p] = e]
      \/ h' = [h EXCEPT ![p] = w]
      \/ h' = [h EXCEPT ![p] = Idle(s)]
  BY DEF Load, Become
<1> HIDE DEF s
<1>6. /\ a.pc = "allocate" /\ e.pc = "rewrite" /\ w.pc = "wipe" /\ e.copy = b
      /\ \A r \in {a, e, w} : /\ r.locked /\ r.cursor = h[p].cursor /\ r.key = h[p].key
                              /\ r.val = h[p].val
  BY <1>4 DEF Handle
<1> HIDE DEF a, e, w
<1>7. CASE h' = [h EXCEPT ![p] = Idle(s)]
  BY <1>1, <1>4, <1>7, IdlePut, ReadMovesNothing
<1>8. ASSUME NEW r \in {a, e, w}, h' = [h EXCEPT ![p] = r], r = a => b.data = 0
      PROVE  (\A q \in Proc : PutOK(branch', blob', h'[q])) /\ OneWriter' /\ StoreStep
  <2>1. r.locked /\ r.cursor = h[p].cursor /\ r.key = h[p].key /\ r.val = h[p].val
    BY <1>6
  <2>2. PutOK(branch, blob, r)
    BY <1>6, <1>8, <2>1 DEF PutOK, Putting
  <2>3. (\A q \in Proc : PutOK(branch', blob', h'[q])) /\ OneWriter'
    BY <1>1, <1>3, <1>8, <2>1, <2>2, ReadKeepsPut
  <2>4. /\ PendingAt(r.key) = NoValue /\ PendingAt(r.key)' = r.val
        /\ \A k : k # r.key => PendingSame(k)
    BY <1>1, <1>3, <1>8, <2>1, PendingBegins, ActingPut
  <2>5. Begun(r.key)
    BY <1>1, <2>1, <2>4, DataUnwritten DEF Begun
  <2> QED
    BY <1>2, <2>1, <2>3, <2>5 DEF StoreStep
<1> QED
  BY <1>5, <1>7, <1>8, <1>6

\* setBranch, and data written in place, commit a put.
LEMMA CommitStore ==
  ASSUME StoreInv, NEW p \in Proc, SetBranch(p) \/ Rewrite(p)
  PROVE  (\A q \in Proc : PutOK(branch', blob', h'[q])) /\ OneWriter' /\ StoreStep
<1> DEFINE n == h[p].cursor
<1>1. /\ h[p].locked /\ h[p] \in Handle /\ h[p].pc \in Standing /\ h[p].pc \in Putting
      /\ h[p].val \in Value /\ WalkOK(branch, h[p]) /\ PutOK(branch, blob, h[p])
      /\ HandleOK(branch, blob, size, mutex, p, h[p])
      /\ h' = [h EXCEPT ![p] = Idle(h[p])]
  BY ActingPut DEF PutOK, Putting, HandleOK, SetBranch, Rewrite, Standing, Become
<1>2. /\ h[p].key \in Key /\ n = NodeIn(branch, h[p].key) /\ n # 0
      /\ n \in DOMAIN branch
  BY <1>1, StandsAtKey, ActingPut
<1>3. \A q \in Proc \ {p} : h[q].pc \in Putting => h[q].cursor # n
  BY <1>1, ActingPut DEF PutOK, StoreInv, OneWriter
<1>4. PICK k \in Key : k = h[p].key
  BY <1>2
<1>5. /\ PendingAt(k) = h[p].val /\ PendingAt(k)' = NoValue
      /\ \A l : l # k => PendingSame(l)
  BY <1>1, <1>4, IdlePut, PendingEnds
<1>6. h[p].val # NoValue
  BY <1>1, ValueAssumption
<1>7. CASE SetBranch(p)
  <2> DEFINE b == [h[p].copy EXCEPT !.data = h[p].fresh]
  <2>1. /\ branch' = [branch EXCEPT ![n] = b] /\ blob' = blob /\ h[p].pc = "store"
    BY <1>7 DEF SetBranch
  <2>2. SameLinks(b, branch[n]) /\ b.data = h[p].fresh
    BY <1>1 DEF WalkOK, SameLinks, Handle, Branch
  <2>3. h[p].fresh # 0 /\ blob[h[p].fresh].body = h[p].val
    BY <1>1, <2>1, ActingPut DEF HandleOK, PutOK, WellFormed
  <2> HIDE DEF b
  <2>4. DataAt(k)' = h[p].val /\ \A l \in Key : l # k => DataSame(l)
    BY <1>2, <1>4, <2>1, <2>2, <2>3, DataWritten, ActingPut
  <2>5. \A m \in DOMAIN branch \ {n} : branch'[m] = branch[m]
    BY <2>1, ActingPut
  <2>6. ASSUME NEW q \in Proc \ {p}
        PROVE  /\ h[q].pc \in Putting => branch'[h[q].cursor] = branch[h[q].cursor]
               /\ h[q].pc = "link" => branch'[h[q].fresh] = branch[h[q].fresh]
    <3>1. HandleOK(branch, blob, size, mutex, q, h[q])
      BY ActingPut
    <3>2. h[q].pc \in Putting => h[q].cursor \in DOMAIN branch \ {n}
      BY <1>3, <3>1 DEF HandleOK, Putting
    <3>3. h[q].pc = "link" => h[q].fresh \in DOMAIN branch \ {n}
      BY <1>2, <3>1, Unreached, KeyAssumption, ActingPut DEF HandleOK, ChildOf, Bits
    <3> QED
      BY <2>5, <3>2, <3>3
  <2>7. (\A q \in Proc : PutOK(branch', blob', h'[q])) /\ OneWriter'
    BY <1>1, <2>1, <2>6, IdlePut, StepKeepsPut
  <2>8. Committed(k)
    BY <1>5, <1>6, <2>4 DEF Committed
  <2> QED
    BY <2>7, <2>8 DEF StoreStep
<1>8. CASE Rewrite(p)
  <2> DEFINE d == h[p].copy.data
             v == [size |-> SizeOf[h[p].val], body |-> h[p].val]
  <2>1. branch' = branch /\ blob' = [blob EXCEPT ![d] = v] /\ h[p].pc = "rewrite"
    BY <1>8 DEF Rewrite
  <2>2. d # 0 /\ branch[n].data = d /\ Has(h[p], n, d)
    BY <1>1, <2>1 DEF HandleOK, PutOK, Has, Copying
  <2>3. Leads(n, d)
    BY <2>2 DEF Leads
  <2>4. v.body = h[p].val
    OBVIOUS
  <2> HIDE DEF d, v, n
  <2>5. DataAt(k)' = h[p].val /\ \A l \in Key : l # k => DataSame(l)
    BY <1>2, <1>4, <2>1, <2>2, <2>3, <2>4, DataRewritten, ActingPut, ZenonT(30)
  <2>6. ASSUME NEW q \in Proc \ {p}, h[q].pc = "store"
        PROVE  blob'[h[q].fresh] = blob[h[q].fresh]
    <3>1. h[q].pc \in Putting /\ Has(h[q], h[q].cursor, h[q].fresh)
      BY <2>6 DEF Putting, Has
    <3>2. h[q].fresh # d
      BY <1>3, <2>2, <2>3, <3>1, ActingPut DEF Private, Leads
    <3>3. h[q].fresh \in DOMAIN blob
      BY <2>6, ActingPut DEF HandleOK
    <3> QED
      BY <2>1, <3>2, <3>3, ActingPut DEF Inv, TypeOK
  <2>7. (\A q \in Proc : PutOK(branch', blob', h'[q])) /\ OneWriter'
    BY <1>1, <2>1, <2>6, IdlePut, StepKeepsPut
  <2>8. Committed(k)
    BY <1>5, <1>6, <2>5 DEF Committed
  <2> QED
    BY <2>7, <2>8 DEF StoreStep
<1> QED
  BY <1>7, <1>8

\* allocate writes where nothing leads yet.
LEMMA AllocateStore ==
  ASSUME StoreInv, NEW p \in Proc, Allocate(p) \/ WriteHeader(p) \/ WritePayload(p)
  PROVE  (\A q \in Proc : PutOK(branch', blob', h'[q])) /\ OneWriter' /\ StoreStep
<1> DEFINE n == h[p].cursor
<1>1. /\ h[p].locked /\ h[p] \in Handle /\ h[p].pc \in Standing /\ h[p].pc \in Putting
      /\ PutOK(branch, blob, h[p]) /\ branch[n].data = 0
      /\ HandleOK(branch, blob, size, mutex, p, h[p]) /\ branch' = branch
  BY ActingPut DEF PutOK, Putting, Standing, Allocate, WriteHeader, WritePayload
<1>2. /\ h[p].key \in Key /\ n = NodeIn(branch, h[p].key) /\ n # 0
      /\ n \in DOMAIN branch
  BY <1>1, StandsAtKey, ActingPut
<1>3. CASE Allocate(p)
  <2> DEFINE r == [h[p] EXCEPT !.pc = "header", !.fresh = size]
  <2>1. /\ r.pc = "header" /\ r.locked /\ r.cursor = n /\ r.key = h[p].key /\ r.val = h[p].val
        /\ h' = [h EXCEPT ![p] = r] /\ blob' = blob
    BY <1>1, <1>3 DEF Handle, Allocate, Become
  <2> HIDE DEF r
  <2>2. PutOK(branch, blob, r)
    BY <1>1, <2>1 DEF PutOK, Putting
  <2> QED
    BY <1>1, <2>1, <2>2, PutMovesNothing
<1>4. CASE WriteHeader(p)
  <2> DEFINE r == [h[p] EXCEPT !.pc = "payload"]
             v == [size |-> SizeOf[h[p].val], body |-> NoValue]
  <2>1. /\ r.pc = "payload" /\ r.locked /\ r.cursor = n /\ r.key = h[p].key /\ r.val = h[p].val
        /\ h' = [h EXCEPT ![p] = r] /\ blob' = Written(blob, size, v)
    BY <1>1, <1>4 DEF Handle, WriteHeader, Become, HandleOK
  <2> HIDE DEF r, v
  <2>2. PutOK(branch, blob', r)
    BY <1>1, <2>1 DEF PutOK, Putting
  <2>3. \A d \in DOMAIN blob : blob'[d] = blob[d]
    BY <2>1, ActingPut DEF WellFormed, Inv, TypeOK, Written
  <2>4. \A q \in Proc : h[q].pc = "store" => h[q].fresh \in DOMAIN blob
    BY ActingPut DEF HandleOK
  <2>5. (\A q \in Proc : PutOK(branch', blob', h'[q])) /\ OneWriter'
    BY <1>1, <2>1, <2>2, <2>3, <2>4, StepKeepsPut
  <2>6. \A k : PendingSame(k)
    BY <1>1, <2>1, PendingKept, ActingPut
  <2>7. \A k \in Key : DataSame(k)
    BY <1>1, <2>1, DataFresh, ActingPut
  <2> QED
    BY <2>5, <2>6, <2>7 DEF StoreStep, Unmoved
<1>5. CASE WritePayload(p)
  <2> DEFINE r == [h[p] EXCEPT !.pc = "store"]
             d == h[p].fresh
             v == [blob[d] EXCEPT !.body = h[p].val]
  <2>1. /\ r.pc = "store" /\ r.locked /\ r.cursor = n /\ r.key = h[p].key /\ r.val = h[p].val
        /\ r.fresh = d /\ h' = [h EXCEPT ![p] = r]
        /\ d \in DOMAIN blob /\ d # 0 /\ Has(h[p], n, d)
    BY <1>1, <1>5, ActingPut DEF Handle, WritePayload, Become, HandleOK, WellFormed, Has
  <2>2. Leads(n, d)
    BY <2>1 DEF Leads
  <2>3. blob' = [blob EXCEPT ![d] = v] /\ v.body = h[p].val
    BY <1>5, <2>1, ActingPut DEF WritePayload, Inv, TypeOK, Blob
  <2> HIDE DEF r, v, d, n
  <2>4. \A e \in DOMAIN blob : blob'[e] = IF e = d THEN v ELSE blob[e]
    BY <2>3, ActingPut DEF Inv, TypeOK
  <2>5. PutOK(branch, blob', r)
    BY <1>1, <2>1, <2>3, <2>4 DEF PutOK, Putting
  <2>6. ASSUME NEW q \in Proc \ {p}, h[q].pc = "store"
        PROVE  blob'[h[q].fresh] = blob[h[q].fresh]
    <3>1. h[q].locked /\ Has(h[q], h[q].cursor, h[q].fresh) /\ h[q].fresh \in DOMAIN blob
      BY <2>6, ActingPut DEF PutOK, Putting, Has, HandleOK
    <3>2. h[q].cursor # n
      BY <1>1, <3>1 DEF StoreInv, OneWriter, n
    <3>3. h[q].fresh # d
      BY <2>1, <2>2, <3>1, <3>2, ActingPut DEF Private, Leads
    <3> QED
      BY <2>4, <3>1, <3>3
  <2>7. (\A q \in Proc : PutOK(branch', blob', h'[q])) /\ OneWriter'
    BY <1>1, <2>1, <2>5, <2>6, StepKeepsPut DEF n
  <2>8. \A k : PendingSame(k)
    BY <1>1, <2>1, PendingKept, ActingPut
  <2>9. \A k \in Key : DataSame(k)
    <3>1. PICK k \in Key : k = h[p].key
      BY <1>2
    <3>2. /\ n = NodeIn(branch, k) /\ Leads(n, d) /\ d # 0 /\ branch' = branch
          /\ Inv /\ Private
      BY <1>1, <1>2, <2>1, <2>2, <3>1, ActingPut DEF n
    <3>3. blob' = [blob EXCEPT ![d] = v]
      BY <2>3
    <3>4. n # 0 /\ branch[n].data # d => DataSame(k)
      BY <3>2, <3>3, DataRewritten
    <3>5. \A l \in Key : l # k => DataSame(l)
      BY <3>2, <3>3, DataRewritten
    <3>6. n # 0 /\ branch[n].data # d
      BY <1>1, <1>2, <2>1 DEF n
    <3> QED
      BY <3>4, <3>5, <3>6
  <2> QED
    BY <2>7, <2>8, <2>9 DEF StoreStep, Unmoved
<1> QED
  BY <1>3, <1>4, <1>5

\* deleteData of a put removes the value it replaces.
LEMMA DeleteStore ==
  ASSUME StoreInv, NEW p \in Proc, Delete(p)
  PROVE  (\A q \in Proc : PutOK(branch', blob', h'[q])) /\ OneWriter' /\ StoreStep
<1> DEFINE n == h[p].cursor
<1>1. h[p].pc \in {"wipe", "wiping"} /\ (DeleteDataRead(p) \/ DeleteDataWrite(p))
  BY ActingPut DEF WalkOK, Walking, Standing, Putting, Delete, Clear, Trace, Prune, DeleteDataRead,
              DeleteDataWrite, DeleteBranchRead, DeleteBranchParent, DeleteBranchWrite
<1>2. /\ h[p].locked /\ h[p] \in Handle /\ h[p].pc \in Standing /\ h[p].pc \in Putting
      /\ h[p].op = "put" /\ h[p].val \in Value /\ h[p].todo = <<n>> /\ Head(h[p].todo) = n
      /\ PutOK(branch, blob, h[p]) /\ WalkOK(branch, h[p])
  BY <1>1, ActingPut DEF PutOK, Putting, Standing, WalkOK, HandleOK
<1>3. /\ h[p].key \in Key /\ n = NodeIn(branch, h[p].key) /\ n # 0
      /\ n \in DOMAIN branch
  BY <1>2, StandsAtKey, ActingPut
<1>4. \A q \in Proc \ {p} : h[q].pc \in Putting => h[q].cursor # n
  BY <1>2, ActingPut DEF PutOK, StoreInv, OneWriter
<1> DEFINE s == [h[p] EXCEPT !.spare = NewBranch(0)]
           a == [h[p] EXCEPT !.pc = "allocate", !.todo = <<>>]
           c == [s EXCEPT !.pc = "allocate", !.todo = <<>>]
           w == [h[p] EXCEPT !.pc = "wiping", !.spare = branch[n]]
<1>5. Wiped(h[p]) = a /\ Wiped(s) = c
  BY <1>2 DEF Wiped, Handle
<1>6. /\ \A r \in {a, c, w} : r.locked /\ r.cursor = n /\ r.key = h[p].key /\ r.val = h[p].val
      /\ a.pc = "allocate" /\ c.pc = "allocate" /\ w.pc = "wiping"
  BY <1>2 DEF Handle
<1> HIDE DEF a, c, w, s
<1>7. CASE DeleteDataRead(p)
  <2>1. /\ branch' = branch /\ blob' = blob
        /\ \/ h' = [h EXCEPT ![p] = a] /\ branch[n].data = 0
           \/ h' = [h EXCEPT ![p] = w]
    BY <1>2, <1>5, <1>7 DEF DeleteDataRead, Become, w
  <2>2. PutOK(branch, blob, w) /\ (branch[n].data = 0 => PutOK(branch, blob, a))
    BY <1>6 DEF PutOK, Putting
  <2> HIDE DEF n
  <2> QED
    BY <1>2, <1>6, <2>1, <2>2, PutMovesNothing DEF n
<1>8. CASE DeleteDataWrite(p)
  <2> DEFINE d == [h[p].spare EXCEPT !.data = 0]
  <2>1. /\ branch' = [branch EXCEPT ![n] = d] /\ h' = [h EXCEPT ![p] = c] /\ blob' = blob
        /\ h[p].pc = "wiping"
    BY <1>2, <1>5, <1>8 DEF DeleteDataWrite, Become, s
  <2>2. SameLinks(d, branch[n]) /\ d.data = 0
    BY <1>2, <2>1 DEF WalkOK, SameLinks, Handle, Branch
  <2> HIDE DEF d
  <2>3. \A m \in DOMAIN branch : branch'[m] = IF m = n THEN d ELSE branch[m]
    BY <2>1, ActingPut
  <2>4. PutOK(branch', blob', c)
    BY <1>3, <1>6, <2>2, <2>3 DEF PutOK, Putting
  <2>5. ASSUME NEW q \in Proc \ {p}
        PROVE  /\ h[q].pc \in Putting => branch'[h[q].cursor] = branch[h[q].cursor]
               /\ h[q].pc = "link" => branch'[h[q].fresh] = branch[h[q].fresh]
    <3>1. HandleOK(branch, blob, size, mutex, q, h[q])
      BY ActingPut
    <3>2. h[q].pc \in Putting => h[q].cursor \in DOMAIN branch \ {n}
      BY <1>4, <3>1 DEF HandleOK, Putting
    <3>3. h[q].pc = "link" => h[q].fresh \in DOMAIN branch \ {n}
      BY <1>3, <3>1, Unreached, KeyAssumption, ActingPut DEF HandleOK, ChildOf, Bits
    <3> QED
      BY <2>3, <3>2, <3>3
  <2>6. (\A q \in Proc : PutOK(branch', blob', h'[q])) /\ OneWriter'
    BY <1>2, <1>6, <2>1, <2>4, <2>5, StepKeepsPut, ZenonT(30)
  <2>7. \A k : PendingSame(k)
    BY <1>2, <1>6, <2>1, PendingKept, ActingPut, ZenonT(30)
  <2>8. PICK k \in Key : k = h[p].key
    BY <1>3
  <2>9. DataAt(k)' = NoValue /\ \A l \in Key : l # k => DataSame(l)
    BY <1>3, <2>1, <2>2, <2>8, DataWritten, ActingPut
  <2>10. PendingAt(k) # NoValue
    BY <1>2, <2>8, PendingIs, ValueAssumption
  <2>11. Removed(k)
    BY <2>7, <2>9, <2>10 DEF Removed
  <2> QED
    BY <2>6, <2>11 DEF StoreStep
<1> QED
  BY <1>1, <1>7, <1>8

\* A crash ends the puts in progress.
LEMMA CrashStore ==
  ASSUME StoreInv, Crash
  PROVE  (\A q \in Proc : PutOK(branch', blob', h'[q])) /\ OneWriter' /\ StoreStep
<1>1. branch' = branch /\ blob' = blob /\ \A q \in Proc : h'[q] = Closed(h[q].left)
  BY DEF Crash
<1>2. \A q \in Proc : PutOK(branch', blob', h'[q]) /\ ~ h'[q].locked
  BY <1>1, IdlePut, ActingPut
<1>3. \A k : PendingAt(k)' = NoValue
  BY <1>2 DEF PendingAt
<1> QED
  BY <1>1, <1>2, <1>3, DataUnwritten DEF StoreStep, Stopped, OneWriter

-----------------------------------------------------------------------------
(* The theorem. *)

\* An empty file holds nothing.
LEMMA InitStore ==
  Init => StoreInv /\ Store!Init
<1> SUFFICES ASSUME Init PROVE StoreInv /\ Store!Init
  OBVIOUS
<1>1. \A p \in Proc : h[p].pc = "closed" /\ ~ h[p].locked
  BY DEF Init, Closed
<1>2. StoreInv
  BY <1>1, InitWalk, InitPrivate DEF StoreInv, PutOK, Putting, OneWriter
<1>3. \A k : PendingAt(k) = NoValue
  BY <1>1 DEF PendingAt
<1>4. \A k \in Key : DataAt(k) = NoValue
  <2>1. \A k \in Key : NodeIn(branch, k) = 0
    BY KeyNode, InitInv DEF Init, Inv
  <2> QED
    BY <2>1, DataAtIsDataIn DEF DataIn
<1> QED
  BY <1>2, <1>3, <1>4 DEF Store!Init

\* Every step of the file is a step of the store, or none.
LEMMA NextStore ==
  ASSUME NoDelete, PrefixFree
  PROVE  StoreInv /\ [Next]_vars =>
           /\ StoreInv'
           /\ [Store!Next]_<<[k \in Key |-> DataAt(k)], [k \in Key |-> PendingAt(k)]>>
<1> SUFFICES ASSUME StoreInv, [Next]_vars
             PROVE  /\ StoreInv'
                    /\ [Store!Next]_<<[k \in Key |-> DataAt(k)], [k \in Key |-> PendingAt(k)]>>
  OBVIOUS
<1>1. WalkInv' /\ Private'
  <2>1. WalkInv /\ Inv /\ Private
    BY DEF StoreInv, WalkInv
  <2> QED
    BY <2>1, NextWalk, NextPrivate
<1>2. (\A q \in Proc : PutOK(branch', blob', h'[q])) /\ OneWriter' /\ StoreStep
  <2>1. CASE UNCHANGED vars
    <3>1. \A k : DataSame(k) /\ PendingSame(k)
      BY <2>1, DataUnwritten DEF vars, PendingSame, PendingAt
    <3> QED
      BY <2>1, <3>1 DEF vars, StoreInv, OneWriter, StoreStep, Unmoved
  <2>2. CASE \E p \in Proc : Step(p)
    BY <2>2, OpenStore, WalkStore, LoadStore, AllocateStore, CommitStore, DeleteStore, ReadStore
       DEF Step, Work, SetData
  <2> QED
    BY <2>1, <2>2, CrashStore DEF Next, Finished
<1> QED
  BY <1>1, <1>2, StoreStepIsStep DEF StoreInv

\* The branch file implements the store: puts under one key take effect one
\* after the other, and no insertion, put or crash elsewhere in the tree takes a
\* value away.
THEOREM StoreCorrect ==
  ASSUME NoDelete, PrefixFree
  PROVE  Spec => ImplementsStore
<1>1. StoreInv /\ [Next]_vars =>
        /\ StoreInv'
        /\ [Store!Next]_<<[k \in Key |-> DataAt(k)], [k \in Key |-> PendingAt(k)]>>
  BY NextStore
<1> QED
  BY <1>1, InitStore, PTL DEF Spec, ImplementsStore, Store!Spec

\* And so it does whatever numbers and strings are written as keys: none of their
\* encodings extends another.
THEOREM StoreOfCodesCorrect ==
  ASSUME NoDelete, Key \subseteq Encoding!Code
  PROVE  Spec => ImplementsStore
<1>1. PrefixFree
  BY Encoding!CodesPrefixFree DEF PrefixFree
<1> QED
  BY <1>1, StoreCorrect

-----------------------------------------------------------------------------
(* clear(value) with one handle.  Every key that is there is reached by a  *)
(* walk through the branches of its prefixes; the branch that is taken out *)
(* stands on the walk of the key that is cleared, and on no other.         *)

\* There is one handle at most.
OneHandle == \A p, q \in Proc : p = q

\* A branch with one link, or none.
Single(b) == b.left = 0 \/ b.right = 0

\* Where the first j bits of k lead.
Via(br, k, j) == NodeIn(br, SubSeq(k, 1, j))

\* The bits up to a place are bits; those up to none are none.
LEMMA PrefixBits ==
  ASSUME NEW k \in Bits, NEW j \in 0 .. Len(k)
  PROVE  /\ SubSeq(k, 1, j) \in Bits /\ Len(SubSeq(k, 1, j)) = j /\ Len(k) \in Nat
         /\ SubSeq(k, 1, 0) = <<>> /\ SubSeq(k, 1, Len(k)) = k
         /\ \A i \in 1 .. j : SubSeq(k, 1, j)[i] = k[i]
  BY DEF Bits

\* A walk that arrives has come over each of its branches.
LEMMA ViaArrives ==
  ASSUME NEW br
  PROVE  \A k \in Bits : NodeIn(br, k) # 0 => \A j \in 1 .. Len(k) : Via(br, k, j) # 0
<1> DEFINE T == {k \in Bits : NodeIn(br, k) # 0 => \A j \in 1 .. Len(k) : Via(br, k, j) # 0}
<1>1. <<>> \in T
  BY WalkOn DEF Bits
<1>2. ASSUME NEW k \in Bits, NEW b \in {0, 1}, k \in T PROVE Append(k, b) \in T
  <2> DEFINE l == Append(k, b)
  <2>1. l \in Bits /\ Len(l) = Len(k) + 1 /\ Len(k) \in Nat
    BY DEF Bits
  <2> SUFFICES ASSUME NodeIn(br, l) # 0, NEW j \in 1 .. Len(l) PROVE Via(br, l, j) # 0
    BY <2>1
  <2>2. CASE j = Len(l)
    <3>1. SubSeq(l, 1, j) = l
      BY <2>1, <2>2 DEF Bits
    <3> QED
      BY <3>1 DEF Via
  <2>3. CASE j # Len(l)
    <3>1. j \in 1 .. Len(k)
      BY <2>1, <2>3
    <3>2. k # <<>> /\ SubSeq(l, 1, j) = SubSeq(k, 1, j)
      BY <2>1, <3>1 DEF Bits
    <3>3. NodeIn(br, k) # 0
      BY <3>2, WalkBit
    <3> QED
      BY <1>2, <3>1, <3>2, <3>3 DEF Via
  <2> QED
    BY <2>2, <2>3
<1>3. Bits \subseteq T
  <2> HIDE DEF T
  <2> QED
    BY <1>1, <1>2, SeqInduct
<1> QED
  BY <1>3

\* The next branch of a walk is one link on.
LEMMA ViaNext ==
  ASSUME NEW br, NEW k \in Bits, NEW j \in 0 .. Len(k) - 1, j = 0 \/ Via(br, k, j) # 0
  PROVE  /\ Via(br, k, j) \in DOMAIN br => Via(br, k, j + 1) = Link(br[Via(br, k, j)], k[j + 1])
         /\ Via(br, k, j) \notin DOMAIN br => Via(br, k, j + 1) = 0
         /\ Via(br, k, 0) = 0 /\ Via(br, k, Len(k)) = NodeIn(br, k)
<1>1. /\ SubSeq(k, 1, j) \in Bits /\ Len(SubSeq(k, 1, j)) = j /\ k[j + 1] \in {0, 1}
      /\ SubSeq(k, 1, j + 1) = Append(SubSeq(k, 1, j), k[j + 1]) /\ SubSeq(k, 1, Len(k)) = k
  BY FrontBits
<1>2. SubSeq(k, 1, 0) = <<>>
  BY DEF Bits
<1>3. SubSeq(k, 1, j) = <<>> \/ Via(br, k, j) # 0
  BY <1>1, <1>2
<1>4. Via(br, k, j + 1) = IF Via(br, k, j) \in DOMAIN br THEN Link(br[Via(br, k, j)], k[j + 1]) ELSE 0
  BY <1>1, <1>3, WalkBit DEF Via
<1>5. Via(br, k, 0) = 0 /\ Via(br, k, Len(k)) = NodeIn(br, k)
  BY <1>1, <1>2, WalkOn DEF Via
<1> QED
  BY <1>4, <1>5

\* Where a walk arrives, the next branch of each before its end is one link on.
LEMMA ViaLinked ==
  ASSUME NEW br, NEW k \in Bits, NodeIn(br, k) # 0, NEW j \in 0 .. Len(k) - 1
  PROVE  /\ Via(br, k, j) \in DOMAIN br /\ Via(br, k, j + 1) # 0
         /\ Via(br, k, j + 1) = Link(br[Via(br, k, j)], k[j + 1])
<1>1. Len(k) \in Nat
  BY DEF Bits
<1>2. Via(br, k, j + 1) # 0 /\ (j = 0 \/ Via(br, k, j) # 0)
  BY <1>1, ViaArrives
<1> QED
  BY <1>2, ViaNext

\* Two keys of which none extends the other differ in a bit before either ends.
LEMMA FirstDifference ==
  ASSUME NEW k \in Bits, NEW l \in Bits, k # l,
         \A n \in 0 .. Len(l) : k # SubSeq(l, 1, n), \A n \in 0 .. Len(k) : l # SubSeq(k, 1, n)
  PROVE  \E i \in 0 .. Len(k) - 1 :
           i < Len(l) /\ SubSeq(k, 1, i) = SubSeq(l, 1, i) /\ k[i + 1] # l[i + 1]
<1> SUFFICES ASSUME \A i \in 0 .. Len(k) - 1 :
                      i < Len(l) /\ SubSeq(k, 1, i) = SubSeq(l, 1, i) => k[i + 1] = l[i + 1]
             PROVE  FALSE
  OBVIOUS
<1> DEFINE T == {n \in Nat : n <= Len(k) /\ n <= Len(l) => SubSeq(k, 1, n) = SubSeq(l, 1, n)}
<1>1. Len(k) \in Nat /\ Len(l) \in Nat
  BY DEF Bits
<1>2. 0 \in T
  <2>1. SubSeq(k, 1, 0) = <<>> /\ SubSeq(l, 1, 0) = <<>>
    BY DEF Bits
  <2> QED
    BY <2>1
<1>3. ASSUME NEW n \in Nat, n \in T PROVE n + 1 \in T
  <2> SUFFICES ASSUME n + 1 <= Len(k), n + 1 <= Len(l) PROVE SubSeq(k, 1, n + 1) = SubSeq(l, 1, n + 1)
    OBVIOUS
  <2>1. n \in 0 .. Len(k) - 1 /\ n \in 0 .. Len(l) - 1 /\ n < Len(l)
    BY <1>1
  <2>2. SubSeq(k, 1, n) = SubSeq(l, 1, n)
    BY <1>1, <1>3
  <2>3. k[n + 1] = l[n + 1]
    BY <2>1, <2>2
  <2>4. /\ SubSeq(k, 1, n + 1) = Append(SubSeq(k, 1, n), k[n + 1])
        /\ SubSeq(l, 1, n + 1) = Append(SubSeq(l, 1, n), l[n + 1])
    BY <2>1, FrontBits
  <2> QED
    BY <2>2, <2>3, <2>4
<1>4. Nat \subseteq T
  <2> HIDE DEF T
  <2> QED
    BY <1>2, <1>3, Encoding!NatInduct
<1>5. SubSeq(k, 1, Len(k)) = k /\ SubSeq(l, 1, Len(l)) = l
  BY DEF Bits
<1>6. CASE Len(k) <= Len(l)
  <2>1. SubSeq(k, 1, Len(k)) = SubSeq(l, 1, Len(k)) /\ Len(k) \in 0 .. Len(l)
    BY <1>1, <1>4, <1>6
  <2> QED
    BY <1>5, <2>1, Zenon
<1>7. CASE Len(l) <= Len(k)
  <2>1. SubSeq(k, 1, Len(l)) = SubSeq(l, 1, Len(l)) /\ Len(l) \in 0 .. Len(k)
    BY <1>1, <1>4, <1>7
  <2> QED
    BY <1>5, <2>1, Zenon
<1> QED
  BY <1>1, <1>6, <1>7

\* Where two keys part, both of which are there, is a branch with two links.
LEMMA Parting ==
  ASSUME PrefixFree, NEW br, NEW k \in Key, NEW l \in Key, k # l, NodeIn(br, k) # 0, NodeIn(br, l) # 0
  PROVE  \E i \in 0 .. Len(k) - 1 :
           /\ i < Len(l) /\ SubSeq(k, 1, i) = SubSeq(l, 1, i) /\ k[i + 1] # l[i + 1]
           /\ ~ Single(br[Via(br, k, i)])
<1>1. k \in Bits /\ l \in Bits /\ Len(k) \in Nat /\ Len(l) \in Nat
  BY KeyAssumption DEF Bits
<1>2. PICK i \in 0 .. Len(k) - 1 : i < Len(l) /\ SubSeq(k, 1, i) = SubSeq(l, 1, i) /\ k[i + 1] # l[i + 1]
  <2>1. /\ \A n \in 0 .. Len(l) : k # SubSeq(l, 1, n)
        /\ \A n \in 0 .. Len(k) : l # SubSeq(k, 1, n)
    BY DEF PrefixFree
  <2> QED
    BY <1>1, <2>1, FirstDifference
<1>3. i \in 0 .. Len(l) - 1
  BY <1>1, <1>2
<1>4. Via(br, k, i) = Via(br, l, i)
  BY <1>2 DEF Via
<1>5. /\ Link(br[Via(br, k, i)], k[i + 1]) # 0 /\ Link(br[Via(br, k, i)], l[i + 1]) # 0
  BY <1>1, <1>3, <1>4, ViaLinked
<1>6. k[i + 1] \in {0, 1} /\ l[i + 1] \in {0, 1}
  BY <1>1, <1>3, FrontBits
<1>7. ~ Single(br[Via(br, k, i)])
  BY <1>2, <1>5, <1>6 DEF Single, Link
<1> QED
  BY <1>2, <1>7

-----------------------------------------------------------------------------
(* Taking a branch out of the tree. *)

\* br2 is br without the links to n.
Cut(br, br2, n) ==
  /\ DOMAIN br2 = DOMAIN br
  /\ \A m \in DOMAIN br, b \in {0, 1} :
       Link(br2[m], b) = IF Link(br[m], b) = n THEN 0 ELSE Link(br[m], b)

\* Key k is there, and its walk comes through branch n.
Passes(br, k, n) == NodeIn(br, k) # 0 /\ \E j \in 0 .. Len(k) : Via(br, k, j) = n

\* No walk arrives at a branch that was taken out, or arrives where it did not.
LEMMA CutWalks ==
  ASSUME NEW br, NEW br2, NEW n, n # 0, Cut(br, br2, n)
  PROVE  /\ \A k \in Bits : NodeIn(br2, k) # n
         /\ \A k \in Bits : NodeIn(br2, k) # 0 => NodeIn(br, k) = NodeIn(br2, k)
<1>1. ASSUME NEW k \in Bits PROVE NodeIn(br2, k) # n
  <2>1. CASE k = <<>>
    BY <2>1, WalkOn
  <2>2. CASE k # <<>>
    <3>1. PICK l \in Bits, b \in {0, 1} : k = Append(l, b)
      BY <2>2, LastBit
    <3>2. NodeIn(br2, k) =
            IF NodeIn(br2, l) \in DOMAIN br2 /\ (l = <<>> \/ NodeIn(br2, l) # 0)
            THEN Link(br2[NodeIn(br2, l)], b) ELSE 0
      BY <3>1, WalkBit
    <3>3. \A m \in DOMAIN br2 : Link(br2[m], b) # n
      BY DEF Cut
    <3> QED
      BY <3>2, <3>3
  <2> QED
    BY <2>1, <2>2
<1>2. Grown(br2, br)
  <2>1. ASSUME NEW m \in DOMAIN br2
        PROVE  /\ m \in DOMAIN br
               /\ br2[m].left # 0 => br[m].left = br2[m].left
               /\ br2[m].right # 0 => br[m].right = br2[m].right
    <3>1. /\ m \in DOMAIN br
          /\ Link(br2[m], 0) = IF Link(br[m], 0) = n THEN 0 ELSE Link(br[m], 0)
          /\ Link(br2[m], 1) = IF Link(br[m], 1) = n THEN 0 ELSE Link(br[m], 1)
      BY <2>1 DEF Cut
    <3> QED
      BY <3>1 DEF Link
  <2> QED
    BY <2>1 DEF Grown
<1> QED
  BY <1>1, <1>2, WalkStays

\* A walk that does not come through the branch is left as it was.
LEMMA CutElsewhere ==
  ASSUME NEW br, NEW br2, NEW n, Cut(br, br2, n)
  PROVE  \A k \in Bits : (\A j \in 0 .. Len(k) : Via(br, k, j) # n) => NodeIn(br2, k) = NodeIn(br, k)
<1> DEFINE T == {k \in Bits : (\A j \in 0 .. Len(k) : Via(br, k, j) # n) => NodeIn(br2, k) = NodeIn(br, k)}
<1>1. <<>> \in T
  BY WalkOn DEF Bits
<1>2. ASSUME NEW k \in Bits, NEW b \in {0, 1}, k \in T PROVE Append(k, b) \in T
  <2> DEFINE l == Append(k, b)
  <2>1. l \in Bits /\ Len(l) = Len(k) + 1 /\ Len(k) \in Nat /\ SubSeq(l, 1, Len(l)) = l
    BY DEF Bits
  <2> SUFFICES ASSUME \A j \in 0 .. Len(l) : Via(br, l, j) # n PROVE NodeIn(br2, l) = NodeIn(br, l)
    BY <2>1
  <2>2. ASSUME NEW j \in 0 .. Len(k) PROVE Via(br, k, j) # n
    <3>1. SubSeq(l, 1, j) = SubSeq(k, 1, j) /\ j \in 0 .. Len(l)
      BY <2>1 DEF Bits
    <3> QED
      BY <3>1 DEF Via
  <2>3. NodeIn(br2, k) = NodeIn(br, k)
    BY <1>2, <2>2
  <2>4. NodeIn(br, l) # n
    <3>1. Len(l) \in 0 .. Len(l)
      BY <2>1
    <3>2. Via(br, l, Len(l)) # n
      BY <3>1
    <3> QED
      BY <2>1, <3>2 DEF Via
  <2>5. /\ NodeIn(br, l) = IF NodeIn(br, k) \in DOMAIN br /\ (k = <<>> \/ NodeIn(br, k) # 0)
                           THEN Link(br[NodeIn(br, k)], b) ELSE 0
        /\ NodeIn(br2, l) = IF NodeIn(br2, k) \in DOMAIN br2 /\ (k = <<>> \/ NodeIn(br2, k) # 0)
                            THEN Link(br2[NodeIn(br2, k)], b) ELSE 0
    BY WalkBit
  <2> HIDE DEF l
  <2>6. DOMAIN br2 = DOMAIN br
    BY DEF Cut
  <2>7. NodeIn(br, k) \in DOMAIN br =>
          Link(br2[NodeIn(br, k)], b) =
            IF Link(br[NodeIn(br, k)], b) = n THEN 0 ELSE Link(br[NodeIn(br, k)], b)
    BY DEF Cut
  <2> QED
    BY <2>3, <2>4, <2>5, <2>6, <2>7
<1>3. Bits \subseteq T
  <2> HIDE DEF T
  <2> QED
    BY <1>1, <1>2, SeqInduct
<1> QED
  BY <1>3

\* A walk comes through no more branches than before.
LEMMA CutPasses ==
  ASSUME NEW br, NEW br2, NEW n, n # 0, Cut(br, br2, n), NEW k \in Bits, NEW m, Passes(br2, k, m)
  PROVE  Passes(br, k, m)
<1>1. NodeIn(br2, k) # 0 /\ NodeIn(br, k) # 0
  BY CutWalks DEF Passes
<1>2. PICK j \in 0 .. Len(k) : Via(br2, k, j) = m
  BY DEF Passes
<1>3. SubSeq(k, 1, j) \in Bits
  BY PrefixBits
<1>4. CASE j = 0
  <2>1. SubSeq(k, 1, j) = <<>>
    BY <1>4, PrefixBits
  <2> QED
    BY <1>1, <1>2, <2>1, WalkOn DEF Passes, Via
<1>5. CASE j # 0
  <2>1. Via(br2, k, j) # 0
    BY <1>1, <1>5, ViaArrives
  <2>2. Via(br, k, j) = Via(br2, k, j)
    BY <1>3, <2>1, CutWalks DEF Via
  <2> QED
    BY <1>1, <1>2, <2>2 DEF Passes
<1> QED
  BY <1>4, <1>5

\* The links of a branch that no walk reaches lead to branches that no walk reaches.
LEMMA CutBelow ==
  ASSUME NEW br, NEW bl, \A m \in DOMAIN br : SoundAt(br, bl, m, br[m]),
         NEW n, n # 0, \A k \in Bits : NodeIn(br, k) # n, NEW c, c # 0, ChildOf(br, n, c)
  PROVE  \A k \in Bits : NodeIn(br, k) # c
<1> SUFFICES ASSUME NEW k \in Bits, NodeIn(br, k) = c PROVE FALSE
  OBVIOUS
<1>1. k # <<>>
  BY WalkOn
<1>2. PICK l \in Bits, b \in {0, 1} : k = Append(l, b)
  BY <1>1, LastBit
<1>3. NodeIn(br, l) \in DOMAIN br /\ c = Link(br[NodeIn(br, l)], b)
  BY <1>2, WalkBit
<1>4. ChildOf(br, NodeIn(br, l), c)
  BY <1>3 DEF SoundAt, Link
<1> QED
  BY <1>4 DEF ChildOf

-----------------------------------------------------------------------------
(* What the one handle has in hand. *)

\* The last branch with two links before the place r has come to, and the side its key takes there; or
\* the root and its right side, if there is none.
Forked(br, r) ==
  \/ /\ r.fork = 0 /\ r.side = 1
     /\ \A i \in 0 .. r.pos - 1 : Single(br[Via(br, r.key, i)])
  \/ \E j \in 0 .. r.pos - 1 :
       /\ r.fork = Via(br, r.key, j) /\ r.side = r.key[j + 1]
       /\ \A i \in j + 1 .. r.pos - 1 : Single(br[Via(br, r.key, i)])

\* The key that is cleared is gone, or the branch to be deleted is one on its walk; or it is the root, for
\* want of a right link, and then the left one is on the walk.
Doomed(br, r) ==
  \/ NodeIn(br, r.key) = 0
  \/ r.todo = <<0>> /\ Single(br[0])
  \/ \E j \in 1 .. Len(r.key) : r.todo = <<Via(br, r.key, j)>>

\* The keys that are not to be cleared, and a branch that is on the walk of none of them.
Others(r) == IF r.op = "remove" THEN Key \ {r.key} ELSE Key
Safe(br, r, n) == \A k \in Others(r) : ~ Passes(br, k, n)

Descending == {"walk", "claim", "append", "link"}
Removing   == {"detach", "parent", "unlink"}

\* What is done at each place.
Operates(r) ==
  /\ r.pc \in {"closed", "create"} => r.op = "insert"
  /\ r.pc \in Descending => r.op \in {"insert", "put", "clear"}
  /\ r.pc = "seek" => r.op \in {"get", "remove"}
  /\ r.pc \in {"fetch", "read"} => r.op = "get"
  /\ r.pc = "clear" => r.op = "clear"

\* The handle stands where the bits it has passed lead.
Stood(br, r) ==
  /\ r.pc \in {"closed", "create", "idle"} => r.cursor = 0
  /\ r.pc \in Walking \cup {"clear", "trace", "prune"} =>
       r.key \in Key /\ r.cursor = NodeIn(br, Passed(r)) /\ (r.pos > 0 => r.cursor # 0)
  /\ r.pc \in {"clear", "prune"} => r.pos = Len(r.key)

\* What is about to be written back has the links the branch has now.
Copied(br, r) ==
  /\ r.pc \in {"append", "link"} \/ (r.pc \in Putting /\ r.op = "put") => SameLinks(r.copy, br[r.cursor])
  /\ r.pc \in {"append", "link"} => Link(br[r.cursor], NextBit(r)) = 0
  /\ r.pc \in {"wipe", "wiping"} /\ r.op = "put" => r.todo = <<r.cursor>>
  /\ r.pc = "wiping" => SameLinks(r.spare, br[Head(r.todo)])
  /\ r.pc = "unlink" => SameLinks(r.copy, br[r.spare.parent])
  /\ r.pc \in {"parent", "unlink"} => Head(r.todo) # 0

\* clear(value) has found its key, and deletes nothing but what leads to it; clear() does not
\* delete its own branch.
Clears(br, r) ==
  /\ r.pc \in {"trace", "prune"} => NodeIn(br, r.key) # 0 /\ Forked(br, r)
  /\ r.pc \in Deleting /\ r.op = "remove" => r.key \in Key /\ Doomed(br, r)
  /\ PrefixFree /\ r.pc \in Deleting /\ r.op # "put" =>
       \A i \in 1 .. Len(r.todo) : (r.op # "remove" /\ r.todo[i] = r.cursor) \/ Safe(br, r, r.todo[i])
  /\ PrefixFree /\ r.pc \in Removing => Safe(br, r, Head(r.todo))

SoleOK(br, r) == Operates(r) /\ Stood(br, r) /\ Copied(br, r) /\ Clears(br, r)
SoleInv == Inv /\ \A p \in Proc : SoleOK(branch, h[p])

\* A handle between operations has nothing in hand.
LEMMA IdleSole ==
  ASSUME NEW br, NEW r, NEW n
  PROVE  SoleOK(br, Idle(r)) /\ SoleOK(br, Closed(n))
<1> DEFINE c == Closed(n)
<1>1. c.pc = "closed" /\ c.op = "insert" /\ c.cursor = 0
  BY DEF Closed
<1>2. Idle(r).pc = "idle" /\ Idle(r).cursor = 0
  BY DEF Idle, Closed
<1> HIDE DEF c
<1>3. SoleOK(br, c)
  BY <1>1 DEF SoleOK, Operates, Stood, Copied, Clears, Descending, Removing, Walking, Putting, Deleting
<1>4. SoleOK(br, Idle(r))
  BY <1>2 DEF SoleOK, Operates, Stood, Copied, Clears, Descending, Removing, Walking, Putting, Deleting
<1> QED
  BY <1>3, <1>4 DEF c

\* A handle that follows a link stands where one bit more leads, and clear(value) that has found its
\* key starts again.
LEMMA MovedSole ==
  ASSUME NEW br, NEW r \in Handle, r.pc \in {"walk", "seek"}, Operates(r),
         r.key \in Key, r.pos < Len(r.key), r.cursor = NodeIn(br, Passed(r)),
         r.pos > 0 => r.cursor # 0, r.cursor \in DOMAIN br,
         NEW i \in Nat, i = Link(br[r.cursor], NextBit(r)), i # 0
  PROVE  SoleOK(br, Moved(r, i)) /\ (r.op = "remove" => Moved(r, i).pc # "idle")
<1> DEFINE moved == [r EXCEPT !.cursor = i, !.pos = @ + 1]
           there == [r EXCEPT !.cursor = i, !.pos = @ + 1, !.pc = AtKey(r.op)]
           again == [Idle(r) EXCEPT !.pc = "trace", !.op = r.op, !.key = r.key]
<1>1. r.pos \in Nat /\ Len(r.key) \in Nat /\ r.pos <= Len(r.key) /\ r.key \in Bits
  BY DEF Handle, Bits
<1>2. NodeIn(br, SubSeq(r.key, 1, r.pos + 1)) = i
  <2>1. /\ Passed(r) \in Bits /\ NextBit(r) \in {0, 1} /\ Len(Passed(r)) = r.pos
        /\ SubSeq(r.key, 1, r.pos + 1) = Append(Passed(r), NextBit(r))
    BY <1>1, PassedBits
  <2>2. Passed(r) = <<>> \/ r.cursor # 0
    BY <1>1, PassedBits
  <2>3. NodeIn(br, Append(Passed(r), NextBit(r))) = Link(br[r.cursor], NextBit(r))
    BY <2>1, <2>2, WalkBit
  <2> QED
    BY <2>1, <2>3
<1>3. CASE r.pos + 1 < Len(r.key)
  <2>1. moved.pc = r.pc /\ moved.op = r.op /\ moved.key = r.key /\ moved.cursor = i
        /\ moved.pos = r.pos + 1
    BY DEF Handle
  <2>2. Moved(r, i) = moved
    BY <1>3 DEF Moved
  <2> HIDE DEF moved
  <2>3. SoleOK(br, moved)
    BY <1>2, <2>1 DEF SoleOK, Operates, Stood, Copied, Clears, Descending, Removing, Walking, Putting,
                      Deleting, Passed
  <2> QED
    BY <2>1, <2>2, <2>3
<1>4. CASE ~(r.pos + 1 < Len(r.key)) /\ r.op = "insert"
  BY <1>4, IdleSole DEF Moved
<1>5. CASE ~(r.pos + 1 < Len(r.key)) /\ r.op = "remove"
  <2>1. /\ again.pc = "trace" /\ again.op = "remove" /\ again.key = r.key /\ again.pos = 0
        /\ again.cursor = 0 /\ again.fork = 0 /\ again.side = 1
    BY <1>5 DEF Idle, Closed
  <2>2. Moved(r, i) = again
    BY <1>5 DEF Moved
  <2> HIDE DEF again
  <2>3. NodeIn(br, r.key) # 0
    <3>1. SubSeq(r.key, 1, Len(r.key)) = r.key /\ r.pos + 1 = Len(r.key)
      BY <1>1, <1>5, PrefixBits
    <3> QED
      BY <1>2, <3>1
  <2>4. Passed(again) = <<>> /\ NodeIn(br, Passed(again)) = 0
    <3>1. SubSeq(r.key, 1, 0) = <<>>
      BY <1>1, PrefixBits
    <3>2. Passed(again) = <<>>
      BY <2>1, <3>1 DEF Passed
    <3> QED
      BY <3>2, WalkOn
  <2>5. Forked(br, again)
    BY <2>1 DEF Forked
  <2>6. SoleOK(br, again)
    BY <2>1, <2>3, <2>4, <2>5 DEF SoleOK, Operates, Stood, Copied, Clears, Descending, Removing, Walking,
                                  Putting, Deleting
  <2> QED
    BY <2>1, <2>2, <2>6
<1>6. CASE ~(r.pos + 1 < Len(r.key)) /\ r.op \notin {"insert", "remove"}
  <2>1. /\ r.op \in {"put", "get", "clear"} /\ AtKey(r.op) \in {"load", "fetch", "clear"}
        /\ AtKey(r.op) = "fetch" => r.op = "get"
        /\ AtKey(r.op) = "clear" => r.op = "clear"
    BY <1>6 DEF AtKey, Operates, Descending
  <2>2. there.pc = AtKey(r.op) /\ there.op = r.op /\ there.key = r.key /\ there.cursor = i
        /\ there.pos = r.pos + 1
    BY DEF Handle
  <2>3. r.pos + 1 = Len(r.key)
    BY <1>1, <1>6
  <2>4. Moved(r, i) = there
    BY <1>6 DEF Moved
  <2> HIDE DEF there
  <2>5. SoleOK(br, there)
    BY <1>2, <2>1, <2>2, <2>3 DEF SoleOK, Operates, Stood, Copied, Clears, Descending, Removing, Walking,
                                  Putting, Deleting, Passed
  <2> QED
    BY <1>6, <2>4, <2>5
<1> QED
  BY <1>3, <1>4, <1>5, <1>6

\* What follows when the data of a branch are gone: setData goes on, clear() leaves its own branch.
LEMMA WipedSole ==
  ASSUME NEW br, NEW r \in Handle, r.pc \in {"wipe", "wiping"}, r.todo # <<>>,
         r.op = "put" => SameLinks(r.copy, br[r.cursor]),
         r.op = "remove" => r.key \in Key /\ Doomed(br, r),
         PrefixFree /\ r.op # "put" =>
           \A i \in 1 .. Len(r.todo) : (r.op # "remove" /\ r.todo[i] = r.cursor) \/ Safe(br, r, r.todo[i])
  PROVE  SoleOK(br, Wiped(r)) /\ (r.op = "remove" => Wiped(r).pc # "idle")
<1> DEFINE a == [r EXCEPT !.pc = "allocate", !.todo = <<>>]
           d == [r EXCEPT !.pc = "detach"]
           w == [r EXCEPT !.pc = "wipe", !.todo = Tail(@)]
<1>1. r.todo \in Seq(Nat) /\ Len(r.todo) \in Nat \ {0} /\ Head(r.todo) = r.todo[1]
  BY DEF Handle
<1>2. /\ a.pc = "allocate" /\ a.op = r.op /\ a.copy = r.copy /\ a.cursor = r.cursor
      /\ d.pc = "detach" /\ d.op = r.op /\ d.key = r.key /\ d.todo = r.todo /\ d.cursor = r.cursor
      /\ w.pc = "wipe" /\ w.op = r.op /\ w.key = r.key /\ w.todo = Tail(r.todo) /\ w.cursor = r.cursor
  BY DEF Handle
<1>3. \A n : (Safe(br, d, n) <=> Safe(br, r, n)) /\ (Safe(br, w, n) <=> Safe(br, r, n))
  BY <1>2 DEF Safe, Others
<1>4. Doomed(br, d) <=> Doomed(br, r)
  BY <1>2 DEF Doomed
<1>5. CASE r.op = "put"
  <2>1. Wiped(r) = a
    BY <1>5 DEF Wiped
  <2> HIDE DEF a
  <2>2. SoleOK(br, a)
    BY <1>2, <1>5 DEF SoleOK, Operates, Stood, Copied, Clears, Descending, Removing, Walking, Deleting
  <2> QED
    BY <1>5, <2>1, <2>2
<1>6. CASE r.op # "put" /\ (r.op = "remove" \/ Head(r.todo) # r.cursor)
  <2>1. Wiped(r) = d
    BY <1>6 DEF Wiped
  <2> HIDE DEF d
  <2>2. PrefixFree => Safe(br, d, Head(d.todo))
    <3>1. 1 \in 1 .. Len(r.todo)
      BY <1>1
    <3> QED
      BY <1>1, <1>2, <1>3, <1>6, <3>1
  <2>3. SoleOK(br, d)
    BY <1>2, <1>3, <1>4, <1>6, <2>2 DEF SoleOK, Operates, Stood, Copied, Clears, Descending, Removing,
                                        Walking, Deleting, Putting
  <2> QED
    BY <1>2, <2>1, <2>3
<1>7. CASE r.op \notin {"put", "remove"} /\ Head(r.todo) = r.cursor
  <2>1. Wiped(r) = IF Tail(r.todo) = <<>> THEN Idle(r) ELSE w
    BY <1>7 DEF Wiped
  <2> HIDE DEF w
  <2>2. ASSUME NEW i \in 1 .. Len(Tail(r.todo))
        PROVE  Tail(r.todo)[i] = r.todo[i + 1] /\ i + 1 \in 1 .. Len(r.todo)
    BY <1>1
  <2>3. SoleOK(br, w)
    <3>1. PrefixFree => \A i \in 1 .. Len(w.todo) : w.todo[i] = w.cursor \/ Safe(br, w, w.todo[i])
      BY <1>2, <1>3, <1>7, <2>2
    <3> QED
      BY <1>2, <1>7, <3>1 DEF SoleOK, Operates, Stood, Copied, Clears, Descending, Removing, Walking,
                              Deleting, Putting
  <2> QED
    BY <1>7, <2>1, <2>3, IdleSole
<1> QED
  BY <1>5, <1>6, <1>7

\* deleteBranch goes on to the links of b, then to the branches it still had to delete.
LEMMA DescendedSole ==
  ASSUME NEW br, NEW r \in Handle, NEW b \in Branch, r.op # "put", r.todo # <<>>,
         r.op = "remove" =>
           r.key \in Key /\ (NodeIn(br, r.key) = 0
                              \/ \E j \in 1 .. Len(r.key) : Children(b) \o Tail(r.todo) = <<Via(br, r.key, j)>>),
         PrefixFree => \A j \in 1 .. Len(Children(b)) : Safe(br, r, Children(b)[j]),
         PrefixFree => \A j \in 1 .. Len(Tail(r.todo)) :
           (r.op # "remove" /\ Tail(r.todo)[j] = r.cursor) \/ Safe(br, r, Tail(r.todo)[j])
  PROVE  /\ SoleOK(br, Descended(r, b))
         /\ r.op = "remove" /\ Descended(r, b).pc = "idle" => NodeIn(br, r.key) = 0
<1> DEFINE todo == Children(b) \o Tail(r.todo)
           c == [r EXCEPT !.pc = "wipe", !.todo = todo,
                          !.copy = NewBranch(0), !.spare = NewBranch(0)]
<1>1. Descended(r, b) = IF todo = <<>> THEN Idle(r) ELSE c
  BY DEF Descended
<1>2. c.pc = "wipe" /\ c.op = r.op /\ c.key = r.key /\ c.todo = todo /\ c.cursor = r.cursor
  BY DEF Handle
<1>3. \A n : Safe(br, c, n) <=> Safe(br, r, n)
  BY <1>2 DEF Safe, Others
<1>4. todo = <<>> => \A x : todo # <<x>>
  OBVIOUS
<1>5. Children(b) \in Seq(Nat) /\ Tail(r.todo) \in Seq(Nat)
  BY BranchTypes DEF Handle
<1>6. PrefixFree => \A i \in 1 .. Len(todo) : (r.op # "remove" /\ todo[i] = r.cursor) \/ Safe(br, r, todo[i])
  <2> DEFINE S == {n \in Nat : (r.op # "remove" /\ n = r.cursor) \/ Safe(br, r, n)}
  <2> SUFFICES ASSUME PrefixFree PROVE \A i \in 1 .. Len(todo) : todo[i] \in S
    OBVIOUS
  <2>1. \A j \in 1 .. Len(Children(b)) : Children(b)[j] \in S
    BY <1>5
  <2>2. \A j \in 1 .. Len(Tail(r.todo)) : Tail(r.todo)[j] \in S
    BY <1>5
  <2> HIDE DEF S
  <2> QED
    BY <1>5, <2>1, <2>2, ConcatOK
<1> HIDE DEF c
<1>7. r.op = "remove" => Doomed(br, c)
  BY <1>2 DEF Doomed
<1>8. SoleOK(br, c)
  <2> HIDE DEF todo
  <2> QED
    BY <1>2, <1>3, <1>6, <1>7 DEF SoleOK, Operates, Stood, Copied, Clears, Descending, Removing, Walking,
                                  Deleting, Putting
<1>9. Idle(r).pc = "idle"
  BY DEF Idle
<1> HIDE DEF todo
<1> QED
  BY <1>1, <1>2, <1>4, <1>8, <1>9, IdleSole DEF todo

-----------------------------------------------------------------------------
(* The actions, with one handle. *)

\* What a step of p has to show.
SoleStep(p) ==
  /\ SoleOK(branch', h'[p])
  /\ h[p].op = "remove" /\ h[p].pc # "idle" /\ h'[p].pc = "idle" => NodeIn(branch', h[p].key) = 0
  /\ PrefixFree => \A k \in Key : NodeIn(branch, k) # 0 /\ NodeIn(branch', k) = 0 =>
       h[p].op = "remove" /\ h[p].key = k

\* A step that takes no link away.
LEMMA GrownSole ==
  ASSUME Inv, NEW p \in Proc, NEW r, h' = [h EXCEPT ![p] = r], Grown(branch, branch'), SoleOK(branch', r),
         h[p].op = "remove" /\ h[p].pc # "idle" /\ r.pc = "idle" => NodeIn(branch', h[p].key) = 0
  PROVE  SoleStep(p)
<1>1. h'[p] = r
  BY DEF Inv, TypeOK
<1>2. \A k \in Key : NodeIn(branch, k) # 0 => NodeIn(branch', k) # 0
  BY WalkStays, KeyAssumption DEF Bits
<1> QED
  BY <1>1, <1>2 DEF SoleStep

\* A step that writes no branch.
LEMMA ReadSole ==
  ASSUME Inv, NEW p \in Proc, NEW r, h' = [h EXCEPT ![p] = r], branch' = branch, SoleOK(branch, r),
         h[p].op = "remove" /\ h[p].pc # "idle" /\ r.pc = "idle" => NodeIn(branch, h[p].key) = 0
  PROVE  SoleStep(p)
<1>1. Grown(branch, branch')
  BY DEF Grown
<1> QED
  BY <1>1, GrownSole

\* What is known of the handle that acts.
LEMMA ActingSole ==
  ASSUME SoleInv, NEW p \in Proc
  PROVE  /\ h[p] \in Handle /\ Inv /\ HandleOK(branch, blob, size, mutex, p, h[p])
         /\ Operates(h[p]) /\ Stood(branch, h[p]) /\ Copied(branch, h[p]) /\ Clears(branch, h[p])
  BY Acting DEF SoleInv, SoleOK

\* Opening a file, and starting an operation, puts the handle at the root.
LEMMA OpenSole ==
  ASSUME SoleInv, NEW p \in Proc, Open(p) \/ Create(p) \/ Start(p)
  PROVE  SoleStep(p)
<1>1. /\ h[p] \in Handle /\ Inv /\ HandleOK(branch, blob, size, mutex, p, h[p])
      /\ Operates(h[p]) /\ Stood(branch, h[p])
  BY ActingSole
<1>2. CASE Open(p)
  <2> DEFINE c == [h[p] EXCEPT !.pc = "create"]
  <2>1. h[p].op = "insert" /\ h[p].cursor = 0
    BY <1>1, <1>2 DEF Operates, Stood, Open
  <2>2. c.pc = "create" /\ c.op = "insert" /\ c.cursor = 0
    BY <1>1, <2>1 DEF Handle
  <2>3. h' = [h EXCEPT ![p] = c] \/ h' = [h EXCEPT ![p] = Idle(h[p])]
    BY <1>2 DEF Open, Become
  <2> HIDE DEF c
  <2>4. SoleOK(branch, c)
    BY <2>2 DEF SoleOK, Operates, Stood, Copied, Clears, Descending, Removing, Walking, Putting, Deleting
  <2> QED
    BY <1>1, <1>2, <2>1, <2>3, <2>4, IdleSole, ReadSole DEF Open
<1>3. CASE Create(p)
  <2>1. h' = [h EXCEPT ![p] = Idle(h[p])] /\ h[p].op = "insert"
    BY <1>1, <1>3 DEF Create, Become, Operates
  <2>2. Grown(branch, branch')
    <3>1. CASE size = 0
      <4>1. 0 \notin DOMAIN branch /\ branch' = Written(branch, 0, NewBranch(0))
        BY <1>1, <1>3, <3>1 DEF Inv, WellFormed, Create
      <4> QED
        BY <4>1 DEF Grown, Written
    <3>2. CASE size # 0
      BY <1>3, <3>2 DEF Create, Grown
    <3> QED
      BY <3>1, <3>2
  <2> QED
    BY <1>1, <2>1, <2>2, IdleSole, GrownSole
<1>4. CASE Start(p)
  <2>1. PICK o \in Ops, k \in Key, v \in Value \cup {NoValue} :
          h' = [h EXCEPT ![p] =
                  [h[p] EXCEPT !.pc = IF o \in {"get", "remove"} THEN "seek" ELSE "walk",
                               !.op = o, !.key = k, !.val = v, !.left = @ - 1]]
    BY <1>4 DEF Start, Become
  <2> DEFINE r == [h[p] EXCEPT !.pc = IF o \in {"get", "remove"} THEN "seek" ELSE "walk",
                               !.op = o, !.key = k, !.val = v, !.left = @ - 1]
  <2>2. h[p].pc = "idle" /\ h[p].pos = 0 /\ h[p].cursor = 0
    BY <1>1, <1>4 DEF Start, Stood, HandleOK
  <2>3. /\ r.pc = (IF o \in {"get", "remove"} THEN "seek" ELSE "walk") /\ r.op = o /\ r.key = k
        /\ r.pos = 0 /\ r.cursor = 0
    BY <1>1, <2>2 DEF Handle
  <2>4. o \in {"insert", "put", "get", "clear", "remove"}
    BY BoundAssumption DEF AllOps
  <2> HIDE DEF r
  <2>5. Passed(r) = <<>>
    <3>1. k \in Bits
      BY KeyAssumption DEF Bits
    <3> QED
      BY <2>3, <3>1, PrefixBits DEF Passed, Bits
  <2>6. r.pc \in {"seek", "walk"} /\ Operates(r)
    BY <2>3, <2>4 DEF Operates, Descending
  <2>7. SoleOK(branch, r)
    BY <2>3, <2>5, <2>6, WalkOn DEF SoleOK, Stood, Copied, Clears, Descending, Removing, Walking, Putting,
                                    Deleting
  <2>8. h' = [h EXCEPT ![p] = r] /\ branch' = branch
    BY <1>4, <2>1 DEF r, Start
  <2> QED
    BY <1>1, <2>2, <2>7, <2>8, ReadSole
<1> QED
  BY <1>2, <1>3, <1>4

\* goLeft and goRight follow a link, or add one that was missing.
LEMMA WalkSole ==
  ASSUME SoleInv, NEW p \in Proc, Walk(p)
  PROVE  SoleStep(p)
<1> DEFINE s == [h[p] EXCEPT !.pc = "walk"]
           t == [h[p] EXCEPT !.pc = "walk", !.copy = NewBranch(0), !.fresh = 0]
<1>1. /\ h[p] \in Handle /\ Inv /\ HandleOK(branch, blob, size, mutex, p, h[p])
      /\ Operates(h[p]) /\ Stood(branch, h[p]) /\ Copied(branch, h[p])
      /\ h[p].pc \in Descending
  BY ActingSole DEF Walk, Go, Claim, GetNextIndex, SetLink, Descending
<1>2. /\ h[p].pos < Len(h[p].key) /\ h[p].pos \in Nat /\ h[p].key \in Key
      /\ h[p].pos <= Len(h[p].key) /\ h[p].cursor \in DOMAIN branch
      /\ h[p].cursor = NodeIn(branch, Passed(h[p])) /\ (h[p].pos > 0 => h[p].cursor # 0)
      /\ h[p].op \in {"insert", "put", "clear"}
  <2>1. h[p].pos \in Nat /\ Len(h[p].key) \in Nat
    BY <1>1 DEF Handle
  <2> QED
    BY <1>1, <2>1 DEF Stood, Operates, Descending, Walking, HandleOK
<1>3. /\ s \in Handle /\ s.pc = "walk" /\ s.key = h[p].key /\ s.pos = h[p].pos
      /\ s.cursor = h[p].cursor /\ s.op = h[p].op
      /\ t \in Handle /\ t.pc = "walk" /\ t.key = h[p].key /\ t.pos = h[p].pos
      /\ t.cursor = h[p].cursor /\ t.op = h[p].op
  BY <1>1, PCs, BranchTypes DEF Handle
<1> HIDE DEF s, t
<1>4. /\ NextBit(s) = NextBit(h[p]) /\ Passed(s) = Passed(h[p])
      /\ NextBit(t) = NextBit(h[p]) /\ Passed(t) = Passed(h[p])
      /\ Operates(s) /\ Operates(t)
  BY <1>2, <1>3 DEF NextBit, Passed, Operates, Descending
<1>5. ASSUME NEW i, i = Link(branch[h[p].cursor], NextBit(h[p])), i # 0
      PROVE  SoleOK(branch, Moved(s, i)) /\ (h[p].pc = "walk" => SoleOK(branch, Moved(h[p], i)))
  <2>1. i \in Nat
    BY <1>1, <1>2, <1>5, LinkOK
  <2> QED
    BY <1>1, <1>2, <1>3, <1>4, <1>5, <2>1, MovedSole
<1>6. CASE Go(p)
  <2> DEFINE c == [h[p] EXCEPT !.pc = "claim"]
  <2>1. c.pc = "claim" /\ c.key = h[p].key /\ c.pos = h[p].pos /\ c.cursor = h[p].cursor
        /\ c.op = h[p].op
    BY <1>1 DEF Handle
  <2> HIDE DEF c
  <2>2. Passed(c) = Passed(h[p])
    BY <2>1 DEF Passed
  <2>3. SoleOK(branch, c)
    BY <1>2, <2>1, <2>2 DEF SoleOK, Operates, Stood, Copied, Clears, Descending, Removing, Walking,
                            Putting, Deleting
  <2>4. PICK r : h' = [h EXCEPT ![p] = r] /\ SoleOK(branch, r)
    BY <1>5, <1>6, <2>3 DEF Go, Become, c
  <2> QED
    BY <1>1, <1>2, <1>6, <2>4, ReadSole DEF Go
<1>7. CASE Claim(p)
  <2> DEFINE c == [h[p] EXCEPT !.pc = "append", !.copy = branch[h[p].cursor], !.fresh = size]
  <2>1. c.pc = "append" /\ c.key = h[p].key /\ c.pos = h[p].pos /\ c.cursor = h[p].cursor
        /\ c.op = h[p].op /\ c.copy = branch[h[p].cursor]
    BY <1>1 DEF Handle
  <2> HIDE DEF c
  <2>2. Passed(c) = Passed(h[p]) /\ NextBit(c) = NextBit(h[p])
    BY <2>1 DEF Passed, NextBit
  <2>3. Link(branch[h[p].cursor], NextBit(h[p])) = 0 => SoleOK(branch, c)
    BY <1>2, <2>1, <2>2 DEF SoleOK, Operates, Stood, Copied, Clears, Descending, Removing, Walking,
                            Putting, Deleting, SameLinks
  <2>4. PICK r : h' = [h EXCEPT ![p] = r] /\ SoleOK(branch, r)
    BY <1>5, <1>7, <2>3 DEF Claim, Become, c, s
  <2> QED
    BY <1>1, <1>2, <1>7, <2>4, ReadSole DEF Claim
<1>8. CASE GetNextIndex(p)
  <2> DEFINE c == [h[p] EXCEPT !.pc = "link"]
  <2>1. c.pc = "link" /\ c.key = h[p].key /\ c.pos = h[p].pos /\ c.cursor = h[p].cursor
        /\ c.op = h[p].op /\ c.copy = h[p].copy
    BY <1>1 DEF Handle
  <2> HIDE DEF c
  <2>2. size \notin DOMAIN branch /\ h[p].fresh = size /\ h[p].pc = "append"
    BY <1>1, <1>8 DEF Inv, TypeOK, WellFormed, HandleOK, GetNextIndex
  <2>3. branch' = Written(branch, size, NewBranch(h[p].cursor)) /\ h' = [h EXCEPT ![p] = c]
    BY <1>8, <2>2 DEF GetNextIndex, Become, c
  <2>4. branch'[h[p].cursor] = branch[h[p].cursor] /\ Grown(branch, branch')
    BY <1>2, <2>2, <2>3 DEF Written, Grown
  <2>5. NodeIn(branch', Passed(h[p])) = h[p].cursor
    BY <1>1, <1>2, <2>4, WalkStays, PassedBits, WalkOn
  <2>6. Passed(c) = Passed(h[p]) /\ NextBit(c) = NextBit(h[p])
    BY <2>1 DEF Passed, NextBit
  <2>7. SameLinks(h[p].copy, branch[h[p].cursor]) /\ Link(branch[h[p].cursor], NextBit(h[p])) = 0
    BY <1>1, <2>2 DEF Copied
  <2>8. SoleOK(branch', c)
    BY <1>2, <2>1, <2>4, <2>5, <2>6, <2>7 DEF SoleOK, Operates, Stood, Copied, Clears, Descending, Removing,
                                              Walking, Putting, Deleting
  <2> QED
    BY <1>1, <1>2, <2>3, <2>4, <2>8, GrownSole
<1>9. CASE SetLink(p)
  <2> DEFINE b == WithLink(h[p].copy, NextBit(h[p]), h[p].fresh)
  <2>1. /\ h[p].pc = "link" /\ branch' = [branch EXCEPT ![h[p].cursor] = b]
        /\ h' = [h EXCEPT ![p] = Moved(t, h[p].fresh)]
    BY <1>9 DEF SetLink, Become, t
  <2>2. /\ SameLinks(h[p].copy, branch[h[p].cursor])
        /\ Link(branch[h[p].cursor], NextBit(h[p])) = 0
        /\ h[p].fresh \in Nat /\ h[p].fresh # 0 /\ h[p].copy \in Branch
    BY <1>1, <1>2, <2>1 DEF Copied, HandleOK, ChildOf, Handle, Inv, TypeOK
  <2>3. /\ Link(b, NextBit(h[p])) = h[p].fresh
        /\ branch[h[p].cursor].left # 0 => b.left = branch[h[p].cursor].left
        /\ branch[h[p].cursor].right # 0 => b.right = branch[h[p].cursor].right
    BY <2>2 DEF WithLink, Link, SameLinks, Branch
  <2> HIDE DEF b
  <2>4. \A n \in DOMAIN branch : n \in DOMAIN branch' /\
          branch'[n] = IF n = h[p].cursor THEN b ELSE branch[n]
    BY <1>1, <2>1 DEF Inv, TypeOK
  <2>5. Grown(branch, branch')
    BY <2>3, <2>4 DEF Grown
  <2>6. h[p].cursor = NodeIn(branch', Passed(h[p]))
    BY <1>1, <1>2, <2>5, WalkStays, PassedBits, WalkOn
  <2>7. /\ h[p].cursor \in DOMAIN branch'
        /\ Link(branch'[h[p].cursor], NextBit(h[p])) = h[p].fresh
    BY <1>2, <2>3, <2>4
  <2>8. SoleOK(branch', Moved(t, h[p].fresh))
    BY <1>2, <1>3, <1>4, <2>2, <2>6, <2>7, MovedSole
  <2> QED
    BY <1>1, <1>2, <2>1, <2>5, <2>8, GrownSole
<1> QED
  BY <1>6, <1>7, <1>8, <1>9 DEF Walk

\* setData reads its branch, and writes it back with the links it has.
LEMMA SetDataSole ==
  ASSUME SoleInv, NEW p \in Proc, SetData(p)
  PROVE  SoleStep(p)
<1>1. /\ h[p] \in Handle /\ Inv /\ HandleOK(branch, blob, size, mutex, p, h[p]) /\ Copied(branch, h[p])
      /\ h[p].pc \in {"load", "allocate", "header", "payload", "store", "rewrite"}
  BY ActingSole DEF SetData, Load, Allocate, WriteHeader, WritePayload, SetBranch, Rewrite
<1>2. h[p].op = "put" /\ h[p].cursor \in DOMAIN branch
  BY <1>1 DEF HandleOK
<1>3. CASE Load(p)
  <2> DEFINE b == branch[h[p].cursor]
             s == [h[p] EXCEPT !.copy = b, !.locked = TRUE]
             w == [s EXCEPT !.pc = "wipe", !.todo = <<s.cursor>>, !.copy.data = 0]
             a == [s EXCEPT !.pc = "allocate"]
             e == [s EXCEPT !.pc = "rewrite"]
  <2>1. b \in Branch
    BY <1>1, <1>2, LinkOK
  <2>2. s \in Handle /\ s.copy = b /\ s.cursor = h[p].cursor /\ s.op = "put"
    BY <1>1, <1>2, <2>1 DEF Handle
  <2> HIDE DEF s
  <2>3. /\ a.pc = "allocate" /\ a.copy = b /\ a.cursor = h[p].cursor /\ a.op = "put"
        /\ e.pc = "rewrite" /\ e.copy = b /\ e.cursor = h[p].cursor /\ e.op = "put"
        /\ w.pc = "wipe" /\ SameLinks(w.copy, b) /\ w.cursor = h[p].cursor /\ w.op = "put"
        /\ w.todo = <<h[p].cursor>>
    BY <2>1, <2>2 DEF Handle, Branch, SameLinks
  <2>4. \/ h' = [h EXCEPT ![p] = a] \/ h' = [h EXCEPT ![p] = e]
        \/ h' = [h EXCEPT ![p] = w] \/ h' = [h EXCEPT ![p] = Idle(s)]
    BY <1>3 DEF Load, Become, s
  <2> HIDE DEF a, e, w
  <2>5. SoleOK(branch, a) /\ SoleOK(branch, e) /\ SoleOK(branch, w)
    BY <2>3 DEF SoleOK, Operates, Stood, Copied, Clears, Descending, Removing, Walking, Putting, Deleting,
                SameLinks
  <2> QED
    BY <1>1, <1>2, <1>3, <2>4, <2>5, IdleSole, ReadSole DEF Load
<1>4. CASE Allocate(p) \/ WriteHeader(p) \/ WritePayload(p)
  <2> DEFINE a == [h[p] EXCEPT !.pc = "header", !.fresh = size]
             b == [h[p] EXCEPT !.pc = "payload"]
             c == [h[p] EXCEPT !.pc = "store"]
  <2>1. SameLinks(h[p].copy, branch[h[p].cursor])
    BY <1>1, <1>2, <1>4 DEF Copied, Putting, Allocate, WriteHeader, WritePayload
  <2>2. \A r \in {a, b, c} :
          /\ r.pc \in {"header", "payload", "store"} /\ r.copy = h[p].copy /\ r.op = h[p].op
          /\ r.cursor = h[p].cursor
    BY <1>1 DEF Handle
  <2>3. branch' = branch /\ \E r \in {a, b, c} : h' = [h EXCEPT ![p] = r]
    BY <1>4 DEF Allocate, WriteHeader, WritePayload, Become
  <2> HIDE DEF a, b, c
  <2>4. \A r \in {a, b, c} : SoleOK(branch, r)
    BY <1>2, <2>1, <2>2 DEF SoleOK, Operates, Stood, Copied, Clears, Descending, Removing, Walking, Putting,
                            Deleting
  <2> QED
    BY <1>1, <1>2, <2>3, <2>4, ReadSole
<1>5. CASE SetBranch(p)
  <2> DEFINE b == [h[p].copy EXCEPT !.data = h[p].fresh]
  <2>1. SameLinks(b, branch[h[p].cursor])
    BY <1>1, <1>2, <1>5 DEF Copied, Putting, SetBranch, SameLinks, Handle, Branch
  <2>2. branch' = [branch EXCEPT ![h[p].cursor] = b] /\ h' = [h EXCEPT ![p] = Idle(h[p])]
    BY <1>5 DEF SetBranch, Become
  <2> HIDE DEF b
  <2>3. Grown(branch, branch')
    BY <1>1, <2>1, <2>2 DEF Grown, SameLinks, Inv, TypeOK
  <2> QED
    BY <1>1, <1>2, <2>2, <2>3, IdleSole, GrownSole
<1>6. CASE Rewrite(p)
  BY <1>1, <1>2, <1>6, IdleSole, ReadSole DEF Rewrite, Become
<1> QED
  BY <1>3, <1>4, <1>5, <1>6 DEF SetData

\* contains follows links; when one is missing the key is not there.
LEMMA SeekSole ==
  ASSUME SoleInv, NEW p \in Proc, Read(p)
  PROVE  SoleStep(p)
<1>1. /\ h[p] \in Handle /\ Inv /\ HandleOK(branch, blob, size, mutex, p, h[p])
      /\ Operates(h[p]) /\ Stood(branch, h[p])
  BY ActingSole
<1>2. CASE ContainsBit(p)
  <2>1. /\ h[p].pc = "seek" /\ h[p].pos < Len(h[p].key) /\ h[p].pos \in Nat /\ Len(h[p].key) \in Nat
        /\ h[p].key \in Key /\ h[p].cursor \in DOMAIN branch
        /\ h[p].cursor = NodeIn(branch, Passed(h[p])) /\ (h[p].pos > 0 => h[p].cursor # 0)
    BY <1>1, <1>2 DEF ContainsBit, Stood, Walking, HandleOK, Handle
  <2> DEFINE i == Link(branch[h[p].cursor], NextBit(h[p]))
  <2>2. i \in Nat
    BY <1>1, <2>1, LinkOK
  <2>3. i # 0 => SoleOK(branch, Moved(h[p], i)) /\ (h[p].op = "remove" => Moved(h[p], i).pc # "idle")
    BY <1>1, <2>1, <2>2, MovedSole
  <2>4. i = 0 => NodeIn(branch, h[p].key) = 0
    <3>1. h[p].key \in Bits /\ h[p].pos \in 0 .. Len(h[p].key) - 1
      BY <1>1, <2>1 DEF Handle, Bits
    <3>2. Via(branch, h[p].key, h[p].pos) = h[p].cursor
      BY <2>1 DEF Via, Passed
    <3> QED
      BY <3>1, <3>2, ViaLinked DEF NextBit
  <2>5. \/ i = 0 /\ h' = [h EXCEPT ![p] = Idle(h[p])]
        \/ i # 0 /\ h' = [h EXCEPT ![p] = Moved(h[p], i)]
    BY <1>2 DEF ContainsBit, Become
  <2> HIDE DEF i
  <2>6. branch' = branch
    BY <1>2 DEF ContainsBit
  <2> QED
    BY <1>1, <2>3, <2>4, <2>5, <2>6, IdleSole, ReadSole
<1>3. CASE GetBranch(p)
  <2> DEFINE c == [h[p] EXCEPT !.pc = "read", !.copy = branch[h[p].cursor]]
  <2>1. h[p].op = "get"
    BY <1>1, <1>3 DEF Operates, GetBranch
  <2>2. c.pc = "read" /\ c.op = "get"
    BY <1>1, <2>1 DEF Handle
  <2>3. h' = [h EXCEPT ![p] = Idle(h[p])] \/ h' = [h EXCEPT ![p] = c]
    BY <1>3 DEF GetBranch, Become
  <2> HIDE DEF c
  <2>4. SoleOK(branch, c)
    BY <2>2 DEF SoleOK, Operates, Stood, Copied, Clears, Descending, Removing, Walking, Putting, Deleting
  <2> QED
    BY <1>1, <1>3, <2>1, <2>3, <2>4, IdleSole, ReadSole DEF GetBranch
<1>4. CASE GetData(p)
  <2>1. h[p].op = "get"
    BY <1>1, <1>4 DEF Operates, GetData
  <2> QED
    BY <1>1, <1>4, <2>1, IdleSole, ReadSole DEF GetData, Become
<1> QED
  BY <1>2, <1>3, <1>4 DEF Read

\* A walk of another key does not come through a branch below the end of a key.
LEMMA BelowSafe ==
  ASSUME PrefixFree, WellFormed, NEW l \in Key, NodeIn(branch, l) # 0, NEW c, c # 0,
         ChildOf(branch, NodeIn(branch, l), c), NEW k \in Key
  PROVE  ~ Passes(branch, k, c)
<1> SUFFICES ASSUME NodeIn(branch, k) # 0, NEW j \in 0 .. Len(k), Via(branch, k, j) = c PROVE FALSE
  BY DEF Passes
<1>1. k \in Bits /\ l \in Bits /\ Len(k) \in Nat /\ Len(l) \in Nat
  BY KeyAssumption DEF Bits
<1>2. j # 0
  <2>1. SubSeq(k, 1, 0) = <<>>
    BY <1>1, PrefixBits
  <2> QED
    BY <2>1, WalkOn DEF Via
<1>3. PICK i \in 0 .. Len(k) - 1 : j = i + 1
  BY <1>1, <1>2
<1>4. Via(branch, k, i) \in DOMAIN branch /\ c = Link(branch[Via(branch, k, i)], k[i + 1])
  BY <1>1, <1>3, ViaLinked
<1>5. ChildOf(branch, Via(branch, k, i), c)
  BY <1>4 DEF WellFormed, SoundAt, Link
<1>6. NodeIn(branch, SubSeq(k, 1, i)) = NodeIn(branch, l)
  BY <1>5 DEF ChildOf, Via
<1>7. SubSeq(k, 1, i) \in Bits /\ Len(SubSeq(k, 1, i)) = i
  BY <1>1, FrontBits
<1>8. l = SubSeq(k, 1, i)
  BY <1>1, <1>6, <1>7, WalkInjective
<1>9. l = k
  <2>1. i \in 0 .. Len(k)
    BY <1>1
  <2> QED
    BY <1>8, <2>1 DEF PrefixFree
<1> QED
  BY <1>1, <1>7, <1>8, <1>9

\* Path::clear() deletes what is below the end of its key.
LEMMA ClearSole ==
  ASSUME SoleInv, NEW p \in Proc, Clear(p)
  PROVE  SoleStep(p)
<1> DEFINE n == h[p].cursor
           b == branch[n]
           s == IF b.data # 0 THEN <<n>> ELSE <<>>
           todo == s \o Children(b)
           r == [h[p] EXCEPT !.pc = "wipe", !.todo = todo]
<1>1. /\ h[p] \in Handle /\ Inv /\ HandleOK(branch, blob, size, mutex, p, h[p])
      /\ Operates(h[p]) /\ Stood(branch, h[p]) /\ h[p].pc = "clear"
  BY ActingSole DEF Clear
<1>2. /\ h[p].op = "clear" /\ h[p].key \in Key /\ h[p].pos = Len(h[p].key) /\ n \in DOMAIN branch
      /\ n = NodeIn(branch, Passed(h[p])) /\ (h[p].pos > 0 => n # 0)
  BY <1>1 DEF Operates, Stood, HandleOK
<1>3. n = NodeIn(branch, h[p].key) /\ n # 0
  <2>1. h[p].key \in Bits /\ h[p].key # <<>>
    BY <1>2, KeyAssumption DEF Bits
  <2>2. Len(h[p].key) > 0 /\ SubSeq(h[p].key, 1, Len(h[p].key)) = h[p].key
    BY <2>1 DEF Bits
  <2> QED
    BY <1>2, <2>2 DEF Passed
<1>4. b \in Branch /\ SoundAt(branch, blob, n, b) /\ n \in Nat /\ WellFormed
  BY <1>1, <1>2, Acting DEF Inv, WellFormed
<1>5. PrefixFree => \A i \in 1 .. Len(todo) : todo[i] = n \/ \A k \in Key : ~ Passes(branch, k, todo[i])
  <2> DEFINE S == {i \in Nat : i = n \/ \A k \in Key : ~ Passes(branch, k, i)}
  <2> SUFFICES ASSUME PrefixFree PROVE \A i \in 1 .. Len(todo) : todo[i] \in S
    OBVIOUS
  <2>1. s \in Seq(Nat) /\ \A i \in 1 .. Len(s) : s[i] \in S
    BY <1>4
  <2>2. Children(b) \in Seq(Nat)
    BY <1>4, BranchTypes
  <2>3. ASSUME NEW i \in 1 .. Len(Children(b)) PROVE Children(b)[i] \in S
    <3> DEFINE c == Children(b)[i]
    <3>1. c \in {b.left, b.right} \ {0} /\ c \in Nat
      BY <1>4, <2>2, <2>3, ChildrenAreLinks
    <3> HIDE DEF c
    <3>2. ChildOf(branch, n, c)
      BY <1>4, <3>1 DEF SoundAt
    <3>3. \A k \in Key : ~ Passes(branch, k, c)
      BY <1>2, <1>3, <1>4, <3>1, <3>2, BelowSafe
    <3>4. c \in S
      BY <3>1, <3>3
    <3> QED
      BY <3>4 DEF c
  <2> HIDE DEF S, s
  <2> QED
    BY <2>1, <2>2, <2>3, ConcatOK
<1>6. CASE todo = <<>>
  BY <1>1, <1>2, <1>6, IdleSole, ReadSole DEF Clear, Become
<1>7. CASE todo # <<>>
  <2>1. r.pc = "wipe" /\ r.op = "clear" /\ r.todo = todo /\ r.cursor = n
    BY <1>1, <1>2 DEF Handle
  <2>2. h' = [h EXCEPT ![p] = r] /\ branch' = branch
    BY <1>7 DEF Clear, Become
  <2> HIDE DEF r, todo
  <2>3. Others(r) = Key
    BY <2>1 DEF Others
  <2>4. SoleOK(branch, r)
    BY <1>5, <2>1, <2>3 DEF SoleOK, Operates, Stood, Copied, Clears, Descending, Removing, Walking, Putting,
                            Deleting, Safe
  <2> QED
    BY <1>1, <1>2, <2>2, <2>4, ReadSole
<1> QED
  BY <1>6, <1>7

\* clear(value) goes one bit on, and remembers the last branch with two links.
LEMMA TraceSole ==
  ASSUME SoleInv, NEW p \in Proc, Trace(p)
  PROVE  SoleStep(p)
<1> DEFINE k == h[p].key
           b == branch[h[p].cursor]
           bit == NextBit(h[p])
           r == [h[p] EXCEPT !.cursor = Link(b, bit), !.pos = @ + 1,
                             !.pc = IF h[p].pos + 1 < Len(h[p].key) THEN "trace" ELSE "prune"]
           f == [r EXCEPT !.fork = h[p].cursor, !.side = bit]
<1>1. /\ h[p] \in Handle /\ Inv /\ HandleOK(branch, blob, size, mutex, p, h[p])
      /\ Stood(branch, h[p]) /\ Clears(branch, h[p]) /\ h[p].pc = "trace"
  BY ActingSole DEF Trace
<1>2. /\ h[p].op = "remove" /\ k \in Key /\ h[p].pos < Len(k) /\ h[p].pos \in Nat /\ Len(k) \in Nat
      /\ h[p].cursor \in DOMAIN branch /\ h[p].cursor = NodeIn(branch, Passed(h[p]))
      /\ NodeIn(branch, k) # 0 /\ Forked(branch, h[p]) /\ k \in Bits
  BY <1>1 DEF Stood, Clears, HandleOK, Handle, Bits
<1>3. h[p].pos \in 0 .. Len(k) - 1 /\ Via(branch, k, h[p].pos) = h[p].cursor /\ bit = k[h[p].pos + 1]
  BY <1>2 DEF Via, Passed, NextBit
<1>4. Via(branch, k, h[p].pos + 1) = Link(b, bit) /\ Link(b, bit) # 0
  BY <1>2, <1>3, ViaLinked
<1>5. /\ r.pc \in {"trace", "prune"} /\ (r.pc = "prune" => r.pos = Len(k)) /\ r.pos = h[p].pos + 1
      /\ r.op = "remove" /\ r.key = k /\ r.cursor = Link(b, bit)
      /\ r.fork = h[p].fork /\ r.side = h[p].side
  BY <1>1, <1>2 DEF Handle
<1>6. /\ f.pc = r.pc /\ f.pos = r.pos /\ f.op = "remove" /\ f.key = k /\ f.cursor = r.cursor
      /\ f.fork = h[p].cursor /\ f.side = bit
  BY <1>1, <1>5 DEF Handle
<1>7. \/ Single(b) /\ h' = [h EXCEPT ![p] = r]
      \/ h' = [h EXCEPT ![p] = f]
  BY DEF Trace, Become, Single
<1>8. branch' = branch
  BY DEF Trace
<1> HIDE DEF k, r, f, bit
<1>9. Single(b) => Forked(branch, r)
  <2> SUFFICES ASSUME Single(b) PROVE Forked(branch, r)
    OBVIOUS
  <2>1. Single(branch[Via(branch, k, h[p].pos)])
    BY <1>3
  <2>2. \/ /\ h[p].fork = 0 /\ h[p].side = 1
           /\ \A i \in 0 .. h[p].pos - 1 : Single(branch[Via(branch, k, i)])
        \/ \E j \in 0 .. h[p].pos - 1 :
             /\ h[p].fork = Via(branch, k, j) /\ h[p].side = k[j + 1]
             /\ \A i \in j + 1 .. h[p].pos - 1 : Single(branch[Via(branch, k, i)])
    BY <1>2 DEF Forked, k
  <2>3. \A i : i \in 0 .. r.pos - 1 => i \in 0 .. h[p].pos - 1 \/ i = h[p].pos
    BY <1>2, <1>5
  <2>4. CASE /\ h[p].fork = 0 /\ h[p].side = 1
             /\ \A i \in 0 .. h[p].pos - 1 : Single(branch[Via(branch, k, i)])
    <3>1. r.fork = 0 /\ r.side = 1 /\ \A i \in 0 .. r.pos - 1 : Single(branch[Via(branch, r.key, i)])
      BY <1>5, <2>1, <2>3, <2>4
    <3> QED
      BY <3>1 DEF Forked
  <2>5. ASSUME NEW j \in 0 .. h[p].pos - 1, h[p].fork = Via(branch, k, j), h[p].side = k[j + 1],
               \A i \in j + 1 .. h[p].pos - 1 : Single(branch[Via(branch, k, i)])
        PROVE  Forked(branch, r)
    <3>1. j \in 0 .. r.pos - 1
      BY <1>2, <1>5
    <3>2. \A i : i \in j + 1 .. r.pos - 1 => i \in j + 1 .. h[p].pos - 1 \/ i = h[p].pos
      BY <1>2, <1>5
    <3>3. \A i \in j + 1 .. r.pos - 1 : Single(branch[Via(branch, r.key, i)])
      BY <1>5, <2>1, <2>5, <3>2
    <3> QED
      BY <1>5, <2>5, <3>1, <3>3 DEF Forked
  <2> QED
    BY <2>2, <2>4, <2>5
<1>10. Forked(branch, f)
  <2>1. h[p].pos \in 0 .. f.pos - 1 /\ h[p].pos + 1 .. f.pos - 1 = {}
    BY <1>2, <1>5, <1>6
  <2> QED
    BY <1>3, <1>6, <2>1 DEF Forked
<1>11. Passed(r) = SubSeq(k, 1, h[p].pos + 1) /\ Passed(f) = SubSeq(k, 1, h[p].pos + 1)
  BY <1>5, <1>6 DEF Passed
<1>12. NodeIn(branch, Passed(r)) = r.cursor /\ NodeIn(branch, Passed(f)) = f.cursor /\ r.cursor # 0
  BY <1>4, <1>5, <1>6, <1>11 DEF Via
<1>13. Single(b) => SoleOK(branch, r)
  BY <1>2, <1>5, <1>9, <1>12 DEF SoleOK, Operates, Stood, Copied, Clears, Descending, Removing, Walking,
                                 Putting, Deleting
<1>14. SoleOK(branch, f)
  BY <1>2, <1>5, <1>6, <1>10, <1>12 DEF SoleOK, Operates, Stood, Copied, Clears, Descending, Removing,
                                        Walking, Putting, Deleting
<1> QED
  BY <1>1, <1>5, <1>6, <1>7, <1>8, <1>13, <1>14, ReadSole

\* The branch on the side of the last fork leads to the key that is cleared, and to no other.
LEMMA ForkLeads ==
  ASSUME WellFormed, NEW r \in Handle, r.key \in Key, r.op = "remove", r.pos = Len(r.key),
         NodeIn(branch, r.key) # 0, Forked(branch, r), NEW n, n = Link(branch[r.fork], r.side)
  PROVE  /\ (n = 0 /\ Single(branch[0])) \/ \E j \in 1 .. Len(r.key) : n = Via(branch, r.key, j)
         /\ PrefixFree => Safe(branch, r, n)
<1> DEFINE k == r.key
<1>1. k \in Bits /\ Len(k) \in Nat \ {0} /\ SubSeq(k, 1, 0) = <<>>
  BY KeyAssumption DEF Bits
<1>2. Via(branch, k, 0) = 0
  BY <1>1, WalkOn DEF Via
<1>3. CASE /\ r.fork = 0 /\ r.side = 1
           /\ \A i \in 0 .. r.pos - 1 : Single(branch[Via(branch, k, i)])
  <2>1. Single(branch[0]) /\ n = branch[0].right
    <3>1. 0 \in 0 .. r.pos - 1
      BY <1>1
    <3> QED
      BY <1>2, <1>3, <3>1 DEF Link
  <2>2. n # 0 => n = Via(branch, k, 1)
    <3>1. 0 \in 0 .. Len(k) - 1
      BY <1>1
    <3>2. Via(branch, k, 0 + 1) # 0 /\ Via(branch, k, 0 + 1) = Link(branch[Via(branch, k, 0)], k[0 + 1])
      BY <1>1, <3>1, ViaLinked
    <3> QED
      BY <1>2, <2>1, <3>2 DEF Single, Link
  <2>3. (n = 0 /\ Single(branch[0])) \/ \E j \in 1 .. Len(k) : n = Via(branch, k, j)
    <3>1. 1 \in 1 .. Len(k)
      BY <1>1
    <3> QED
      BY <2>1, <2>2, <3>1
  <2>4. ASSUME PrefixFree, NEW l \in Key \ {k}, NodeIn(branch, l) # 0 PROVE FALSE
    <3>1. PICK i \in 0 .. Len(k) - 1 : ~ Single(branch[Via(branch, k, i)])
      BY <2>4, Parting
    <3> QED
      BY <1>3, <3>1
  <2>5. PrefixFree => Safe(branch, r, n)
    BY <2>4 DEF Safe, Others, Passes
  <2> QED
    BY <2>3, <2>5
<1>4. ASSUME NEW j \in 0 .. r.pos - 1, r.fork = Via(branch, k, j), r.side = k[j + 1],
             \A i \in j + 1 .. r.pos - 1 : Single(branch[Via(branch, k, i)])
      PROVE  /\ \E m \in 1 .. Len(k) : n = Via(branch, k, m)
             /\ PrefixFree => Safe(branch, r, n)
  <2>1. j \in 0 .. Len(k) - 1 /\ j + 1 \in 1 .. Len(k) /\ j + 1 \in 0 .. Len(k)
    BY <1>1
  <2>2. n = Via(branch, k, j + 1) /\ n # 0
    BY <1>1, <1>4, <2>1, ViaLinked
  <2>3. ASSUME PrefixFree, NEW l \in Key \ {k}, NodeIn(branch, l) # 0, NEW m \in 0 .. Len(l),
               Via(branch, l, m) = n
        PROVE  FALSE
    <3>1. l \in Bits /\ Len(l) \in Nat
      BY KeyAssumption DEF Bits
    <3>2. /\ SubSeq(l, 1, m) \in Bits /\ Len(SubSeq(l, 1, m)) = m
          /\ \A i \in 1 .. m : SubSeq(l, 1, m)[i] = l[i]
      BY <3>1, PrefixBits
    <3>3. /\ SubSeq(k, 1, j + 1) \in Bits /\ Len(SubSeq(k, 1, j + 1)) = j + 1
          /\ \A i \in 1 .. j + 1 : SubSeq(k, 1, j + 1)[i] = k[i]
      BY <1>1, <2>1, PrefixBits
    <3>4. SubSeq(l, 1, m) = SubSeq(k, 1, j + 1)
      BY <2>2, <2>3, <3>2, <3>3, WalkInjective DEF Via
    <3>5. PICK i \in 0 .. Len(k) - 1 :
            i < Len(l) /\ k[i + 1] # l[i + 1] /\ ~ Single(branch[Via(branch, k, i)])
      BY <2>3, Parting
    <3>6. m = j + 1
      BY <3>2, <3>3, <3>4
    <3>7. i \notin 0 .. j
      <4>1. i \in 0 .. j => i + 1 \in 1 .. j + 1
        BY <2>1
      <4> QED
        BY <3>2, <3>3, <3>4, <3>5, <3>6, <4>1
    <3>8. i \in j + 1 .. r.pos - 1
      BY <1>1, <2>1, <3>7
    <3> QED
      BY <1>4, <3>5, <3>8
  <2>4. PrefixFree => Safe(branch, r, n)
    BY <2>3 DEF Safe, Others, Passes
  <2> QED
    BY <2>1, <2>2, <2>4
<1>5. \/ /\ r.fork = 0 /\ r.side = 1
         /\ \A i \in 0 .. r.pos - 1 : Single(branch[Via(branch, k, i)])
      \/ \E j \in 0 .. r.pos - 1 :
           /\ r.fork = Via(branch, k, j) /\ r.side = k[j + 1]
           /\ \A i \in j + 1 .. r.pos - 1 : Single(branch[Via(branch, k, i)])
  BY DEF Forked
<1> QED
  BY <1>3, <1>4, <1>5

\* The branch to be deleted.
LEMMA PruneSole ==
  ASSUME SoleInv, NEW p \in Proc, Prune(p)
  PROVE  SoleStep(p)
<1> DEFINE n == Link(branch[h[p].fork], h[p].side)
           r == [h[p] EXCEPT !.pc = "wipe", !.todo = <<n>>]
<1>1. /\ h[p] \in Handle /\ Inv /\ HandleOK(branch, blob, size, mutex, p, h[p])
      /\ Stood(branch, h[p]) /\ Clears(branch, h[p]) /\ h[p].pc = "prune"
  BY ActingSole DEF Prune
<1>2. /\ h[p].op = "remove" /\ h[p].key \in Key /\ h[p].pos = Len(h[p].key)
      /\ NodeIn(branch, h[p].key) # 0 /\ Forked(branch, h[p]) /\ WellFormed
  BY <1>1 DEF Stood, Clears, HandleOK, Inv
<1>3. /\ (n = 0 /\ Single(branch[0])) \/ \E j \in 1 .. Len(h[p].key) : n = Via(branch, h[p].key, j)
      /\ PrefixFree => Safe(branch, h[p], n)
  <2> HIDE DEF n
  <2> QED
    BY <1>1, <1>2, ForkLeads DEF n
<1>4. r.pc = "wipe" /\ r.op = "remove" /\ r.key = h[p].key /\ r.todo = <<n>>
  BY <1>1, <1>2 DEF Handle
<1>5. h' = [h EXCEPT ![p] = r] /\ branch' = branch
  BY DEF Prune, Become
<1> HIDE DEF r, n
<1>6. Doomed(branch, r)
  BY <1>3, <1>4 DEF Doomed
<1>7. PrefixFree => Safe(branch, r, n)
  BY <1>2, <1>3, <1>4 DEF Safe, Others
<1>8. SoleOK(branch, r)
  BY <1>2, <1>4, <1>6, <1>7 DEF SoleOK, Operates, Stood, Copied, Clears, Descending, Removing, Walking,
                                Putting, Deleting
<1> QED
  BY <1>1, <1>4, <1>5, <1>8, ReadSole

\* What is still to be deleted is the first branch and the others.
LEMMA Todo ==
  ASSUME NEW todo \in Seq(Nat), todo # <<>>
  PROVE  /\ Head(todo) = todo[1] /\ 1 \in 1 .. Len(todo) /\ Head(todo) \in Nat
         /\ Tail(todo) \in Seq(Nat)
         /\ \A j \in 1 .. Len(Tail(todo)) : Tail(todo)[j] = todo[j + 1] /\ j + 1 \in 1 .. Len(todo)
  OBVIOUS

\* Walks that lead where they led pass where they passed.
LEMMA SamePasses ==
  ASSUME NEW br, NEW br2, \A k \in Bits : NodeIn(br2, k) = NodeIn(br, k)
  PROVE  \A k \in Bits : /\ \A j \in 0 .. Len(k) : Via(br2, k, j) = Via(br, k, j)
                         /\ \A n : Passes(br2, k, n) <=> Passes(br, k, n)
<1> SUFFICES ASSUME NEW k \in Bits
             PROVE  /\ \A j \in 0 .. Len(k) : Via(br2, k, j) = Via(br, k, j)
                    /\ \A n : Passes(br2, k, n) <=> Passes(br, k, n)
  OBVIOUS
<1>1. \A j \in 0 .. Len(k) : Via(br2, k, j) = Via(br, k, j)
  BY PrefixBits DEF Via
<1> QED
  BY <1>1 DEF Passes

\* deleteData reads a branch, and writes it back with the links it has.
LEMMA WipeSole ==
  ASSUME SoleInv, NEW p \in Proc, DeleteDataRead(p) \/ DeleteDataWrite(p)
  PROVE  SoleStep(p)
<1> DEFINE n == Head(h[p].todo)
           s == [h[p] EXCEPT !.spare = NewBranch(0)]
           w == [h[p] EXCEPT !.pc = "wiping", !.spare = branch[n]]
           d == [h[p].spare EXCEPT !.data = 0]
<1>1. /\ h[p] \in Handle /\ Inv /\ HandleOK(branch, blob, size, mutex, p, h[p])
      /\ Copied(branch, h[p]) /\ Clears(branch, h[p]) /\ h[p].pc \in {"wipe", "wiping"}
  BY ActingSole DEF DeleteDataRead, DeleteDataWrite
<1>2. /\ h[p].todo # <<>> /\ h[p].todo \in Seq(Nat) /\ n \in DOMAIN branch
      /\ 0 \in DOMAIN branch /\ h[p].cursor \in DOMAIN branch
      /\ h[p].op = "put" => SameLinks(h[p].copy, branch[h[p].cursor]) /\ h[p].todo = <<h[p].cursor>>
      /\ h[p].op = "remove" => h[p].key \in Key /\ Doomed(branch, h[p])
      /\ PrefixFree /\ h[p].op # "put" =>
           \A i \in 1 .. Len(h[p].todo) : \/ h[p].op # "remove" /\ h[p].todo[i] = h[p].cursor
                                          \/ Safe(branch, h[p], h[p].todo[i])
  <2>1. h[p].todo # <<>> /\ h[p].todo \in Seq(Nat) /\ \A i \in 1 .. Len(h[p].todo) : h[p].todo[i] \in DOMAIN branch
    BY <1>1 DEF HandleOK, Deleting, Handle
  <2>2. n \in DOMAIN branch
    BY <2>1, Todo
  <2> QED
    BY <1>1, <2>1, <2>2 DEF HandleOK, Copied, Clears, Putting, Deleting
<1>3. CASE DeleteDataRead(p)
  <2>1. branch' = branch /\ (h' = [h EXCEPT ![p] = Wiped(h[p])] \/ h' = [h EXCEPT ![p] = w])
    BY <1>3 DEF DeleteDataRead, Become
  <2>2. /\ w.pc = "wiping" /\ w.op = h[p].op /\ w.key = h[p].key /\ w.todo = h[p].todo
        /\ w.cursor = h[p].cursor /\ w.copy = h[p].copy /\ w.spare = branch[n]
    BY <1>1 DEF Handle
  <2>3. SoleOK(branch, Wiped(h[p])) /\ (h[p].op = "remove" => Wiped(h[p]).pc # "idle")
    BY <1>1, <1>2, WipedSole
  <2> HIDE DEF w
  <2>4. \A i : Safe(branch, w, i) <=> Safe(branch, h[p], i)
    BY <2>2 DEF Safe, Others
  <2>5. Doomed(branch, w) <=> Doomed(branch, h[p])
    BY <2>2 DEF Doomed
  <2>6. SoleOK(branch, w)
    BY <1>2, <2>2, <2>4, <2>5 DEF SoleOK, Operates, Stood, Copied, Clears, Descending, Removing, Walking,
                                  Putting, Deleting, SameLinks
  <2> QED
    BY <1>1, <2>1, <2>2, <2>3, <2>6, ReadSole
<1>4. CASE DeleteDataWrite(p)
  <2>1. branch' = [branch EXCEPT ![n] = d] /\ h' = [h EXCEPT ![p] = Wiped(s)] /\ h[p].pc = "wiping"
    BY <1>4 DEF DeleteDataWrite, Become
  <2>2. SameLinks(d, branch[n])
    BY <1>1, <2>1 DEF Copied, SameLinks, Handle, Branch
  <2> HIDE DEF d
  <2>3. DOMAIN branch' = DOMAIN branch /\ \A m \in DOMAIN branch : SameLinks(branch'[m], branch[m])
    BY <1>1, <2>1, <2>2 DEF Inv, TypeOK, SameLinks
  <2>4. Grown(branch, branch')
    BY <2>3 DEF Grown, SameLinks
  <2>5. \A k \in Bits : NodeIn(branch', k) = NodeIn(branch, k)
    BY <2>3, WalkSame
  <2>6. s \in Handle
    BY <1>1, BranchTypes DEF Handle
  <2>7. /\ s.pc = h[p].pc /\ s.op = h[p].op /\ s.key = h[p].key /\ s.todo = h[p].todo
        /\ s.cursor = h[p].cursor /\ s.copy = h[p].copy
    BY <1>1 DEF Handle
  <2> HIDE DEF s
  <2>8. \A i : Safe(branch', s, i) <=> Safe(branch, h[p], i)
    <3>1. \A k \in Key : k \in Bits
      BY KeyAssumption DEF Bits
    <3>2. Others(s) = Others(h[p]) /\ \A k \in Others(s) : k \in Key
      BY <2>7 DEF Others
    <3>3. \A i : \A k \in Key : Passes(branch', k, i) <=> Passes(branch, k, i)
      BY <2>5, <3>1, SamePasses
    <3> QED
      BY <3>2, <3>3 DEF Safe
  <2>9. h[p].op = "remove" => Doomed(branch', s)
    <3> SUFFICES ASSUME h[p].op = "remove" PROVE Doomed(branch', s)
      OBVIOUS
    <3>1. h[p].key \in Bits
      BY <1>2, KeyAssumption DEF Bits
    <3>2. /\ \A j \in 1 .. Len(h[p].key) : Via(branch', h[p].key, j) = Via(branch, h[p].key, j)
          /\ NodeIn(branch', h[p].key) = NodeIn(branch, h[p].key)
      <4>1. \A j \in 1 .. Len(h[p].key) : j \in 0 .. Len(h[p].key)
        OBVIOUS
      <4>2. \A j \in 0 .. Len(h[p].key) : Via(branch', h[p].key, j) = Via(branch, h[p].key, j)
        BY <2>5, <3>1, SamePasses
      <4> QED
        BY <2>5, <3>1, <4>1, <4>2
    <3>3. Single(branch'[0]) <=> Single(branch[0])
      BY <1>2, <2>3 DEF Single, SameLinks
    <3> QED
      BY <1>2, <2>7, <3>2, <3>3 DEF Doomed
  <2>10. h[p].op = "put" => SameLinks(h[p].copy, branch'[h[p].cursor])
    BY <1>2, <2>3 DEF SameLinks
  <2>11. SoleOK(branch', Wiped(s)) /\ (s.op = "remove" => Wiped(s).pc # "idle")
    BY <1>1, <1>2, <2>6, <2>7, <2>8, <2>9, <2>10, WipedSole
  <2> QED
    BY <1>1, <2>1, <2>4, <2>7, <2>11, GrownSole
<1> QED
  BY <1>3, <1>4

\* deleteBranch reads the branch and its parent; below the root it goes on at once.
LEMMA DetachSole ==
  ASSUME SoleInv, NEW p \in Proc, DeleteBranchRead(p) \/ DeleteBranchParent(p)
  PROVE  SoleStep(p)
<1> DEFINE n == Head(h[p].todo)
           b == branch[n]
           k == h[p].key
           c == [h[p] EXCEPT !.pc = "parent", !.spare = b]
           u == [h[p] EXCEPT !.pc = "unlink", !.copy = branch[h[p].spare.parent]]
<1>1. /\ h[p] \in Handle /\ Inv /\ HandleOK(branch, blob, size, mutex, p, h[p])
      /\ Copied(branch, h[p]) /\ Clears(branch, h[p]) /\ h[p].pc \in {"detach", "parent"}
  BY ActingSole DEF DeleteBranchRead, DeleteBranchParent
<1>2. /\ h[p].todo # <<>> /\ h[p].todo \in Seq(Nat) /\ h[p].op # "put"
      /\ \A i \in 1 .. Len(h[p].todo) : h[p].todo[i] \in DOMAIN branch
  BY <1>1 DEF HandleOK, Deleting, Handle
<1>3. /\ h[p].op = "remove" => k \in Key /\ Doomed(branch, h[p])
      /\ PrefixFree => Safe(branch, h[p], n)
      /\ PrefixFree => \A i \in 1 .. Len(h[p].todo) : \/ h[p].op # "remove" /\ h[p].todo[i] = h[p].cursor
                                                     \/ Safe(branch, h[p], h[p].todo[i])
  BY <1>1, <1>2 DEF Clears, Removing, Deleting
<1>4. n \in DOMAIN branch /\ b \in Branch
  BY <1>1, <1>2, Todo, Acting
<1>5. branch' = branch
  BY DEF DeleteBranchRead, DeleteBranchParent
<1>6. ASSUME n # 0, h[p].pc = "parent" \/ DeleteBranchRead(p)
      PROVE  SoleStep(p)
  <2>1. /\ c.pc = "parent" /\ c.op = h[p].op /\ c.key = k /\ c.todo = h[p].todo /\ c.cursor = h[p].cursor
        /\ u.pc = "unlink" /\ u.op = h[p].op /\ u.key = k /\ u.todo = h[p].todo /\ u.cursor = h[p].cursor
        /\ u.copy = branch[u.spare.parent]
    BY <1>1 DEF Handle
  <2>2. h' = [h EXCEPT ![p] = c] \/ h' = [h EXCEPT ![p] = u]
    BY <1>6 DEF DeleteBranchRead, DeleteBranchParent, Become
  <2> HIDE DEF c, u
  <2>3. \A r \in {c, u} : /\ \A i : Safe(branch, r, i) <=> Safe(branch, h[p], i)
                          /\ Doomed(branch, r) <=> Doomed(branch, h[p])
    BY <2>1 DEF Safe, Others, Doomed
  <2>4. SoleOK(branch, c)
    BY <1>2, <1>3, <1>6, <2>1, <2>3 DEF SoleOK, Operates, Stood, Copied, Clears, Descending, Removing,
                                        Walking, Putting, Deleting
  <2>5. SoleOK(branch, u)
    BY <1>2, <1>3, <1>6, <2>1, <2>3 DEF SoleOK, Operates, Stood, Copied, Clears, Descending, Removing,
                                        Walking, Putting, Deleting, SameLinks
  <2> QED
    BY <1>1, <1>5, <2>1, <2>2, <2>4, <2>5, ReadSole
<1>7. CASE n = 0 /\ DeleteBranchRead(p)
  <2>1. h' = [h EXCEPT ![p] = Descended(h[p], b)]
    BY <1>7 DEF DeleteBranchRead, Become
  <2>2. /\ \A j \in 1 .. Len(Tail(h[p].todo)) :
             Tail(h[p].todo)[j] = h[p].todo[j + 1] /\ j + 1 \in 1 .. Len(h[p].todo)
        /\ n = h[p].todo[1]
    BY <1>2, Todo
  <2>3. PrefixFree => \A i : Safe(branch, h[p], i)
    <3> SUFFICES ASSUME PrefixFree, NEW l \in Others(h[p]), NodeIn(branch, l) # 0 PROVE FALSE
      BY DEF Safe, Passes
    <3>1. l \in Bits
      BY KeyAssumption DEF Others, Bits
    <3>2. SubSeq(l, 1, 0) = <<>> /\ 0 \in 0 .. Len(l)
      BY <3>1 DEF Bits
    <3>3. Via(branch, l, 0) = 0
      BY <3>2, WalkOn DEF Via
    <3> QED
      BY <1>3, <1>7, <3>2, <3>3 DEF Safe, Passes
  <2>4. ASSUME h[p].op = "remove", NodeIn(branch, k) # 0
        PROVE  \E j \in 1 .. Len(k) : Children(b) \o Tail(h[p].todo) = <<Via(branch, k, j)>>
    <3>1. k \in Bits /\ Len(k) \in Nat \ {0} /\ SubSeq(k, 1, 0) = <<>>
      BY <1>3, <2>4, KeyAssumption DEF Bits
    <3>2. \A j \in 1 .. Len(k) : Via(branch, k, j) # 0
      BY <2>4, <3>1, ViaArrives
    <3>3. h[p].todo = <<0>> /\ Single(branch[0])
      BY <1>3, <1>7, <2>2, <2>4, <3>2 DEF Doomed
    <3>4. Via(branch, k, 1) = Link(b, k[1]) /\ Via(branch, k, 1) # 0 /\ k[1] \in {0, 1}
      <4>1. 0 \in 0 .. Len(k) - 1
        BY <3>1
      <4>2. Via(branch, k, 0 + 1) = Link(branch[Via(branch, k, 0)], k[0 + 1]) /\ Via(branch, k, 0 + 1) # 0
        BY <2>4, <3>1, <4>1, ViaLinked
      <4>3. Via(branch, k, 0) = 0
        BY <3>1, WalkOn DEF Via
      <4> QED
        BY <1>7, <3>1, <4>1, <4>2, <4>3, FrontBits
    <3>5. Children(b) = <<Via(branch, k, 1)>>
      <4>1. Single(b) /\ Via(branch, k, 1) = Link(b, k[1])
        BY <1>7, <3>3, <3>4
      <4>2. \/ b.left # 0 /\ b.right = 0 /\ Via(branch, k, 1) = b.left
            \/ b.left = 0 /\ b.right # 0 /\ Via(branch, k, 1) = b.right
        BY <3>4, <4>1 DEF Single, Link
      <4>3. \A x : <<x>> \o <<>> = <<x>> /\ <<>> \o <<x>> = <<x>>
        OBVIOUS
      <4> QED
        BY <4>2, <4>3 DEF Children
    <3>6. Children(b) \o Tail(h[p].todo) = <<Via(branch, k, 1)>>
      BY <3>3, <3>5
    <3>7. 1 \in 1 .. Len(k)
      BY <3>1
    <3> QED
      BY <3>6, <3>7
  <2>5. PrefixFree => \A j \in 1 .. Len(Tail(h[p].todo)) :
          (h[p].op # "remove" /\ Tail(h[p].todo)[j] = h[p].cursor) \/ Safe(branch, h[p], Tail(h[p].todo)[j])
    BY <2>3
  <2> HIDE DEF b, k
  <2>6. /\ SoleOK(branch, Descended(h[p], b))
        /\ h[p].op = "remove" /\ Descended(h[p], b).pc = "idle" => NodeIn(branch, h[p].key) = 0
    BY <1>1, <1>2, <1>3, <1>4, <2>3, <2>4, <2>5, DescendedSole DEF k
  <2> QED
    BY <1>1, <1>5, <2>1, <2>6, ReadSole
<1>8. h[p].pc = "parent" => n # 0
  BY <1>1 DEF Copied
<1> QED
  BY <1>6, <1>7, <1>8 DEF DeleteBranchParent

\* deleteBranch takes a branch out: its key is gone, and no other.
LEMMA UnlinkSole ==
  ASSUME SoleInv, Inv', NEW p \in Proc, DeleteBranchWrite(p)
  PROVE  SoleStep(p)
<1> DEFINE n == Head(h[p].todo)
           m == h[p].spare.parent
           b == WithoutLink(h[p].copy, n)
           r == Descended(h[p], h[p].spare)
<1>1. /\ h[p] \in Handle /\ Inv /\ HandleOK(branch, blob, size, mutex, p, h[p])
      /\ Copied(branch, h[p]) /\ Clears(branch, h[p]) /\ h[p].pc = "unlink"
  BY ActingSole DEF DeleteBranchWrite
<1>2. /\ h[p].todo # <<>> /\ h[p].todo \in Seq(Nat) /\ h[p].op # "put" /\ n # 0
      /\ \A i \in 1 .. Len(h[p].todo) : h[p].todo[i] \in DOMAIN branch
      /\ SameLinks(h[p].copy, branch[m]) /\ h[p].copy \in Branch /\ h[p].spare \in Branch
      /\ CopyOf(branch, blob, n, h[p].spare)
  BY <1>1 DEF HandleOK, Deleting, Handle, Copied
<1>3. /\ h[p].op = "remove" => h[p].key \in Key /\ Doomed(branch, h[p])
      /\ PrefixFree => Safe(branch, h[p], n)
      /\ PrefixFree => \A i \in 1 .. Len(h[p].todo) : \/ h[p].op # "remove" /\ h[p].todo[i] = h[p].cursor
                                                     \/ Safe(branch, h[p], h[p].todo[i])
  BY <1>1, <1>2 DEF Clears, Removing, Deleting
<1>4. n \in DOMAIN branch /\ m = branch[n].parent /\ m \in DOMAIN branch
      /\ \A i \in DOMAIN branch : SoundAt(branch, blob, i, branch[i])
  <2>1. n \in DOMAIN branch
    BY <1>2, Todo
  <2> QED
    BY <1>1, <1>2, <2>1 DEF CopyOf, Inv, WellFormed
<1>5. branch' = [branch EXCEPT ![m] = b] /\ h' = [h EXCEPT ![p] = r] /\ blob' = blob
  BY DEF DeleteBranchWrite, Become
<1>6. Cut(branch, branch', n)
  <2>1. DOMAIN branch' = DOMAIN branch
        /\ \A i \in DOMAIN branch : branch'[i] = IF i = m THEN b ELSE branch[i]
    BY <1>1, <1>5 DEF Inv, TypeOK
  <2>2. \A i \in DOMAIN branch \ {m}, bit \in {0, 1} : Link(branch[i], bit) # n
    BY <1>2, <1>4 DEF SoundAt, ChildOf, Link
  <2>3. branch[m].left = branch[m].right => branch[m].left = 0
    BY <1>4 DEF SoundAt
  <2>4. \A bit \in {0, 1} : Link(b, bit) = IF Link(branch[m], bit) = n THEN 0 ELSE Link(branch[m], bit)
    BY <1>2, <2>3 DEF WithoutLink, Link, SameLinks, Branch
  <2> HIDE DEF b, m, n
  <2> QED
    BY <2>1, <2>2, <2>4 DEF Cut
<1>7. \A k \in Key : k \in Bits
  BY KeyAssumption DEF Bits
<1> HIDE DEF b, m
<1>8. /\ \A k \in Bits : NodeIn(branch', k) # n
      /\ \A k \in Bits : NodeIn(branch', k) # 0 => NodeIn(branch, k) = NodeIn(branch', k)
  <2> HIDE DEF n
  <2> QED
    BY <1>2, <1>6, CutWalks DEF n
<1>9. h[p].op = "remove" => NodeIn(branch', h[p].key) = 0
  <2> SUFFICES ASSUME h[p].op = "remove", NodeIn(branch', h[p].key) # 0 PROVE FALSE
    OBVIOUS
  <2>1. h[p].key \in Bits /\ NodeIn(branch, h[p].key) # 0
    BY <1>3, <1>7, <1>8
  <2>2. PICK j \in 1 .. Len(h[p].key) : n = Via(branch, h[p].key, j)
    <3>1. n = h[p].todo[1]
      BY <1>2, Todo
    <3> QED
      BY <1>2, <1>3, <2>1, <3>1 DEF Doomed
  <2>3. Via(branch', h[p].key, j) # 0
    BY <2>1, ViaArrives
  <2>4. SubSeq(h[p].key, 1, j) \in Bits
    BY <2>1, PrefixBits
  <2> QED
    BY <1>8, <2>2, <2>3, <2>4 DEF Via
<1>10. \A i : Safe(branch, h[p], i) => Safe(branch', h[p], i)
  <2>1. \A i : \A k \in Bits : Passes(branch', k, i) => Passes(branch, k, i)
    <3> HIDE DEF n
    <3> QED
      BY <1>2, <1>6, CutPasses DEF n
  <2>2. \A k \in Others(h[p]) : k \in Bits
    BY <1>7 DEF Others
  <2> QED
    BY <2>1, <2>2 DEF Safe
<1>11. \A j \in 1 .. Len(Children(h[p].spare)) : Safe(branch', h[p], Children(h[p].spare)[j])
  <2> SUFFICES ASSUME NEW j \in 1 .. Len(Children(h[p].spare)), NEW c, c = Children(h[p].spare)[j],
                      NEW k \in Others(h[p])
               PROVE  ~ Passes(branch', k, c)
    BY DEF Safe
  <2>1. c # 0 /\ c \in {h[p].spare.left, h[p].spare.right}
    BY <1>2, ChildrenAreLinks
  <2>2. ChildOf(branch, n, c)
    BY <1>2, <2>1 DEF CopyOf, SoundAt
  <2>3. ChildOf(branch', n, c)
    <3>1. c \in DOMAIN branch' /\ branch'[c].parent = branch[c].parent
      <4>1. b.parent = branch[m].parent
        <5>1. CopyOf(branch, blob, m, h[p].copy)
          BY <1>1 DEF HandleOK, m
        <5> QED
          BY <1>2, <5>1 DEF CopyOf, WithoutLink, Branch, b
      <4> QED
        BY <1>1, <1>5, <2>2, <4>1 DEF ChildOf, Inv, TypeOK
    <3> QED
      BY <2>2, <3>1 DEF ChildOf
  <2>4. \A i \in DOMAIN branch' : SoundAt(branch', blob', i, branch'[i])
    BY DEF Inv, WellFormed
  <2>5. \A l \in Bits : NodeIn(branch', l) # c
    <3> HIDE DEF n
    <3> QED
      BY <1>2, <1>8, <2>1, <2>3, <2>4, CutBelow DEF n
  <2>6. k \in Bits /\ \A i \in 0 .. Len(k) : SubSeq(k, 1, i) \in Bits
    BY <1>7, PrefixBits DEF Others
  <2> QED
    BY <2>5, <2>6 DEF Passes, Via
<1>12. PrefixFree => \A j \in 1 .. Len(Tail(h[p].todo)) :
         (h[p].op # "remove" /\ Tail(h[p].todo)[j] = h[p].cursor) \/ Safe(branch', h[p], Tail(h[p].todo)[j])
  BY <1>2, <1>3, <1>10, Todo
<1>13. SoleOK(branch', r)
  BY <1>1, <1>2, <1>3, <1>9, <1>11, <1>12, DescendedSole
<1>14. ASSUME PrefixFree, NEW k \in Key, NodeIn(branch, k) # 0, NodeIn(branch', k) = 0
       PROVE  h[p].op = "remove" /\ h[p].key = k
  <2> SUFFICES ASSUME k \in Others(h[p]) PROVE FALSE
    BY <1>14 DEF Others
  <2>1. \A j \in 0 .. Len(k) : Via(branch, k, j) # n
    BY <1>3, <1>14 DEF Safe, Passes
  <2>2. NodeIn(branch', k) = NodeIn(branch, k)
    <3> HIDE DEF n
    <3> QED
      BY <1>6, <1>7, <2>1, CutElsewhere
  <2> QED
    BY <1>14, <2>2
<1>15. h'[p] = r
  BY <1>1, <1>5 DEF Inv, TypeOK
<1> QED
  BY <1>9, <1>13, <1>14, <1>15 DEF SoleStep

\* In an empty file the handle is closed.
LEMMA InitSole == Init => SoleInv
<1>1. Init => \A p \in Proc : h[p] = Closed(MaxOps)
  BY DEF Init
<1> QED
  BY <1>1, InitInv, IdleSole DEF SoleInv

\* Every step of the one handle keeps what is known of it.
LEMMA NextSole ==
  ASSUME OneHandle
  PROVE  SoleInv /\ [Next]_vars => SoleInv' /\ \A p \in Proc : SoleStep(p)
<1> SUFFICES ASSUME SoleInv, [Next]_vars PROVE SoleInv' /\ \A p \in Proc : SoleStep(p)
  OBVIOUS
<1>1. Inv'
  BY NextInv DEF SoleInv
<1>2. ASSUME NEW p \in Proc PROVE SoleStep(p)
  <2>1. CASE Step(p)
    <3>1. Delete(p) => \/ Clear(p) \/ Trace(p) \/ Prune(p) \/ DeleteBranchWrite(p)
                       \/ DeleteDataRead(p) \/ DeleteDataWrite(p)
                       \/ DeleteBranchRead(p) \/ DeleteBranchParent(p)
      BY DEF Delete
    <3> QED
      BY <1>1, <2>1, <3>1, OpenSole, WalkSole, SetDataSole, SeekSole, ClearSole, TraceSole, PruneSole,
         WipeSole, DetachSole, UnlinkSole DEF Step, Work
  <2>2. CASE Crash
    <3>1. branch' = branch /\ h'[p] = Closed(h[p].left)
      BY <2>2 DEF Crash
    <3>2. h'[p].pc = "closed"
      BY <3>1 DEF Closed
    <3> QED
      BY <3>1, <3>2, IdleSole DEF SoleStep
  <2>3. CASE UNCHANGED vars
    BY <2>3 DEF vars, SoleStep, SoleInv
  <2>4. Step(p) \/ Crash \/ UNCHANGED vars
    BY DEF Next, Finished, OneHandle
  <2> QED
    BY <2>1, <2>2, <2>3, <2>4
<1> QED
  BY <1>1, <1>2 DEF SoleInv, SoleStep

\* With one handle, when clear(value) has run its key is gone, whatever keys there are, be they under each
\* other.
THEOREM ClearedCorrect ==
  ASSUME OneHandle
  PROVE  Spec => KeyCleared
<1>1. SoleInv /\ [Next]_vars => SoleInv'
  BY NextSole
<1>2. SoleInv /\ [Next]_vars =>
        [\A p \in Proc, k \in Key :
           h[p].op = "remove" /\ h[p].key = k /\ h[p].pc # "idle" /\ h'[p].pc = "idle" =>
             NodeAt(k)' = 0]_vars
  <2> SUFFICES ASSUME SoleInv, [Next]_vars, NEW p \in Proc, NEW k \in Key, h[p].op = "remove",
                      h[p].key = k, h[p].pc # "idle", h'[p].pc = "idle"
               PROVE  NodeAt(k)' = 0
    OBVIOUS
  <2>1. SoleStep(p)
    BY NextSole
  <2> QED
    BY <2>1, NodeAtIsNodeIn DEF SoleStep
<1> QED
  BY <1>1, <1>2, InitSole, PTL DEF Spec, KeyCleared

\* With one handle and keys none of which extends another, nothing takes a key out of the tree but
\* clear(value) of that key.
THEOREM OthersCorrect ==
  ASSUME OneHandle, PrefixFree
  PROVE  Spec => OthersRemain
<1>1. SoleInv /\ [Next]_vars => SoleInv'
  BY NextSole
<1>2. SoleInv /\ [Next]_vars =>
        [\A k \in Key : NodeAt(k) # 0 /\ NodeAt(k)' = 0 =>
           \E p \in Proc : h[p].key = k /\ h[p].op = "remove"]_vars
  <2> SUFFICES ASSUME SoleInv, [Next]_vars, NEW k \in Key, NodeAt(k) # 0, NodeAt(k)' = 0
               PROVE  \E p \in Proc : h[p].key = k /\ h[p].op = "remove"
    OBVIOUS
  <2>1. NodeIn(branch, k) # 0 /\ NodeIn(branch', k) = 0
    BY NodeAtIsNodeIn
  <2>2. CASE Proc = {}
    <3>1. branch' = branch
      BY <2>2 DEF Next, Finished, Crash, vars
    <3> QED
      BY <2>1, <3>1
  <2>3. CASE Proc # {}
    <3>1. PICK p \in Proc : TRUE
      BY <2>3
    <3>2. SoleStep(p)
      BY NextSole
    <3> QED
      BY <2>1, <3>2 DEF SoleStep
  <2> QED
    BY <2>2, <2>3
<1> QED
  BY <1>1, <1>2, InitSole, PTL DEF Spec, OthersRemain

=============================================================================
