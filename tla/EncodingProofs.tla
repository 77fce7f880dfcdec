--------------------------- MODULE EncodingProofs ---------------------------
(***************************************************************************)
(* What PowerEncoding writes, for any number and any string: the count     *)
(* that writeBit keeps is back where it was with the last bit of a code    *)
(* and not before, so that no code extends another; and what is read is    *)
(* what was written.                                                       *)
(*                                                                         *)
(* The encodings are recursive functions.  To the provers each is a        *)
(* CHOOSE, which Recursion turns into its equation: a function on the      *)
(* numbers whose value goes back to two smaller numbers exists.            *)
(***************************************************************************)
EXTENDS PowerEncoding, WellFoundedInduction, TLAPS

-----------------------------------------------------------------------------
(* Induction over numbers. *)

\* Natural numbers are well founded.
LEMMA NatFounded ==
  \E R : IsWellFoundedOn(R, Nat) /\ \A x, y \in Nat : <<x, y>> \in R <=> x < y
<1>1. \A x, y \in Nat : <<x, y>> \in OpToRel(<, Nat) <=> x < y
  BY DEF OpToRel
<1> QED
  BY <1>1, NatLessThanWellFounded, Zenon

\* A set of natural numbers that is not empty has a least member.
LEMMA Least ==
  ASSUME NEW T, T \subseteq Nat, T # {}
  PROVE  \E x \in T : \A y \in T : x <= y
<1>1. PICK R : IsWellFoundedOn(R, Nat) /\ \A x, y \in Nat : <<x, y>> \in R <=> x < y
  BY NatFounded
<1>2. IsWellFoundedOn(R, Nat)
  BY <1>1
<1>3. \E x \in T : \A y \in T : ~ (<<y, x>> \in R)
  BY <1>2, WFMin, Zenon
<1>4. PICK x \in T : \A y \in T : ~ (<<y, x>> \in R)
  BY <1>3
<1>5. ASSUME NEW y \in T PROVE x <= y
  <2>1. x \in Nat /\ y \in Nat /\ ~ (<<y, x>> \in R)
    BY <1>4
  <2> QED
    BY <1>1, <2>1
<1> QED
  BY <1>4, <1>5

\* Induction, of a set that takes the place of the statement.
LEMMA NatInduct ==
  ASSUME NEW T, 0 \in T, \A n \in Nat : n \in T => n + 1 \in T
  PROVE  Nat \subseteq T
<1> SUFFICES ASSUME Nat \ T # {} PROVE FALSE
  OBVIOUS
<1>1. PICK x \in Nat \ T : \A y \in Nat \ T : x <= y
  BY Least
<1>2. x # 0 /\ x - 1 \in Nat /\ x - 1 \in T
  BY <1>1
<1> QED
  BY <1>1, <1>2

\* The same, from all smaller numbers.
LEMMA StrongInduct ==
  ASSUME NEW T, \A n \in Nat : (\A m \in 0 .. n - 1 : m \in T) => n \in T
  PROVE  Nat \subseteq T
<1> SUFFICES ASSUME Nat \ T # {} PROVE FALSE
  OBVIOUS
<1>1. PICK x \in Nat \ T : \A y \in Nat \ T : x <= y
  BY Least
<1>2. \A m \in 0 .. x - 1 : m \in T
  BY <1>1
<1> QED
  BY <1>1, <1>2

-----------------------------------------------------------------------------
(* Recursion over numbers. *)

\* f is a on 0, and goes on with S from its values at P and R, up to n.
Approximates(f, n, D, a, P, R, S) ==
  /\ f \in [0 .. n -> D]
  /\ f[0] = a
  /\ \A v \in 1 .. n : f[v] = S[<<v, f[P[v]], f[R[v]]>>]

Smaller(P) == \A v \in Nat \ {0} : P[v] \in 0 .. v - 1
StaysIn(D, S) == \A v \in Nat \ {0}, x \in D, y \in D : S[<<v, x, y>>] \in D

\* Two such functions have the same values.
LEMMA ApproximatesUnique ==
  ASSUME NEW D, NEW a \in D, NEW P, NEW R, NEW S, Smaller(P), Smaller(R),
         NEW n \in Nat, NEW m \in Nat, NEW f, NEW g,
         Approximates(f, n, D, a, P, R, S), Approximates(g, m, D, a, P, R, S)
  PROVE  \A i \in Nat : i <= n /\ i <= m => f[i] = g[i]
<1> DEFINE T == {i \in Nat : i <= n /\ i <= m => f[i] = g[i]}
<1>1. ASSUME NEW i \in Nat, \A j \in 0 .. i - 1 : j \in T PROVE i \in T
  <2>1. CASE i = 0
    BY <2>1 DEF Approximates
  <2>2. CASE i # 0 /\ i <= n /\ i <= m
    <3>1. P[i] \in 0 .. i - 1 /\ R[i] \in 0 .. i - 1
      BY <2>2 DEF Smaller
    <3>2. f[P[i]] = g[P[i]] /\ f[R[i]] = g[R[i]]
      BY <1>1, <2>2, <3>1
    <3>3. i \in 1 .. n /\ i \in 1 .. m
      BY <2>2
    <3> QED
      BY <3>2, <3>3 DEF Approximates
  <2> QED
    BY <2>1, <2>2
<1>2. Nat \subseteq T
  <2> HIDE DEF T
  <2> QED
    BY <1>1, StrongInduct
<1> QED
  BY <1>2

\* There is one for any n.
LEMMA ApproximatesExists ==
  ASSUME NEW D, NEW a \in D, NEW P, NEW R, NEW S, Smaller(P), Smaller(R), StaysIn(D, S)
  PROVE  \A n \in Nat : \E f : Approximates(f, n, D, a, P, R, S)
<1> DEFINE T == {n \in Nat : \E f : Approximates(f, n, D, a, P, R, S)}
<1>1. 0 \in T
  <2>1. Approximates([i \in 0 .. 0 |-> a], 0, D, a, P, R, S)
    BY DEF Approximates
  <2> QED
    BY <2>1
<1>2. ASSUME NEW n \in Nat, n \in T PROVE n + 1 \in T
  <2>1. PICK f : Approximates(f, n, D, a, P, R, S)
    BY <1>2
  <2> DEFINE g == [i \in 0 .. n + 1 |-> IF i = n + 1 THEN S[<<n + 1, f[P[n + 1]], f[R[n + 1]]>>] ELSE f[i]]
  <2>2. P[n + 1] \in 0 .. n /\ R[n + 1] \in 0 .. n
    BY DEF Smaller
  <2>3. f \in [0 .. n -> D] /\ f[0] = a /\ \A v \in 1 .. n : f[v] = S[<<v, f[P[v]], f[R[v]]>>]
    BY <2>1 DEF Approximates
  <2>4. S[<<n + 1, f[P[n + 1]], f[R[n + 1]]>>] \in D
    BY <2>2, <2>3 DEF StaysIn
  <2>5. \A i \in 0 .. n : g[i] = f[i]
    OBVIOUS
  <2>6. g[n + 1] = S[<<n + 1, f[P[n + 1]], f[R[n + 1]]>>]
    OBVIOUS
  <2>7. g \in [0 .. n + 1 -> D]
    BY <2>3, <2>4
  <2> HIDE DEF g
  <2>8. ASSUME NEW v \in 1 .. n + 1 PROVE g[v] = S[<<v, g[P[v]], g[R[v]]>>]
    <3>1. P[v] \in 0 .. n /\ R[v] \in 0 .. n
      <4>1. P[v] \in 0 .. v - 1 /\ R[v] \in 0 .. v - 1
        BY DEF Smaller
      <4> QED
        BY <4>1
    <3>2. g[P[v]] = f[P[v]] /\ g[R[v]] = f[R[v]]
      BY <2>5, <3>1
    <3>3. CASE v = n + 1
      BY <2>6, <3>2, <3>3
    <3>4. CASE v \in 1 .. n
      BY <2>3, <2>5, <3>2, <3>4
    <3> QED
      BY <3>3, <3>4
  <2>9. Approximates(g, n + 1, D, a, P, R, S)
    BY <2>3, <2>5, <2>7, <2>8 DEF Approximates
  <2> QED
    BY <2>9
<1>3. Nat \subseteq T
  <2> HIDE DEF T
  <2> QED
    BY <1>1, <1>2, NatInduct
<1> QED
  BY <1>3

Recursive(f, D, a, P, R, S) ==
  f \in [Nat -> D] /\ f[0] = a /\ \A v \in Nat \ {0} : f[v] = S[<<v, f[P[v]], f[R[v]]>>]

\* And one for all numbers.
LEMMA Recursion ==
  ASSUME NEW D, NEW a \in D, NEW P, NEW R, NEW S, Smaller(P), Smaller(R), StaysIn(D, S)
  PROVE  \E f : Recursive(f, D, a, P, R, S)
<1> DEFINE A(n) == CHOOSE f : Approximates(f, n, D, a, P, R, S)
           F == [n \in Nat |-> A(n)[n]]
<1>1. \A n \in Nat : Approximates(A(n), n, D, a, P, R, S)
  <2>1. \A n \in Nat : \E f : Approximates(f, n, D, a, P, R, S)
    BY ApproximatesExists
  <2> QED
    BY <2>1
<1> HIDE DEF A
<1>2. \A n \in Nat : A(n) \in [0 .. n -> D]
  BY <1>1 DEF Approximates
<1>3. F \in [Nat -> D]
  BY <1>2
<1>4. F[0] = a
  BY <1>1 DEF Approximates
<1>5. ASSUME NEW v \in Nat \ {0} PROVE F[v] = S[<<v, F[P[v]], F[R[v]]>>]
  <2>1. P[v] \in 0 .. v - 1 /\ R[v] \in 0 .. v - 1
    BY DEF Smaller
  <2>2. ASSUME NEW i \in 0 .. v - 1 PROVE F[i] = A(v)[i]
    <3>1. PICK f, g : f = A(i) /\ g = A(v)
      OBVIOUS
    <3>2. i \in Nat /\ Approximates(f, i, D, a, P, R, S) /\ Approximates(g, v, D, a, P, R, S)
      BY <1>1, <3>1
    <3>3. \A j \in Nat : j <= i /\ j <= v => f[j] = g[j]
      BY <3>2, ApproximatesUnique
    <3> QED
      BY <3>1, <3>3
  <2>3. A(v)[v] = S[<<v, A(v)[P[v]], A(v)[R[v]]>>]
    BY <1>1 DEF Approximates
  <2> QED
    BY <2>1, <2>2, <2>3
<1>6. Recursive(F, D, a, P, R, S)
  BY <1>3, <1>4, <1>5 DEF Recursive
<1> QED
  BY <1>6

-----------------------------------------------------------------------------
(* Powers of two. *)

\* Exp2 doubles with each step.
LEMMA Exp2On ==
  /\ Exp2[0] = 1
  /\ \A n \in Nat : Exp2[n] \in Nat /\ Exp2[n + 1] = 2 * Exp2[n]
<1> DEFINE P == [v \in Nat |-> v - 1]
           S == [t \in Nat \X Nat \X Nat |-> 2 * t[2]]
           e == CHOOSE e : e = [n \in Nat |-> IF n = 0 THEN 1 ELSE 2 * e[n - 1]]
<1>1. Smaller(P)
  BY DEF Smaller
<1>2. \A v \in Nat \ {0}, x \in Nat, y \in Nat : S[<<v, x, y>>] = 2 * x /\ S[<<v, x, y>>] \in Nat
  OBVIOUS
<1>3. PICK f : Recursive(f, Nat, 1, P, P, S)
  <2>1. 1 \in Nat /\ StaysIn(Nat, S)
    BY <1>2 DEF StaysIn
  <2> HIDE DEF P, S
  <2> QED
    BY <1>1, <2>1, Recursion
<1>4. f \in [Nat -> Nat] /\ f[0] = 1 /\ \A v \in Nat \ {0} : f[v] = 2 * f[v - 1]
  <2>1. f \in [Nat -> Nat] /\ f[0] = 1 /\ \A v \in Nat \ {0} : f[v] = S[<<v, f[P[v]], f[P[v]]>>]
    BY <1>3 DEF Recursive
  <2>2. \A v \in Nat \ {0} : P[v] = v - 1 /\ f[v - 1] \in Nat
    BY <2>1
  <2> QED
    BY <1>2, <2>1, <2>2
<1>5. f = [n \in Nat |-> IF n = 0 THEN 1 ELSE 2 * f[n - 1]]
  BY <1>4
<1>6. e = [n \in Nat |-> IF n = 0 THEN 1 ELSE 2 * e[n - 1]]
  BY <1>5, Zenon
<1>7. Exp2 = e
  BY DEF Exp2
<1> HIDE DEF e
<1>8. e[0] = 1 /\ \A n \in Nat : e[n + 1] = 2 * e[n]
  <2>1. \A n \in Nat : e[n] = IF n = 0 THEN 1 ELSE 2 * e[n - 1]
    BY <1>6, Zenon
  <2> QED
    BY <2>1
<1>9. Nat \subseteq {n \in Nat : e[n] \in Nat}
  <2> DEFINE T == {n \in Nat : e[n] \in Nat}
  <2>1. 0 \in T /\ \A n \in Nat : n \in T => n + 1 \in T
    BY <1>8
  <2> HIDE DEF T
  <2>2. Nat \subseteq T
    BY <2>1, NatInduct
  <2> QED
    BY <2>2 DEF T
<1> QED
  BY <1>7, <1>8, <1>9

\* A power of two is larger than its exponent.
LEMMA Exp2Large == \A n \in Nat : n < Exp2[n]
<1> DEFINE T == {n \in Nat : n < Exp2[n]}
<1>1. 0 \in T /\ \A n \in Nat : n \in T => n + 1 \in T
  <2>1. 0 \in T
    BY Exp2On
  <2>2. ASSUME NEW n \in Nat, n < Exp2[n] PROVE n + 1 < Exp2[n + 1]
    <3>1. Exp2[n] \in Nat /\ Exp2[n + 1] = 2 * Exp2[n]
      BY Exp2On
    <3> QED
      BY <2>2, <3>1
  <2> QED
    BY <2>1, <2>2
<1>2. Nat \subseteq T
  <2> HIDE DEF T
  <2> QED
    BY <1>1, NatInduct
<1> QED
  BY <1>2

\* A positive number is its power of two and the remainder, both smaller.
LEMMA PowerRemainder ==
  ASSUME NEW v \in Nat \ {0}
  PROVE  /\ Power(v) \in 0 .. v - 1
         /\ Remainder(v, Power(v)) \in 0 .. v - 1
         /\ v = Exp2[Power(v)] + Remainder(v, Power(v))
<1> DEFINE T == {p \in Nat : v < Exp2[p + 1]}
<1>1. v \in T
  <2>1. v + 1 < Exp2[v + 1]
    BY Exp2Large
  <2>2. Exp2[v + 1] \in Nat
    BY Exp2On
  <2> QED
    BY <2>1, <2>2
<1>2. PICK p \in T : \A q \in T : p <= q
  BY <1>1, Least
<1>3. Exp2[p] <= v
  <2>1. CASE p = 0
    BY <2>1, Exp2On
  <2>2. CASE p # 0
    <3>1. p - 1 \in Nat /\ p - 1 \notin T
      BY <1>2, <2>2
    <3>2. ~ (v < Exp2[p])
      BY <3>1
    <3>3. Exp2[p] \in Nat
      BY Exp2On
    <3> QED
      BY <3>2, <3>3
  <2> QED
    BY <2>1, <2>2
<1>4. p \in 0 .. v
  BY <1>1, <1>2
<1>5. Power(v) \in 0 .. v /\ Exp2[Power(v)] <= v /\ v < Exp2[Power(v) + 1]
  <2>1. \E q \in 0 .. v : Exp2[q] <= v /\ v < Exp2[q + 1]
    BY <1>2, <1>3, <1>4
  <2> QED
    BY <2>1 DEF Power
<1>6. PICK q \in Nat : q = Power(v)
  BY <1>5
<1>7. q < Exp2[q] /\ Exp2[q] \in Nat /\ Exp2[q] <= v
  BY <1>5, <1>6, Exp2Large, Exp2On
<1>8. PICK x \in Nat : x = Exp2[q]
  BY <1>7
<1> QED
  BY <1>6, <1>7, <1>8 DEF Remainder

-----------------------------------------------------------------------------
(* What is written. *)

Bits == Seq({0, 1})

\* Sequences of bits are joined to sequences of bits.
LEMMA BitsJoin ==
  /\ <<0>> \in Bits /\ <<1>> \in Bits
  /\ \A a, b \in Bits : a \o b \in Bits
<1>1. 0 \in {0, 1} /\ 1 \in {0, 1}
  OBVIOUS
<1>2. ASSUME NEW D, NEW d \in D PROVE <<d>> \in Seq(D)
  OBVIOUS
<1>3. ASSUME NEW D, NEW a \in Seq(D), NEW b \in Seq(D) PROVE a \o b \in Seq(D)
  OBVIOUS
<1>4. <<0>> \in Bits /\ <<1>> \in Bits
  BY <1>1, <1>2 DEF Bits
<1> QED
  BY <1>3, <1>4 DEF Bits

\* The equation of Write.
LEMMA WriteOn ==
  /\ Write[0] = <<0>>
  /\ \A v \in Nat \ {0} : Write[v] = <<1>> \o Write[Power(v)] \o Write[Remainder(v, Power(v))]
  /\ \A v \in Nat : Write[v] \in Bits
<1> DEFINE P == [v \in Nat |-> Power(v)]
           R == [v \in Nat |-> Remainder(v, Power(v))]
           S == [t \in Nat \X Bits \X Bits |-> <<1>> \o t[2] \o t[3]]
           w == CHOOSE w : w = [v \in Nat |-> IF v = 0 THEN <<0>>
                                              ELSE <<1>> \o w[Power(v)] \o w[Remainder(v, Power(v))]]
<1>1. Smaller(P) /\ Smaller(R)
  BY PowerRemainder DEF Smaller
<1>2. \A v \in Nat \ {0}, x \in Bits, y \in Bits :
        S[<<v, x, y>>] = <<1>> \o x \o y /\ S[<<v, x, y>>] \in Bits
  BY BitsJoin
<1>3. PICK f : Recursive(f, Bits, <<0>>, P, R, S)
  <2>1. <<0>> \in Bits /\ StaysIn(Bits, S)
    BY <1>2, BitsJoin DEF StaysIn
  <2> HIDE DEF P, R, S
  <2> QED
    BY <1>1, <2>1, Recursion
<1>4. \A v \in Nat \ {0} : Power(v) \in Nat /\ Remainder(v, Power(v)) \in Nat
  BY PowerRemainder
<1>5. f \in [Nat -> Bits] /\ f[0] = <<0>> /\ \A v \in Nat \ {0} : f[v] = S[<<v, f[P[v]], f[R[v]]>>]
  BY <1>3 DEF Recursive
<1>11. \A v \in Nat \ {0} : f[v] = <<1>> \o f[Power(v)] \o f[Remainder(v, Power(v))]
  <2> SUFFICES ASSUME NEW v \in Nat \ {0}
               PROVE  f[v] = <<1>> \o f[Power(v)] \o f[Remainder(v, Power(v))]
    OBVIOUS
  <2>1. P[v] = Power(v) /\ R[v] = Remainder(v, Power(v))
    OBVIOUS
  <2>2. f[Power(v)] \in Bits /\ f[Remainder(v, Power(v))] \in Bits
    BY <1>4, <1>5
  <2>3. f[v] = S[<<v, f[Power(v)], f[Remainder(v, Power(v))]>>]
    BY <1>5, <2>1
  <2> HIDE DEF S
  <2> QED
    BY <1>2, <2>2, <2>3
<1>6. f = [v \in Nat |-> IF v = 0 THEN <<0>> ELSE <<1>> \o f[Power(v)] \o f[Remainder(v, Power(v))]]
  BY <1>5, <1>11, Zenon
<1>7. w = [v \in Nat |-> IF v = 0 THEN <<0>> ELSE <<1>> \o w[Power(v)] \o w[Remainder(v, Power(v))]]
  BY <1>6, Zenon
<1>8. Write = w
  BY DEF Write
<1> HIDE DEF w
<1>9. w[0] = <<0>> /\ \A v \in Nat \ {0} : w[v] = <<1>> \o w[Power(v)] \o w[Remainder(v, Power(v))]
  <2>1. \A v \in Nat : w[v] = IF v = 0 THEN <<0>> ELSE <<1>> \o w[Power(v)] \o w[Remainder(v, Power(v))]
    BY <1>7, Zenon
  <2> QED
    BY <2>1
<1>10. Nat \subseteq {v \in Nat : w[v] \in Bits}
  <2> DEFINE T == {v \in Nat : w[v] \in Bits}
  <2>1. ASSUME NEW v \in Nat, \A u \in 0 .. v - 1 : u \in T PROVE v \in T
    <3>1. CASE v = 0
      BY <1>9, <3>1, BitsJoin
    <3>2. CASE v # 0
      <4>1. w[Power(v)] \in Bits /\ w[Remainder(v, Power(v))] \in Bits
        BY <2>1, <3>2, PowerRemainder
      <4>2. w[v] = <<1>> \o w[Power(v)] \o w[Remainder(v, Power(v))]
        BY <1>9, <3>2
      <4>3. w[v] \in Bits
        BY <4>1, <4>2, BitsJoin
      <4> QED
        BY <4>3
    <3> QED
      BY <3>1, <3>2
  <2> HIDE DEF T
  <2>2. Nat \subseteq T
    BY <2>1, StrongInduct
  <2> QED
    BY <2>2 DEF T
<1> QED
  BY <1>8, <1>9, <1>10

-----------------------------------------------------------------------------
(* The count of writeBit. *)

\* The count after the first n bits, from c on.
Count(c, bits, n) ==
  LET k[i \in Nat] == IF i = 0 THEN c ELSE CountBit(k[i - 1], bits[i])
  IN k[n]

\* The equation of Count.
LEMMA CountOn ==
  ASSUME NEW c \in Nat, NEW b
  PROVE  /\ Count(c, b, 0) = c
         /\ \A n \in Nat : Count(c, b, n) \in Nat /\ Count(c, b, n + 1) = CountBit(Count(c, b, n), b[n + 1])
<1> DEFINE P == [v \in Nat |-> v - 1]
           S == [t \in Nat \X Nat \X Nat |-> CountBit(t[2], b[t[1]])]
           k == CHOOSE k : k = [i \in Nat |-> IF i = 0 THEN c ELSE CountBit(k[i - 1], b[i])]
<1>1. Smaller(P)
  BY DEF Smaller
<1>2. ASSUME NEW x \in Nat, NEW d PROVE CountBit(x, d) \in Nat
  BY DEF CountBit
<1>3. \A v \in Nat \ {0}, x \in Nat, y \in Nat : S[<<v, x, y>>] = CountBit(x, b[v])
  OBVIOUS
<1>4. PICK f : Recursive(f, Nat, c, P, P, S)
  <2> HIDE DEF P, S
  <2>1. \A v \in Nat \ {0}, x \in Nat, y \in Nat : S[<<v, x, y>>] \in Nat
    <3> SUFFICES ASSUME NEW v \in Nat \ {0}, NEW x \in Nat, NEW y \in Nat
                 PROVE  S[<<v, x, y>>] \in Nat
      OBVIOUS
    <3>1. S[<<v, x, y>>] = CountBit(x, b[v])
      BY <1>3
    <3> QED
      BY <1>2, <3>1
  <2>2. StaysIn(Nat, S)
    BY <2>1 DEF StaysIn
  <2> QED
    BY <1>1, <2>2, Recursion
<1>5. f \in [Nat -> Nat] /\ f[0] = c /\ \A v \in Nat \ {0} : f[v] = CountBit(f[v - 1], b[v])
  <2>1. f \in [Nat -> Nat] /\ f[0] = c /\ \A v \in Nat \ {0} : f[v] = S[<<v, f[P[v]], f[P[v]]>>]
    BY <1>4 DEF Recursive
  <2> SUFFICES ASSUME NEW v \in Nat \ {0} PROVE f[v] = CountBit(f[v - 1], b[v])
    BY <2>1
  <2>2. P[v] = v - 1 /\ f[v - 1] \in Nat
    BY <2>1
  <2>3. f[v] = S[<<v, f[v - 1], f[v - 1]>>]
    BY <2>1, <2>2
  <2> HIDE DEF S
  <2> QED
    BY <1>3, <2>2, <2>3
<1>6. f = [i \in Nat |-> IF i = 0 THEN c ELSE CountBit(f[i - 1], b[i])]
  BY <1>5, Zenon
<1>7. k = [i \in Nat |-> IF i = 0 THEN c ELSE CountBit(k[i - 1], b[i])]
  BY <1>6, Zenon
<1>8. \A n : Count(c, b, n) = k[n]
  BY DEF Count
<1> HIDE DEF k
<1>9. k[0] = c /\ \A n \in Nat : k[n + 1] = CountBit(k[n], b[n + 1])
  <2>1. \A n \in Nat : k[n] = IF n = 0 THEN c ELSE CountBit(k[n - 1], b[n])
    BY <1>7, Zenon
  <2>2. \A n \in Nat : n + 1 \in Nat /\ n + 1 # 0 /\ n + 1 - 1 = n
    OBVIOUS
  <2> QED
    BY <2>1, <2>2
<1>10. \A n \in Nat : k[n] \in Nat
  <2> DEFINE T == {n \in Nat : k[n] \in Nat}
  <2>1. 0 \in T /\ \A n \in Nat : n \in T => n + 1 \in T
    BY <1>2, <1>9
  <2> HIDE DEF T
  <2>2. Nat \subseteq T
    BY <2>1, NatInduct
  <2> QED
    BY <2>2 DEF T
<1> QED
  BY <1>8, <1>9, <1>10

\* In b the m bits of a stand behind k others.
Behind(a, b, k, m) == \A i \in 1 .. m : b[k + i] = a[i]

\* The count of bits that stand behind others goes on from the count of those.
LEMMA CountBehind ==
  ASSUME NEW c \in Nat, NEW a, NEW b, NEW k \in Nat, NEW m \in Nat, Behind(a, b, k, m)
  PROVE  \A n \in 0 .. m : Count(c, b, k + n) = Count(Count(c, b, k), a, n)
<1> DEFINE T == {n \in Nat : n <= m => Count(c, b, k + n) = Count(Count(c, b, k), a, n)}
<1>1. Count(c, b, k) \in Nat
  BY CountOn
<1>2. 0 \in T
  BY <1>1, CountOn
<1>3. ASSUME NEW n \in Nat, n \in T PROVE n + 1 \in T
  <2> SUFFICES ASSUME n + 1 <= m
               PROVE  Count(c, b, k + (n + 1)) = Count(Count(c, b, k), a, n + 1)
    OBVIOUS
  <2>1. k + n \in Nat /\ k + (n + 1) = (k + n) + 1 /\ n + 1 \in 1 .. m
    OBVIOUS
  <2>2. Count(c, b, (k + n) + 1) = CountBit(Count(c, b, k + n), b[(k + n) + 1])
    <3>1. \A j \in Nat : Count(c, b, j + 1) = CountBit(Count(c, b, j), b[j + 1])
      BY CountOn
    <3> QED
      BY <2>1, <3>1
  <2>3. Count(Count(c, b, k), a, n + 1) = CountBit(Count(Count(c, b, k), a, n), a[n + 1])
    BY <1>1, CountOn
  <2>4. b[k + (n + 1)] = a[n + 1]
    BY <2>1 DEF Behind
  <2>5. Count(c, b, k + n) = Count(Count(c, b, k), a, n)
    BY <1>3
  <2> QED
    BY <2>1, <2>2, <2>3, <2>4, <2>5
<1>4. Nat \subseteq T
  <2> HIDE DEF T
  <2> QED
    BY <1>2, <1>3, NatInduct
<1> QED
  BY <1>4

\* The count of joined sequences.
LEMMA CountJoin ==
  ASSUME NEW c \in Nat, NEW a \in Bits, NEW b \in Bits
  PROVE  /\ Len(a \o b) = Len(a) + Len(b)
         /\ \A n \in 0 .. Len(a) : Count(c, a \o b, n) = Count(c, a, n)
         /\ \A n \in 0 .. Len(b) : Count(c, a \o b, Len(a) + n) = Count(Count(c, a, Len(a)), b, n)
<1>1. PICK d : d = a \o b
  OBVIOUS
<1>2. /\ Len(a) \in Nat /\ Len(b) \in Nat /\ Len(d) = Len(a) + Len(b)
      /\ Behind(a, d, 0, Len(a)) /\ Behind(b, d, Len(a), Len(b))
  BY <1>1 DEF Bits, Behind
<1>3. PICK k \in Nat, m \in Nat : k = Len(a) /\ m = Len(b)
  BY <1>2
<1>4. Behind(a, d, 0, k) /\ Behind(b, d, k, m)
  BY <1>2, <1>3
<1>5. \A n \in 0 .. k : Count(c, d, 0 + n) = Count(Count(c, d, 0), a, n)
  BY <1>4, CountBehind
<1>6. Count(c, d, 0) = c
  BY CountOn
<1>7. \A n \in 0 .. k : Count(c, d, n) = Count(c, a, n)
  BY <1>5, <1>6
<1>8. \A n \in 0 .. m : Count(c, d, k + n) = Count(Count(c, d, k), b, n)
  BY <1>4, CountBehind
<1>9. Count(c, d, k) = Count(c, a, k)
  BY <1>7
<1> QED
  BY <1>1, <1>2, <1>3, <1>7, <1>8, <1>9

\* One bit.
LEMMA CountOne ==
  ASSUME NEW c \in Nat
  PROVE  /\ Len(<<1>>) = 1 /\ Count(c, <<1>>, 0) = c /\ Count(c, <<1>>, 1) = c + 1
         /\ Len(<<0>>) = 1 /\ Count(c, <<0>>, 0) = c /\ (c # 0 => Count(c, <<0>>, 1) = c - 1)
<1>1. <<1>>[0 + 1] = 1 /\ <<0>>[0 + 1] = 0 /\ Len(<<1>>) = 1 /\ Len(<<0>>) = 1
  OBVIOUS
<1>2. Count(c, <<1>>, 0) = c /\ Count(c, <<0>>, 0) = c
  BY CountOn
<1>3. Count(c, <<1>>, 0 + 1) = CountBit(c, 1)
  BY <1>1, <1>2, CountOn
<1>4. Count(c, <<0>>, 0 + 1) = CountBit(c, 0)
  BY <1>1, <1>2, CountOn
<1> QED
  BY <1>1, <1>2, <1>3, <1>4 DEF CountBit

-----------------------------------------------------------------------------
(* The end of a code. *)

\* What write writes: the count is one less with its last bit, and not before.
Word(b) ==
  b \in Bits /\ \A c \in Nat \ {0} :
    /\ \A n \in 0 .. Len(b) - 1 : Count(c, b, n) >= c
    /\ Count(c, b, Len(b)) = c - 1

\* What << writes: the count is back with its last bit, and not before.
Item(b) ==
  b \in Bits /\ Len(b) > 0 /\ \A c \in Nat :
    /\ \A n \in 1 .. Len(b) - 1 : Count(c, b, n) > c
    /\ Count(c, b, Len(b)) = c

\* Some of these one after the other.
Items(b) ==
  b \in Bits /\ \A c \in Nat :
    /\ \A n \in 0 .. Len(b) : Count(c, b, n) >= c
    /\ Count(c, b, Len(b)) = c

\* A zero is a word.
LEMMA WordZero == Word(<<0>>)
<1>1. <<0>> \in Bits
  BY BitsJoin
<1>2. \A c \in Nat \ {0} : Len(<<0>>) = 1 /\ Count(c, <<0>>, 0) = c /\ Count(c, <<0>>, 1) = c - 1
  BY CountOne
<1> QED
  BY <1>1, <1>2 DEF Word

\* A one and two words are a word.
LEMMA WordJoin ==
  ASSUME NEW a, NEW b, Word(a), Word(b)
  PROVE  Word(<<1>> \o a \o b)
<1>1. <<1>> \in Bits /\ a \in Bits /\ b \in Bits
  BY BitsJoin DEF Word
<1>2. PICK d : d = <<1>> \o a
  OBVIOUS
<1>3. PICK e : e = d \o b
  OBVIOUS
<1>4. d \in Bits /\ e \in Bits
  BY <1>1, <1>2, <1>3, BitsJoin
<1>5. PICK k \in Nat, m \in Nat : k = Len(a) /\ m = Len(b)
  BY <1>1 DEF Bits
<1>6. Len(d) = k + 1 /\ Len(e) = k + 1 + m
  BY <1>1, <1>2, <1>3, <1>4, <1>5, CountJoin, CountOne
<1>7. ASSUME NEW c \in Nat \ {0}
      PROVE  /\ \A n \in 0 .. Len(e) - 1 : Count(c, e, n) >= c
             /\ Count(c, e, Len(e)) = c - 1
  <2>1. /\ \A n \in 0 .. k - 1 : Count(c + 1, a, n) >= c + 1
        /\ Count(c + 1, a, k) = c
        /\ \A n \in 0 .. m - 1 : Count(c, b, n) >= c
        /\ Count(c, b, m) = c - 1
    BY <1>5 DEF Word
  <2>2. \A n \in 0 .. k : Count(c, d, 1 + n) = Count(c + 1, a, n)
    <3>1. \A n \in 0 .. Len(a) : Count(c, <<1>> \o a, Len(<<1>>) + n) = Count(Count(c, <<1>>, Len(<<1>>)), a, n)
      BY <1>1, CountJoin
    <3>2. Len(<<1>>) = 1 /\ Count(c, <<1>>, 1) = c + 1
      BY CountOne
    <3> QED
      BY <1>2, <1>5, <3>1, <3>2
  <2>3. Count(c, d, 0) = c
    BY CountOn
  <2>4. \A n \in 0 .. k : Count(c, d, n) >= c
    <3>1. ASSUME NEW n \in 1 .. k PROVE Count(c, d, n) >= c
      <4>1. n - 1 \in 0 .. k - 1 /\ n - 1 \in 0 .. k /\ 1 + (n - 1) = n
        OBVIOUS
      <4>2. Count(c, d, n) = Count(c + 1, a, n - 1) /\ Count(c + 1, a, n - 1) >= c + 1
        BY <2>1, <2>2, <4>1
      <4>3. Count(c + 1, a, n - 1) \in Nat
        BY <4>1, CountOn
      <4> QED
        BY <4>2, <4>3
    <3> QED
      BY <2>3, <3>1
  <2>5. Count(c, d, k + 1) = c
    BY <2>1, <2>2
  <2>6. /\ \A n \in 0 .. k + 1 : Count(c, e, n) = Count(c, d, n)
        /\ \A n \in 0 .. m : Count(c, e, k + 1 + n) = Count(c, b, n)
    <3>1. /\ \A n \in 0 .. Len(d) : Count(c, d \o b, n) = Count(c, d, n)
          /\ \A n \in 0 .. Len(b) : Count(c, d \o b, Len(d) + n) = Count(Count(c, d, Len(d)), b, n)
      BY <1>1, <1>4, CountJoin
    <3> QED
      BY <1>3, <1>5, <1>6, <2>5, <3>1
  <2>7. ASSUME NEW n \in 0 .. k + m PROVE Count(c, e, n) >= c
    <3>1. CASE n <= k
      BY <2>4, <2>6, <3>1
    <3>2. CASE n > k
      <4>1. n - (k + 1) \in 0 .. m - 1 /\ n - (k + 1) \in 0 .. m /\ k + 1 + (n - (k + 1)) = n
        BY <3>2
      <4> QED
        BY <2>1, <2>6, <4>1
    <3> QED
      BY <3>1, <3>2
  <2>8. Count(c, e, k + 1 + m) = c - 1
    BY <2>1, <2>6
  <2> QED
    BY <1>6, <2>7, <2>8
<1>8. Word(e)
  BY <1>4, <1>7 DEF Word
<1> QED
  BY <1>2, <1>3, <1>8

\* Every number is written as a word.
LEMMA WriteWord == \A v \in Nat : Word(Write[v])
<1> DEFINE T == {v \in Nat : Word(Write[v])}
<1>1. ASSUME NEW v \in Nat, \A u \in 0 .. v - 1 : u \in T PROVE v \in T
  <2>1. CASE v = 0
    BY <2>1, WriteOn, WordZero
  <2>2. CASE v # 0
    <3>1. Power(v) \in T /\ Remainder(v, Power(v)) \in T
      BY <1>1, <2>2, PowerRemainder
    <3>2. PICK a, b : a = Write[Power(v)] /\ b = Write[Remainder(v, Power(v))]
      OBVIOUS
    <3>3. Word(a) /\ Word(b)
      BY <3>1, <3>2
    <3>4. Word(<<1>> \o a \o b)
      BY <3>3, WordJoin
    <3>5. Write[v] = <<1>> \o a \o b
      BY <2>2, <3>2, WriteOn
    <3> QED
      BY <3>4, <3>5
  <2> QED
    BY <2>1, <2>2
<1>2. Nat \subseteq T
  <2> HIDE DEF T
  <2> QED
    BY <1>1, StrongInduct
<1> QED
  BY <1>2

\* A number or a character written with << is an item.
LEMMA EncodeItem == \A v \in Nat : Item(Encode(v))
<1> SUFFICES ASSUME NEW v \in Nat PROVE Item(Encode(v))
  OBVIOUS
<1>1. PICK w, e : w = Write[v] /\ e = <<1>> \o w
  OBVIOUS
<1>2. Word(w) /\ w \in Bits /\ <<1>> \in Bits /\ e \in Bits
  BY <1>1, WriteWord, BitsJoin DEF Word
<1>3. PICK k \in Nat : k = Len(w)
  BY <1>2 DEF Bits
<1>4. Len(e) = k + 1
  BY <1>1, <1>2, <1>3, CountJoin, CountOne
<1>5. ASSUME NEW c \in Nat
      PROVE  /\ \A n \in 1 .. Len(e) - 1 : Count(c, e, n) > c
             /\ Count(c, e, Len(e)) = c
  <2>1. \A n \in 0 .. k : Count(c, e, 1 + n) = Count(c + 1, w, n)
    <3>1. \A n \in 0 .. Len(w) : Count(c, <<1>> \o w, Len(<<1>>) + n) = Count(Count(c, <<1>>, Len(<<1>>)), w, n)
      BY <1>2, CountJoin
    <3>2. Len(<<1>>) = 1 /\ Count(c, <<1>>, 1) = c + 1
      BY CountOne
    <3> QED
      BY <1>1, <1>3, <3>1, <3>2
  <2>2. /\ \A n \in 0 .. k - 1 : Count(c + 1, w, n) >= c + 1
        /\ Count(c + 1, w, k) = c
    BY <1>2, <1>3 DEF Word
  <2>3. ASSUME NEW n \in 1 .. k PROVE Count(c, e, n) > c
    <3>1. n - 1 \in 0 .. k - 1 /\ n - 1 \in 0 .. k /\ 1 + (n - 1) = n
      OBVIOUS
    <3>2. Count(c, e, n) = Count(c + 1, w, n - 1) /\ Count(c + 1, w, n - 1) >= c + 1
      BY <2>1, <2>2, <3>1
    <3>3. Count(c + 1, w, n - 1) \in Nat
      <4>1. PICK x \in Nat : x = c + 1
        OBVIOUS
      <4>2. \A i \in Nat : Count(x, w, i) \in Nat
        BY CountOn
      <4> QED
        BY <4>1, <4>2
    <3> QED
      BY <3>2, <3>3
  <2> QED
    BY <1>4, <2>1, <2>2, <2>3
<1>6. Item(e)
  BY <1>2, <1>4, <1>5 DEF Item
<1> QED
  BY <1>1, <1>6 DEF Encode

\* An item is some items.
LEMMA ItemItems ==
  ASSUME NEW b, Item(b)
  PROVE  Items(b)
<1>1. b \in Bits /\ Len(b) \in Nat \ {0}
  BY DEF Item, Bits
<1>2. ASSUME NEW c \in Nat
      PROVE  /\ \A n \in 0 .. Len(b) : Count(c, b, n) >= c
             /\ Count(c, b, Len(b)) = c
  <2>1. Count(c, b, 0) = c /\ \A n \in Nat : Count(c, b, n) \in Nat
    BY CountOn
  <2>2. (\A n \in 1 .. Len(b) - 1 : Count(c, b, n) > c) /\ Count(c, b, Len(b)) = c
    BY DEF Item
  <2>3. ASSUME NEW n \in 0 .. Len(b) PROVE Count(c, b, n) >= c
    <3>1. n = 0 \/ n = Len(b) \/ n \in 1 .. Len(b) - 1
      BY <1>1
    <3>2. Count(c, b, n) \in Nat
      BY <2>1
    <3> QED
      BY <2>1, <2>2, <3>1, <3>2
  <2> QED
    BY <2>2, <2>3
<1> QED
  BY <1>1, <1>2 DEF Items

\* Items and items are items.
LEMMA ItemsJoin ==
  ASSUME NEW a, NEW b, Items(a), Items(b)
  PROVE  Items(a \o b)
<1>1. a \in Bits /\ b \in Bits
  BY DEF Items
<1>2. PICK d : d = a \o b
  OBVIOUS
<1>3. d \in Bits
  BY <1>1, <1>2, BitsJoin
<1>4. PICK k \in Nat, m \in Nat : k = Len(a) /\ m = Len(b)
  BY <1>1 DEF Bits
<1>5. Len(d) = k + m
  BY <1>1, <1>2, <1>4 DEF Bits
<1>6. ASSUME NEW c \in Nat
      PROVE  /\ \A n \in 0 .. k + m : Count(c, d, n) >= c
             /\ Count(c, d, k + m) = c
  <2>1. /\ (\A n \in 0 .. k : Count(c, a, n) >= c) /\ Count(c, a, k) = c
        /\ (\A n \in 0 .. m : Count(c, b, n) >= c) /\ Count(c, b, m) = c
    BY <1>4 DEF Items
  <2>2. /\ \A n \in 0 .. k : Count(c, d, n) = Count(c, a, n)
        /\ \A n \in 0 .. m : Count(c, d, k + n) = Count(c, b, n)
    <3>1. /\ \A n \in 0 .. Len(a) : Count(c, a \o b, n) = Count(c, a, n)
          /\ \A n \in 0 .. Len(b) : Count(c, a \o b, Len(a) + n) = Count(Count(c, a, Len(a)), b, n)
      BY <1>1, CountJoin
    <3> QED
      BY <1>2, <1>4, <2>1, <3>1
  <2>3. ASSUME NEW n \in 0 .. k + m PROVE Count(c, d, n) >= c
    <3>1. CASE n <= k
      BY <2>1, <2>2, <3>1
    <3>2. CASE n > k
      <4>1. n - k \in 0 .. m /\ k + (n - k) = n
        BY <3>2
      <4> QED
        BY <2>1, <2>2, <4>1
    <3> QED
      BY <3>1, <3>2
  <2> QED
    BY <2>1, <2>2, <2>3
<1>7. Items(d)
  BY <1>3, <1>5, <1>6 DEF Items
<1> QED
  BY <1>2, <1>7

\* No items are items.
LEMMA ItemsNone == Items(<<>>)
<1>1. <<>> \in Bits /\ Len(<<>>) = 0
  BY DEF Bits
<1>2. \A c \in Nat : Count(c, <<>>, 0) = c
  BY CountOn
<1> QED
  BY <1>1, <1>2 DEF Items

\* FlattenSeq joins the sequences one after the other.
LEMMA FlattenOn ==
  ASSUME NEW s, NEW n \in Nat \ {0}, s \in [1 .. n -> Bits]
  PROVE  \E g : /\ FlattenSeq(s) = g[n]
                /\ \A i \in 1 .. n : g[i] \in Bits /\ g[i] = IF i = 1 THEN s[i] ELSE g[i - 1] \o s[i]
<1>0. s \in Seq(Bits) /\ Len(s) = n
  <2>1. s \in Seq(Bits)
    OBVIOUS
  <2> QED
    BY <2>1
<1> DEFINE P == [v \in Nat |-> v - 1]
           S == [t \in Nat \X Bits \X Bits |-> IF t[1] + 1 \in 1 .. n THEN t[2] \o s[t[1] + 1] ELSE t[2]]
           g == CHOOSE g : g = [i \in 1 .. n |-> IF i = 1 THEN s[i] ELSE g[i - 1] \o s[i]]
<1>1. Smaller(P)
  BY DEF Smaller
<1>2. \A v \in Nat \ {0}, x \in Bits, y \in Bits :
        S[<<v, x, y>>] = IF v + 1 \in 1 .. n THEN x \o s[v + 1] ELSE x
  OBVIOUS
<1>3. StaysIn(Bits, S)
  <2>1. ASSUME NEW v \in Nat \ {0}, NEW x \in Bits, NEW y \in Bits PROVE S[<<v, x, y>>] \in Bits
    <3>1. S[<<v, x, y>>] = IF v + 1 \in 1 .. n THEN x \o s[v + 1] ELSE x
      BY <1>2
    <3> HIDE DEF S
    <3>2. CASE v + 1 \in 1 .. n
      <4>1. s[v + 1] \in Bits
        BY <3>2
      <4> QED
        BY <3>1, <3>2, <4>1, BitsJoin
    <3> QED
      BY <3>1, <3>2
  <2> QED
    BY <2>1 DEF StaysIn
<1>4. 1 \in 1 .. n /\ s[1] \in Bits
  OBVIOUS
<1>5. PICK f : Recursive(f, Bits, s[1], P, P, S)
  <2> HIDE DEF P, S
  <2> QED
    BY <1>1, <1>3, <1>4, Recursion
<1>6. f \in [Nat -> Bits] /\ f[0] = s[1] /\ \A v \in Nat \ {0} : f[v] = S[<<v, f[P[v]], f[P[v]]>>]
  BY <1>5 DEF Recursive
<1>7. ASSUME NEW v \in Nat \ {0}, v + 1 \in 1 .. n PROVE f[v] = f[v - 1] \o s[v + 1]
  <2>1. P[v] = v - 1 /\ f[v - 1] \in Bits
    BY <1>6
  <2>2. f[v] = S[<<v, f[v - 1], f[v - 1]>>]
    BY <1>6, <2>1
  <2> HIDE DEF S
  <2> QED
    BY <1>2, <1>7, <2>1, <2>2
<1> DEFINE h == [i \in 1 .. n |-> f[i - 1]]
<1>8. h = [i \in 1 .. n |-> IF i = 1 THEN s[i] ELSE h[i - 1] \o s[i]]
  <2>1. ASSUME NEW i \in 1 .. n PROVE f[i - 1] = IF i = 1 THEN s[i] ELSE h[i - 1] \o s[i]
    <3>1. CASE i = 1
      BY <1>6, <3>1
    <3>2. CASE i # 1
      <4>1. i - 1 \in Nat \ {0} /\ (i - 1) + 1 = i /\ i - 1 \in 1 .. n /\ h[i - 1] = f[(i - 1) - 1]
        BY <3>2
      <4> HIDE DEF h
      <4>2. f[i - 1] = f[(i - 1) - 1] \o s[i]
        BY <1>7, <4>1
      <4> QED
        BY <3>2, <4>1, <4>2
    <3> QED
      BY <3>1, <3>2
  <2> QED
    BY <2>1
<1>9. g = [i \in 1 .. n |-> IF i = 1 THEN s[i] ELSE g[i - 1] \o s[i]]
  BY <1>8, Zenon
<1>10. FlattenSeq(s) = g[n]
  BY <1>0 DEF FlattenSeq
<1> HIDE DEF g
<1>11. \A i \in 1 .. n : g[i] = IF i = 1 THEN s[i] ELSE g[i - 1] \o s[i]
  BY <1>9, Zenon
<1> DEFINE T == {i \in Nat : i + 1 <= n => g[i + 1] \in Bits}
<1>12. 0 \in T
  BY <1>4, <1>11
<1>13. ASSUME NEW i \in Nat, i \in T PROVE i + 1 \in T
  <2> SUFFICES ASSUME (i + 1) + 1 <= n PROVE g[(i + 1) + 1] \in Bits
    OBVIOUS
  <2>1. PICK j \in 1 .. n : j = (i + 1) + 1 /\ j # 1 /\ j - 1 = i + 1
    OBVIOUS
  <2>2. g[j] = g[j - 1] \o s[j]
    BY <1>11, <2>1
  <2>3. g[i + 1] \in Bits
    BY <1>13
  <2>4. g[j - 1] \in Bits /\ s[j] \in Bits
    BY <2>1, <2>3
  <2>5. g[j] \in Bits
    BY <2>2, <2>4, BitsJoin
  <2> QED
    BY <2>1, <2>5
<1>14. Nat \subseteq T
  <2> HIDE DEF T
  <2> QED
    BY <1>12, <1>13, NatInduct
<1>15. \A i \in 1 .. n : g[i] \in Bits
  <2>1. \A i \in 1 .. n : i - 1 \in T /\ (i - 1) + 1 = i
    BY <1>14
  <2> QED
    BY <2>1
<1> QED
  BY <1>10, <1>11, <1>15

\* A string between its first and last bit.
LEMMA FlattenItems ==
  ASSUME NEW s, NEW n \in Nat, s \in [1 .. n -> Bits], \A i \in 1 .. n : Item(s[i])
  PROVE  Items(FlattenSeq(s))
<1>1. CASE n = 0
  <2>1. s = <<>> /\ FlattenSeq(s) = s
    BY <1>1 DEF FlattenSeq
  <2> QED
    BY <2>1, ItemsNone
<1>2. CASE n # 0
  <2>1. PICK g : /\ FlattenSeq(s) = g[n]
                 /\ \A i \in 1 .. n : g[i] \in Bits /\ g[i] = IF i = 1 THEN s[i] ELSE g[i - 1] \o s[i]
    BY <1>2, FlattenOn
  <2> DEFINE T == {i \in Nat : i + 1 <= n => Items(g[i + 1])}
  <2>2. 0 \in T
    <3>1. 1 \in 1 .. n
      BY <1>2
    <3>2. g[1] = s[1] /\ Item(s[1])
      BY <2>1, <3>1
    <3> QED
      BY <3>2, ItemItems
  <2>3. ASSUME NEW i \in Nat, i \in T PROVE i + 1 \in T
    <3> SUFFICES ASSUME (i + 1) + 1 <= n PROVE Items(g[(i + 1) + 1])
      OBVIOUS
    <3>1. PICK j \in 1 .. n : j = (i + 1) + 1 /\ j # 1 /\ j - 1 = i + 1
      OBVIOUS
    <3>2. Items(g[i + 1])
      BY <2>3
    <3>3. g[j] = g[j - 1] \o s[j] /\ Item(s[j])
      BY <2>1, <3>1
    <3>4. Items(g[j - 1]) /\ Items(s[j])
      BY <3>1, <3>2, <3>3, ItemItems
    <3>5. Items(g[j])
      BY <3>3, <3>4, ItemsJoin
    <3> QED
      BY <3>1, <3>5
  <2>4. Nat \subseteq T
    <3> HIDE DEF T
    <3> QED
      BY <2>2, <2>3, NatInduct
  <2>5. n - 1 \in T
    BY <1>2, <2>4
  <2> QED
    BY <1>2, <2>1, <2>5
<1> QED
  BY <1>1, <1>2

\* A string written with << is an item.
LEMMA EncodeStringItem == \A s \in Seq(Nat) : Item(EncodeString(s))
<1> SUFFICES ASSUME NEW s \in Seq(Nat) PROVE Item(EncodeString(s))
  OBVIOUS
<1>1. PICK f, d, e : f = FlattenSeq([i \in DOMAIN s |-> Encode(s[i])]) /\ d = <<1>> \o f /\ e = d \o <<0>>
  OBVIOUS
<1>2. Items(f)
  <2>1. PICK n \in Nat : n = Len(s)
    OBVIOUS
  <2>2. PICK t : t = [i \in DOMAIN s |-> Encode(s[i])]
    OBVIOUS
  <2>3. \A i \in 1 .. n : t[i] = Encode(s[i]) /\ Item(t[i]) /\ t[i] \in Bits
    <3>1. ASSUME NEW i \in 1 .. n PROVE t[i] = Encode(s[i]) /\ Item(t[i]) /\ t[i] \in Bits
      <4>1. s[i] \in Nat /\ t[i] = Encode(s[i])
        BY <2>1, <2>2
      <4>2. Item(t[i])
        BY <4>1, EncodeItem
      <4> QED
        BY <4>1, <4>2 DEF Item
    <3> QED
      BY <3>1
  <2>4. t \in [1 .. n -> Bits]
    <3>1. t = [i \in 1 .. n |-> t[i]]
      BY <2>1, <2>2
    <3> QED
      BY <2>3, <3>1
  <2>5. Items(FlattenSeq(t))
    BY <2>3, <2>4, FlattenItems
  <2> QED
    BY <1>1, <2>2, <2>5
<1>3. f \in Bits /\ <<1>> \in Bits /\ <<0>> \in Bits /\ d \in Bits /\ e \in Bits
  BY <1>1, <1>2, BitsJoin DEF Items
<1>4. PICK k \in Nat : k = Len(f)
  BY <1>3 DEF Bits
<1>5. Len(d) = k + 1 /\ Len(e) = k + 2
  BY <1>1, <1>3, <1>4 DEF Bits
<1>6. ASSUME NEW c \in Nat
      PROVE  /\ \A n \in 1 .. Len(e) - 1 : Count(c, e, n) > c
             /\ Count(c, e, Len(e)) = c
  <2>1. (\A n \in 0 .. k : Count(c + 1, f, n) >= c + 1) /\ Count(c + 1, f, k) = c + 1
    BY <1>2, <1>4 DEF Items
  <2>2. \A n \in 0 .. k : Count(c, d, 1 + n) = Count(c + 1, f, n)
    <3>1. \A n \in 0 .. Len(f) : Count(c, <<1>> \o f, Len(<<1>>) + n) = Count(Count(c, <<1>>, Len(<<1>>)), f, n)
      BY <1>3, CountJoin
    <3>2. Len(<<1>>) = 1 /\ Count(c, <<1>>, 1) = c + 1
      BY CountOne
    <3> QED
      BY <1>1, <1>4, <3>1, <3>2
  <2>3. /\ \A n \in 0 .. k + 1 : Count(c, e, n) = Count(c, d, n)
        /\ Count(c, e, k + 2) = Count(Count(c, d, k + 1), <<0>>, 1)
    <3>1. PICK z : z = <<0>>
      OBVIOUS
    <3>2. z \in Bits /\ Len(z) = 1 /\ 1 \in 0 .. Len(z) /\ e = d \o z
      BY <1>1, <1>3, <3>1
    <3>3. \A n \in 0 .. Len(d) : Count(c, e, n) = Count(c, d, n)
      BY <1>3, <3>2, CountJoin
    <3>4. \A n \in 0 .. Len(z) : Count(c, e, Len(d) + n) = Count(Count(c, d, Len(d)), z, n)
      <4>1. \A n \in 0 .. Len(z) : Count(c, d \o z, Len(d) + n) = Count(Count(c, d, Len(d)), z, n)
        BY <1>3, <3>2, CountJoin, ZenonT(30)
      <4> QED
        BY <3>2, <4>1
    <3>5. Len(d) = k + 1 /\ Len(d) + 1 = k + 2
      BY <1>5
    <3>6. Count(c, e, Len(d) + 1) = Count(Count(c, d, Len(d)), z, 1)
      BY <3>2, <3>4
    <3> QED
      BY <3>1, <3>3, <3>5, <3>6
  <2>4. Count(c, d, k + 1) = c + 1
    BY <2>1, <2>2
  <2>5. Count(c, e, k + 2) = c
    <3>1. Count(c + 1, <<0>>, 1) = c
      BY CountOne
    <3> QED
      BY <2>3, <2>4, <3>1
  <2>6. ASSUME NEW n \in 1 .. k + 1 PROVE Count(c, e, n) > c
    <3>1. n - 1 \in 0 .. k /\ 1 + (n - 1) = n
      OBVIOUS
    <3>2. Count(c, e, n) = Count(c + 1, f, n - 1) /\ Count(c + 1, f, n - 1) >= c + 1
      BY <2>1, <2>2, <2>3, <3>1
    <3>3. Count(c + 1, f, n - 1) \in Nat
      <4>1. PICK x \in Nat : x = c + 1
        OBVIOUS
      <4>2. \A i \in Nat : Count(x, f, i) \in Nat
        BY CountOn
      <4> QED
        BY <4>1, <4>2
    <3> QED
      BY <3>2, <3>3
  <2> QED
    BY <1>5, <2>5, <2>6
<1>7. Item(e)
  BY <1>3, <1>5, <1>6 DEF Item
<1>8. EncodeString(s) = e
  <2>1. EncodeString(s) = <<1>> \o f \o <<0>>
    BY <1>1 DEF EncodeString
  <2> QED
    BY <1>1, <2>1
<1> QED
  BY <1>7, <1>8

-----------------------------------------------------------------------------
(* Keys. *)

\* What << writes: numbers and strings.
Code == {Encode(v) : v \in Nat} \cup {EncodeString(s) : s \in Seq(Nat)}

\* The count of writeBit is zero at the end of a key and nowhere before, which is
\* how a walk over the tree knows that it has a whole key (Stack, PathBase).
THEOREM KeyEnds ==
  \A k \in Code :
    /\ k \in Seq({0, 1}) \ {<<>>}
    /\ \A n \in 1 .. Len(k) : Count(0, k, n) = 0 <=> n = Len(k)
<1> SUFFICES ASSUME NEW k \in Code
             PROVE  /\ k \in Seq({0, 1}) \ {<<>>}
                    /\ \A n \in 1 .. Len(k) : Count(0, k, n) = 0 <=> n = Len(k)
  OBVIOUS
<1>1. Item(k)
  BY EncodeItem, EncodeStringItem DEF Code
<1>2. k \in Bits /\ Len(k) > 0
  BY <1>1 DEF Item
<1>3. (\A n \in 1 .. Len(k) - 1 : Count(0, k, n) > 0) /\ Count(0, k, Len(k)) = 0
  BY <1>1 DEF Item
<1>4. Len(k) \in Nat \ {0} /\ k # <<>>
  BY <1>2 DEF Bits
<1> QED
  BY <1>2, <1>3, <1>4 DEF Bits

\* No key extends another (PowerEncoding, encoding.h).
THEOREM CodesPrefixFree ==
  \A k, l \in Code : \A n \in 0 .. Len(l) : k = SubSeq(l, 1, n) => k = l
<1> SUFFICES ASSUME NEW k \in Code, NEW l \in Code, NEW n \in 0 .. Len(l), k = SubSeq(l, 1, n)
             PROVE  k = l
  OBVIOUS
<1>1. k \in Bits /\ l \in Bits /\ k # <<>>
  BY KeyEnds DEF Bits
<1>2. Len(l) \in Nat /\ Len(k) = n /\ n # 0 /\ \A i \in 1 .. n : k[i] = l[i]
  BY <1>1 DEF Bits
<1>3. n \in Nat /\ Behind(k, l, 0, n)
  BY <1>2 DEF Behind
<1>4. \A i \in 0 .. n : Count(0, l, 0 + i) = Count(Count(0, l, 0), k, i)
  BY <1>3, CountBehind
<1>5. Count(0, l, 0) = 0
  BY CountOn
<1>6. Count(0, l, n) = Count(0, k, n)
  <2>1. n \in 0 .. n /\ 0 + n = n
    BY <1>3
  <2> QED
    BY <1>4, <1>5, <2>1
<1>7. Count(0, k, n) = 0
  <2>1. \A i \in 1 .. Len(k) : Count(0, k, i) = 0 <=> i = Len(k)
    BY KeyEnds
  <2> QED
    BY <1>2, <1>3, <2>1
<1>8. n = Len(l)
  <2>1. \A i \in 1 .. Len(l) : Count(0, l, i) = 0 <=> i = Len(l)
    BY KeyEnds
  <2> QED
    BY <1>2, <1>3, <1>6, <1>7, <2>1
<1> QED
  BY <1>1, <1>8 DEF Bits

-----------------------------------------------------------------------------
(* Recursion over sequences of bits, to what is left of them. *)

\* G goes on from functions in Q to one in Q, and looks at shorter sequences only.
Local(D, Q, G) ==
  /\ Q \subseteq [Bits -> D]
  /\ \A q \in Q : [b \in Bits |-> G[<<b, q>>]] \in Q
  /\ \A b \in Bits, q \in Q, r \in [Bits -> D] :
       (\A c \in Bits : Len(c) < Len(b) => q[c] = r[c]) => G[<<b, q>>] = G[<<b, r>>]

\* There is a function that G leaves as it is, each of its values one of a function in Q.
LEMMA BitsRecursion ==
  ASSUME NEW D, NEW Q, NEW G, NEW q0 \in Q, Local(D, Q, G)
  PROVE  \E r \in [Bits -> D] : /\ \A b \in Bits : r[b] = G[<<b, r>>]
                                /\ \A b \in Bits : \E q \in Q : r[b] = q[b]
<1> DEFINE P == [v \in Nat |-> v - 1]
           S == [t \in Nat \X Q \X Q |-> [b \in Bits |-> G[<<b, t[2]>>]]]
<1>1. Smaller(P)
  BY DEF Smaller
<1>2. \A v \in Nat \ {0}, x \in Q, y \in Q : S[<<v, x, y>>] = [b \in Bits |-> G[<<b, x>>]]
  OBVIOUS
<1>3. PICK f : Recursive(f, Q, q0, P, P, S)
  <2>1. StaysIn(Q, S)
    <3> HIDE DEF S
    <3> QED
      BY <1>2 DEF StaysIn, Local
  <2> HIDE DEF P, S
  <2> QED
    BY <1>1, <2>1, Recursion
<1>4. f \in [Nat -> Q] /\ \A n \in Nat, b \in Bits : f[n + 1][b] = G[<<b, f[n]>>]
  <2>1. f \in [Nat -> Q] /\ \A v \in Nat \ {0} : f[v] = S[<<v, f[P[v]], f[P[v]]>>]
    BY <1>3 DEF Recursive
  <2> SUFFICES ASSUME NEW n \in Nat, NEW b \in Bits PROVE f[n + 1][b] = G[<<b, f[n]>>]
    BY <2>1
  <2>2. P[n + 1] = n /\ f[n] \in Q /\ n + 1 \in Nat \ {0}
    BY <2>1
  <2>3. f[n + 1] = S[<<n + 1, f[n], f[n]>>]
    BY <2>1, <2>2
  <2>4. f[n + 1] = [d \in Bits |-> G[<<d, f[n]>>]]
    <3> HIDE DEF S, P
    <3> QED
      BY <1>2, <2>2, <2>3
  <2> QED
    BY <2>4
<1>5. \A n \in Nat : f[n] \in [Bits -> D]
  BY <1>4 DEF Local
<1>6. \A b \in Bits : Len(b) \in Nat
  BY DEF Bits
<1> DEFINE Still(n) == \A b \in Bits : Len(b) < n => f[n + 1][b] = f[n][b]
           T == {n \in Nat : Still(n)}
<1>7. 0 \in T
  BY <1>6
<1>8. ASSUME NEW n \in Nat, n \in T PROVE n + 1 \in T
  <2> SUFFICES ASSUME NEW b \in Bits, Len(b) < n + 1 PROVE f[(n + 1) + 1][b] = f[n + 1][b]
    OBVIOUS
  <2>1. f[(n + 1) + 1][b] = G[<<b, f[n + 1]>>] /\ f[n + 1][b] = G[<<b, f[n]>>]
    BY <1>4
  <2>2. \A c \in Bits : Len(c) < Len(b) => f[n][c] = f[n + 1][c]
    BY <1>6, <1>8
  <2>3. f[n] \in Q /\ f[n + 1] \in [Bits -> D]
    BY <1>4, <1>5
  <2> QED
    BY <2>1, <2>2, <2>3 DEF Local
<1>9. Nat \subseteq T
  <2> HIDE DEF T
  <2> QED
    BY <1>7, <1>8, NatInduct
<1> DEFINE r == [b \in Bits |-> f[Len(b) + 1][b]]
<1>10. ASSUME NEW b \in Bits, NEW n \in Nat PROVE f[Len(b) + 1 + n][b] = r[b]
  <2> DEFINE U == {m \in Nat : f[Len(b) + 1 + m][b] = r[b]}
  <2>1. 0 \in U
    BY <1>6
  <2>2. ASSUME NEW m \in Nat, m \in U PROVE m + 1 \in U
    <3>1. PICK k \in Nat : k = Len(b) + 1 + m /\ Len(b) < k /\ k + 1 = Len(b) + 1 + (m + 1)
      BY <1>6
    <3>2. k \in T
      BY <1>9
    <3>3. f[k + 1][b] = f[k][b]
      BY <3>1, <3>2
    <3>4. f[k][b] = r[b]
      BY <2>2, <3>1
    <3> HIDE DEF r, T
    <3> QED
      BY <3>1, <3>3, <3>4
  <2>3. Nat \subseteq U
    <3> HIDE DEF U
    <3> QED
      BY <2>1, <2>2, NatInduct
  <2> QED
    BY <2>3
<1>11. r \in [Bits -> D]
  BY <1>5, <1>6
<1>12. ASSUME NEW b \in Bits PROVE r[b] = G[<<b, r>>]
  <2>1. PICK k \in Nat : k = Len(b)
    BY <1>6
  <2>2. r[b] = G[<<b, f[k]>>]
    BY <1>4, <2>1
  <2>3. ASSUME NEW c \in Bits, Len(c) < Len(b) PROVE f[k][c] = r[c]
    <3>1. PICK m \in Nat : k = Len(c) + 1 + m
      <4>1. k - (Len(c) + 1) \in Nat /\ k = Len(c) + 1 + (k - (Len(c) + 1))
        BY <1>6, <2>1, <2>3
      <4> QED
        BY <4>1
    <3> HIDE DEF r
    <3> QED
      BY <1>10, <3>1
  <2>4. f[k] \in Q
    BY <1>4
  <2> HIDE DEF r
  <2> QED
    BY <1>11, <2>2, <2>3, <2>4 DEF Local
<1>13. ASSUME NEW b \in Bits PROVE \E q \in Q : r[b] = q[b]
  BY <1>4, <1>6
<1> HIDE DEF r
<1> QED
  BY <1>11, <1>12, <1>13

-----------------------------------------------------------------------------
(* What is read. *)

\* What reading leaves of the bits is shorter than they are.
Less(rest, b) == Len(rest) <= Len(b) /\ (b # <<>> => Len(rest) < Len(b))
Short(V) == {q \in [Bits -> [value : V, rest : Bits]] : \A b \in Bits : Less(q[b].rest, b)}

\* The rest of bits, and of what is left of them.
LEMMA TailBits ==
  ASSUME NEW b \in Bits, b # <<>>
  PROVE  Tail(b) \in Bits /\ Len(Tail(b)) = Len(b) - 1 /\ Len(b) \in Nat \ {0} /\ b[1] \in {0, 1}
BY DEF Bits

\* Reading nothing leaves nothing.
LEMMA ShortEmpty ==
  ASSUME NEW V, NEW x \in V
  PROVE  [b \in Bits |-> [value |-> x, rest |-> <<>>]] \in Short(V)
<1>1. <<>> \in Bits /\ Len(<<>>) = 0
  BY DEF Bits
<1>2. \A b \in Bits : Less(<<>>, b)
  BY <1>1 DEF Less, Bits
<1> QED
  BY <1>1, <1>2 DEF Short

\* One step of read, with q for the reading of what is left.
ReadStep(b, q) ==
  IF b = <<>> \/ b[1] = 0
  THEN [value |-> 0, rest |-> IF b = <<>> THEN <<>> ELSE Tail(b)]
  ELSE LET power == q[Tail(b)]
           remainder == q[power.rest]
       IN [value |-> Exp2[power.value] + remainder.value, rest |-> remainder.rest]

\* It reads a number and leaves less than there was.
LEMMA ReadStepShort ==
  ASSUME NEW b \in Bits, NEW q \in Short(Nat)
  PROVE  ReadStep(b, q) \in [value : Nat, rest : Bits] /\ Less(ReadStep(b, q).rest, b)
<1>1. CASE b = <<>>
  <2>1. ReadStep(b, q) = [value |-> 0, rest |-> <<>>]
    BY <1>1 DEF ReadStep
  <2>2. <<>> \in Bits /\ Len(<<>>) = 0
    BY DEF Bits
  <2>3. Less(<<>>, b)
    BY <1>1, <2>2 DEF Less
  <2> QED
    BY <2>1, <2>2, <2>3
<1>2. CASE b # <<>> /\ b[1] = 0
  <2>1. ReadStep(b, q) = [value |-> 0, rest |-> Tail(b)]
    BY <1>2 DEF ReadStep
  <2> QED
    BY <1>2, <2>1, TailBits DEF Less
<1>3. CASE b # <<>> /\ b[1] # 0
  <2>1. PICK p : p = q[Tail(b)]
    OBVIOUS
  <2>2. p \in [value : Nat, rest : Bits] /\ Less(p.rest, Tail(b)) /\ p.rest \in Bits /\ p.value \in Nat
    BY <1>3, <2>1, TailBits DEF Short
  <2>3. PICK m : m = q[p.rest]
    OBVIOUS
  <2>4. m \in [value : Nat, rest : Bits] /\ Less(m.rest, p.rest) /\ m.rest \in Bits /\ m.value \in Nat
    BY <2>2, <2>3 DEF Short
  <2>5. ReadStep(b, q) = [value |-> Exp2[p.value] + m.value, rest |-> m.rest]
    BY <1>3, <2>1, <2>3 DEF ReadStep
  <2>6. Exp2[p.value] \in Nat
    BY <2>2, Exp2On
  <2>7. Less(m.rest, b)
    <3>1. Len(b) \in Nat \ {0} /\ Len(Tail(b)) = Len(b) - 1
      BY <1>3, TailBits
    <3>2. Len(p.rest) <= Len(b) - 1 /\ Len(m.rest) <= Len(p.rest)
      BY <2>2, <2>4, <3>1 DEF Less
    <3>3. Len(p.rest) \in Nat /\ Len(m.rest) \in Nat
      BY <2>2, <2>4 DEF Bits
    <3> QED
      BY <3>1, <3>2, <3>3 DEF Less
  <2> QED
    BY <2>4, <2>5, <2>6, <2>7
<1> QED
  BY <1>1, <1>2, <1>3

\* What it reads depends on shorter sequences only.
LEMMA ReadStepLocal ==
  ASSUME NEW b \in Bits, NEW q \in Short(Nat), NEW r,
         \A c \in Bits : Len(c) < Len(b) => q[c] = r[c]
  PROVE  ReadStep(b, q) = ReadStep(b, r)
<1>1. CASE b = <<>> \/ b[1] = 0
  BY <1>1 DEF ReadStep
<1>2. CASE b # <<>> /\ b[1] # 0
  <2>1. Tail(b) \in Bits /\ Len(Tail(b)) < Len(b)
    BY <1>2, TailBits
  <2>2. PICK p : p = q[Tail(b)]
    OBVIOUS
  <2>3. p.rest \in Bits /\ Len(p.rest) < Len(b)
    <3>1. p.rest \in Bits /\ Len(p.rest) <= Len(Tail(b))
      BY <2>1, <2>2 DEF Short, Less
    <3>2. Len(p.rest) \in Nat /\ Len(Tail(b)) \in Nat /\ Len(b) \in Nat
      BY <2>1, <3>1 DEF Bits
    <3> QED
      BY <2>1, <3>1, <3>2
  <2>4. p = r[Tail(b)] /\ q[p.rest] = r[p.rest]
    BY <2>1, <2>2, <2>3
  <2> QED
    BY <1>2, <2>2, <2>4 DEF ReadStep
<1> QED
  BY <1>1, <1>2

\* The equation of Read, and what it reads and leaves.
LEMMA ReadOn ==
  ASSUME NEW b \in Bits
  PROVE  /\ b = <<>> \/ b[1] = 0 => Read[b] = [value |-> 0, rest |-> IF b = <<>> THEN <<>> ELSE Tail(b)]
         /\ b # <<>> /\ b[1] # 0 =>
              \E p, m : /\ p = Read[Tail(b)] /\ m = Read[p.rest]
                        /\ Read[b] = [value |-> Exp2[p.value] + m.value, rest |-> m.rest]
         /\ Read[b] \in [value : Nat, rest : Bits] /\ Less(Read[b].rest, b)
<1> DEFINE G == [t \in Bits \X [Bits -> [value : Nat, rest : Bits]] |-> ReadStep(t[1], t[2])]
           q0 == [d \in Bits |-> [value |-> 0, rest |-> <<>>]]
           D == [value : Nat, rest : Bits]
<1>1. \A d \in Bits, q \in [Bits -> D] : G[<<d, q>>] = ReadStep(d, q)
  OBVIOUS
<1>2. Short(Nat) \subseteq [Bits -> D]
  BY DEF Short
<1>3. Local(D, Short(Nat), G)
  <2> HIDE DEF G
  <2>1. ASSUME NEW q \in Short(Nat) PROVE [d \in Bits |-> G[<<d, q>>]] \in Short(Nat)
    <3>1. [d \in Bits |-> G[<<d, q>>]] = [d \in Bits |-> ReadStep(d, q)]
      BY <1>1, <1>2
    <3>2. \A d \in Bits : ReadStep(d, q) \in D /\ Less(ReadStep(d, q).rest, d)
      BY ReadStepShort
    <3>3. [d \in Bits |-> ReadStep(d, q)] \in Short(Nat)
      BY <3>2 DEF Short
    <3> QED
      BY <3>1, <3>3
  <2>2. ASSUME NEW d \in Bits, NEW q \in Short(Nat), NEW r \in [Bits -> D],
               \A c \in Bits : Len(c) < Len(d) => q[c] = r[c]
        PROVE  G[<<d, q>>] = G[<<d, r>>]
    <3>1. ReadStep(d, q) = ReadStep(d, r)
      BY <2>2, ReadStepLocal
    <3> QED
      BY <1>1, <1>2, <3>1
  <2> QED
    BY <1>2, <2>1, <2>2 DEF Local
<1>4. PICK r \in [Bits -> D] : /\ \A d \in Bits : r[d] = G[<<d, r>>]
                               /\ \A d \in Bits : \E q \in Short(Nat) : r[d] = q[d]
  <2>1. q0 \in Short(Nat)
    BY ShortEmpty
  <2> HIDE DEF G, q0, D
  <2> QED
    BY <1>3, <2>1, BitsRecursion
<1>5. r = [d \in Seq({0, 1}) |->
             IF d = <<>> \/ d[1] = 0
             THEN [value |-> 0, rest |-> IF d = <<>> THEN <<>> ELSE Tail(d)]
             ELSE LET power == r[Tail(d)]
                      remainder == r[power.rest]
                  IN [value |-> Exp2[power.value] + remainder.value, rest |-> remainder.rest]]
  <2>1. \A d \in Bits : r[d] = ReadStep(d, r)
    <3> HIDE DEF G
    <3> QED
      BY <1>1, <1>4
  <2>2. r = [d \in Bits |-> ReadStep(d, r)]
    BY <2>1
  <2> QED
    BY <2>2, Zenon DEF ReadStep, Bits
<1> DEFINE R == CHOOSE R : R = [d \in Seq({0, 1}) |->
             IF d = <<>> \/ d[1] = 0
             THEN [value |-> 0, rest |-> IF d = <<>> THEN <<>> ELSE Tail(d)]
             ELSE LET power == R[Tail(d)]
                      remainder == R[power.rest]
                  IN [value |-> Exp2[power.value] + remainder.value, rest |-> remainder.rest]]
<1>6. R = [d \in Bits |-> ReadStep(d, R)]
  <2>1. R = [d \in Seq({0, 1}) |->
             IF d = <<>> \/ d[1] = 0
             THEN [value |-> 0, rest |-> IF d = <<>> THEN <<>> ELSE Tail(d)]
             ELSE LET power == R[Tail(d)]
                      remainder == R[power.rest]
                  IN [value |-> Exp2[power.value] + remainder.value, rest |-> remainder.rest]]
    BY <1>5, Zenon
  <2> HIDE DEF R
  <2> QED
    BY <2>1, Zenon DEF ReadStep, Bits
<1>7. Read = R
  BY DEF Read
<1> HIDE DEF R
<1>8. \A d \in Bits : Read[d] = ReadStep(d, R) /\ r[d] = ReadStep(d, r)
  <2>1. \A d \in Bits : R[d] = ReadStep(d, R)
    BY <1>6, Zenon
  <2>2. \A d \in Bits : r[d] = ReadStep(d, r)
    <3> HIDE DEF G
    <3> QED
      BY <1>1, <1>4
  <2> QED
    BY <1>7, <2>1, <2>2
<1>9. r \in Short(Nat)
  BY <1>4 DEF Short
<1>10. \A d \in Bits : R[d] = r[d]
  <2> DEFINE T == {n \in Nat : \A d \in Bits : Len(d) = n => R[d] = r[d]}
  <2>1. ASSUME NEW n \in Nat, \A k \in 0 .. n - 1 : k \in T PROVE n \in T
    <3> SUFFICES ASSUME NEW d \in Bits, Len(d) = n PROVE R[d] = r[d]
      OBVIOUS
    <3>1. \A c \in Bits : Len(c) < Len(d) => r[c] = R[c]
      <4>1. \A c \in Bits : Len(c) \in Nat
        BY DEF Bits
      <4> QED
        BY <2>1, <4>1
    <3>2. ReadStep(d, r) = ReadStep(d, R)
      BY <1>9, <3>1, ReadStepLocal
    <3> QED
      BY <1>7, <1>8, <3>2
  <2>2. Nat \subseteq T
    <3> HIDE DEF T
    <3> QED
      BY <2>1, StrongInduct
  <2>3. \A d \in Bits : Len(d) \in Nat
    BY DEF Bits
  <2> QED
    BY <2>2, <2>3
<1>11. Read[b] \in [value : Nat, rest : Bits] /\ Less(Read[b].rest, b)
  BY <1>7, <1>9, <1>10 DEF Short
<1>12. ASSUME b # <<>>, b[1] # 0
       PROVE  \E p, m : /\ p = Read[Tail(b)] /\ m = Read[p.rest]
                        /\ Read[b] = [value |-> Exp2[p.value] + m.value, rest |-> m.rest]
  <2>1. PICK p, m : p = R[Tail(b)] /\ m = R[p.rest]
    OBVIOUS
  <2>2. Read[b] = [value |-> Exp2[p.value] + m.value, rest |-> m.rest]
    BY <1>8, <1>12, <2>1 DEF ReadStep
  <2> QED
    BY <1>7, <2>1, <2>2
<1>13. b = <<>> \/ b[1] = 0 => Read[b] = [value |-> 0, rest |-> IF b = <<>> THEN <<>> ELSE Tail(b)]
  BY <1>8 DEF ReadStep
<1> QED
  BY <1>11, <1>12, <1>13

\* Joining is associative, and the first bit of what a one begins is that one.
LEMMA JoinBits ==
  ASSUME NEW a \in Bits, NEW b \in Bits
  PROVE  /\ \A c \in Bits : (a \o b) \o c = a \o (b \o c)
         /\ \A d \in {0, 1} : <<d>> \o a # <<>> /\ (<<d>> \o a)[1] = d /\ Tail(<<d>> \o a) = a
<1>1. \A c \in Bits : (a \o b) \o c = a \o (b \o c)
  BY DEF Bits
<1>2. ASSUME NEW d \in {0, 1} PROVE <<d>> \o a # <<>> /\ (<<d>> \o a)[1] = d /\ Tail(<<d>> \o a) = a
  <2>1. PICK e : e = <<d>> \o a
    OBVIOUS
  <2>2. /\ e \in Seq({0, 1}) /\ Len(e) = 1 + Len(a) /\ Len(a) \in Nat
        /\ e[1] = d /\ \A i \in 1 .. Len(a) : e[i + 1] = a[i]
    BY <2>1 DEF Bits
  <2>3. Tail(e) = a
    <3>1. Tail(e) \in Seq({0, 1}) /\ Len(Tail(e)) = Len(a) /\ \A i \in 1 .. Len(a) : Tail(e)[i] = e[i + 1]
      BY <2>2
    <3> QED
      BY <2>2, <3>1 DEF Bits
  <2> QED
    BY <2>1, <2>2, <2>3
<1> QED
  BY <1>1, <1>2

\* read gives back what write has written, and leaves what comes after it.
LEMMA ReadWritten ==
  \A v \in Nat : \A s \in Bits : Read[Write[v] \o s] = [value |-> v, rest |-> s]
<1> DEFINE T == {v \in Nat : \A s \in Bits : Read[Write[v] \o s] = [value |-> v, rest |-> s]}
<1>1. ASSUME NEW v \in Nat, \A u \in 0 .. v - 1 : u \in T PROVE v \in T
  <2> SUFFICES ASSUME NEW s \in Bits PROVE Read[Write[v] \o s] = [value |-> v, rest |-> s]
    OBVIOUS
  <2>1. CASE v = 0
    <3>1. PICK b : b = <<0>> \o s
      OBVIOUS
    <3>2. b \in Bits /\ b # <<>> /\ b[1] = 0 /\ Tail(b) = s
      BY <3>1, JoinBits, BitsJoin
    <3>3. Read[b] = [value |-> 0, rest |-> s]
      BY <3>2, ReadOn
    <3> QED
      BY <2>1, <3>1, <3>3, WriteOn
  <2>2. CASE v # 0
    <3>1. PICK p, q : p = Power(v) /\ q = Remainder(v, Power(v))
      OBVIOUS
    <3>2. p \in 0 .. v - 1 /\ q \in 0 .. v - 1 /\ v = Exp2[p] + q
      BY <2>2, <3>1, PowerRemainder
    <3>3. p \in T /\ q \in T
      BY <1>1, <3>2
    <3>4. PICK x, y : x = Write[p] /\ y = Write[q]
      OBVIOUS
    <3>5. x \in Bits /\ y \in Bits /\ <<1>> \in Bits /\ Write[v] = <<1>> \o x \o y
      <4>1. p \in Nat /\ q \in Nat /\ v \in Nat \ {0}
        BY <2>2, <3>2
      <4> QED
        BY <3>1, <3>4, <4>1, WriteOn, BitsJoin
    <3>6. PICK e, d, b : e = y \o s /\ d = x \o e /\ b = <<1>> \o d
      OBVIOUS
    <3>7. e \in Bits /\ d \in Bits /\ b \in Bits /\ b # <<>> /\ b[1] = 1 /\ Tail(b) = d
      BY <3>5, <3>6, BitsJoin, JoinBits
    <3>8. Write[v] \o s = b
      <4>1. PICK w : w = <<1>> \o x
        OBVIOUS
      <4>2. w \in Bits
        BY <3>5, <4>1, BitsJoin
      <4>3. \A c \in Bits : (w \o y) \o c = w \o (y \o c)
        BY <3>5, <4>2, JoinBits
      <4>4. \A c \in Bits : (<<1>> \o x) \o c = <<1>> \o (x \o c)
        BY <3>5, JoinBits
      <4>5. s \in Bits /\ (w \o y) \o s = w \o e
        BY <3>6, <4>3
      <4>6. w \o e = b
        BY <3>6, <3>7, <4>1, <4>4
      <4> QED
        BY <3>5, <4>1, <4>5, <4>6
    <3>9. Read[d] = [value |-> p, rest |-> e] /\ Read[e] = [value |-> q, rest |-> s]
      BY <3>3, <3>4, <3>6, <3>7
    <3>10. PICK r, m : /\ r = Read[Tail(b)] /\ m = Read[r.rest]
                       /\ Read[b] = [value |-> Exp2[r.value] + m.value, rest |-> m.rest]
      <4>1. b \in Bits /\ b # <<>> /\ b[1] # 0
        BY <3>7
      <4>2. \E r, m : /\ r = Read[Tail(b)] /\ m = Read[r.rest]
                      /\ Read[b] = [value |-> Exp2[r.value] + m.value, rest |-> m.rest]
        BY <4>1, ReadOn
      <4> QED
        BY <4>2
    <3>11. r = [value |-> p, rest |-> e]
      BY <3>7, <3>9, <3>10
    <3>12. m = [value |-> q, rest |-> s]
      BY <3>9, <3>10, <3>11
    <3>13. Read[b] = [value |-> v, rest |-> s]
      BY <3>2, <3>10, <3>11, <3>12
    <3> QED
      BY <3>8, <3>13
  <2> QED
    BY <2>1, <2>2
<1>2. Nat \subseteq T
  <2> HIDE DEF T
  <2> QED
    BY <1>1, StrongInduct
<1> QED
  BY <1>2

\* A number or a character read with >> is the one written with <<, whatever is
\* written behind it (encoding.h, power-encoding-base.h).
THEOREM NumberReadBack ==
  \A v \in Nat : \A s \in Seq({0, 1}) : Decode(Encode(v) \o s) = [value |-> v, rest |-> s]
<1> SUFFICES ASSUME NEW v \in Nat, NEW s \in Seq({0, 1})
             PROVE  Decode(Encode(v) \o s) = [value |-> v, rest |-> s]
  OBVIOUS
<1>1. PICK w : w = Write[v]
  OBVIOUS
<1>2. w \in Bits /\ s \in Bits /\ <<1>> \in Bits /\ w \o s \in Bits
  BY <1>1, WriteOn, BitsJoin DEF Bits
<1>3. (<<1>> \o w) \o s = <<1>> \o (w \o s) /\ Tail(<<1>> \o (w \o s)) = w \o s
  BY <1>2, JoinBits
<1>4. Read[w \o s] = [value |-> v, rest |-> s]
  BY <1>1, <1>2, ReadWritten
<1> QED
  BY <1>1, <1>3, <1>4 DEF Decode, Encode

\* One step of reading a string, with q for the reading of what is left.
StringStep(b, q) ==
  IF b = <<>> \/ b[1] = 0
  THEN [value |-> <<>>, rest |-> IF b = <<>> THEN <<>> ELSE Tail(b)]
  ELSE LET one == Decode(b)
           more == q[one.rest]
       IN [value |-> <<one.value>> \o more.value, rest |-> more.rest]

\* It reads characters and leaves less than there was.
LEMMA StringStepShort ==
  ASSUME NEW b \in Bits, NEW q \in Short(Seq(Nat))
  PROVE  StringStep(b, q) \in [value : Seq(Nat), rest : Bits] /\ Less(StringStep(b, q).rest, b)
<1>1. CASE b = <<>>
  <2>1. StringStep(b, q) = [value |-> <<>>, rest |-> <<>>]
    BY <1>1 DEF StringStep
  <2>2. <<>> \in Bits /\ Len(<<>>) = 0 /\ <<>> \in Seq(Nat)
    BY DEF Bits
  <2>3. Less(<<>>, b)
    BY <1>1, <2>2 DEF Less
  <2> QED
    BY <2>1, <2>2, <2>3
<1>2. CASE b # <<>> /\ b[1] = 0
  <2>1. StringStep(b, q) = [value |-> <<>>, rest |-> Tail(b)]
    BY <1>2 DEF StringStep
  <2>2. <<>> \in Seq(Nat)
    OBVIOUS
  <2> QED
    BY <1>2, <2>1, <2>2, TailBits DEF Less
<1>3. CASE b # <<>> /\ b[1] # 0
  <2>1. PICK p : p = Read[Tail(b)]
    OBVIOUS
  <2>2. p \in [value : Nat, rest : Bits] /\ Less(p.rest, Tail(b)) /\ p.rest \in Bits /\ p.value \in Nat
    BY <1>3, <2>1, TailBits, ReadOn
  <2>3. PICK m : m = q[p.rest]
    OBVIOUS
  <2>4. m \in [value : Seq(Nat), rest : Bits] /\ Less(m.rest, p.rest) /\ m.rest \in Bits /\ m.value \in Seq(Nat)
    BY <2>2, <2>3 DEF Short
  <2>5. StringStep(b, q) = [value |-> <<p.value>> \o m.value, rest |-> m.rest]
    BY <1>3, <2>1, <2>3 DEF StringStep, Decode
  <2>6. <<p.value>> \o m.value \in Seq(Nat)
    BY <2>2, <2>4
  <2>7. Less(m.rest, b)
    <3>1. Len(b) \in Nat \ {0} /\ Len(Tail(b)) = Len(b) - 1
      BY <1>3, TailBits
    <3>2. Len(p.rest) <= Len(b) - 1 /\ Len(m.rest) <= Len(p.rest)
      BY <2>2, <2>4, <3>1 DEF Less
    <3>3. Len(p.rest) \in Nat /\ Len(m.rest) \in Nat
      BY <2>2, <2>4 DEF Bits
    <3> QED
      BY <3>1, <3>2, <3>3 DEF Less
  <2> QED
    BY <2>4, <2>5, <2>6, <2>7
<1> QED
  BY <1>1, <1>2, <1>3

\* What it reads depends on shorter sequences only.
LEMMA StringStepLocal ==
  ASSUME NEW b \in Bits, NEW q, NEW r, \A c \in Bits : Len(c) < Len(b) => q[c] = r[c]
  PROVE  StringStep(b, q) = StringStep(b, r)
<1>1. CASE b = <<>> \/ b[1] = 0
  BY <1>1 DEF StringStep
<1>2. CASE b # <<>> /\ b[1] # 0
  <2>1. Tail(b) \in Bits /\ Len(Tail(b)) < Len(b)
    BY <1>2, TailBits
  <2>2. PICK p : p = Read[Tail(b)]
    OBVIOUS
  <2>3. p.rest \in Bits /\ Len(p.rest) < Len(b)
    <3>1. p.rest \in Bits /\ Len(p.rest) <= Len(Tail(b))
      BY <2>1, <2>2, ReadOn DEF Less
    <3>2. Len(p.rest) \in Nat /\ Len(Tail(b)) \in Nat /\ Len(b) \in Nat
      BY <2>1, <3>1 DEF Bits
    <3> QED
      BY <2>1, <3>1, <3>2
  <2>4. q[p.rest] = r[p.rest]
    BY <2>3
  <2> QED
    BY <1>2, <2>2, <2>4 DEF StringStep, Decode
<1> QED
  BY <1>1, <1>2

\* The equation of Characters.
LEMMA CharactersOn == \A b \in Bits : Characters[b] = StringStep(b, Characters)
<1> DEFINE D == [value : Seq(Nat), rest : Bits]
           G == [t \in Bits \X [Bits -> [value : Seq(Nat), rest : Bits]] |-> StringStep(t[1], t[2])]
           q0 == [d \in Bits |-> [value |-> <<>>, rest |-> <<>>]]
<1>1. \A d \in Bits, q \in [Bits -> D] : G[<<d, q>>] = StringStep(d, q)
  OBVIOUS
<1>2. Short(Seq(Nat)) \subseteq [Bits -> D]
  BY DEF Short
<1>3. Local(D, Short(Seq(Nat)), G)
  <2> HIDE DEF G
  <2>1. ASSUME NEW q \in Short(Seq(Nat)) PROVE [d \in Bits |-> G[<<d, q>>]] \in Short(Seq(Nat))
    <3>1. [d \in Bits |-> G[<<d, q>>]] = [d \in Bits |-> StringStep(d, q)]
      BY <1>1, <1>2
    <3>2. \A d \in Bits : StringStep(d, q) \in D /\ Less(StringStep(d, q).rest, d)
      BY StringStepShort
    <3>3. [d \in Bits |-> StringStep(d, q)] \in Short(Seq(Nat))
      BY <3>2 DEF Short
    <3> QED
      BY <3>1, <3>3
  <2>2. ASSUME NEW d \in Bits, NEW q \in Short(Seq(Nat)), NEW r \in [Bits -> D],
               \A c \in Bits : Len(c) < Len(d) => q[c] = r[c]
        PROVE  G[<<d, q>>] = G[<<d, r>>]
    <3>1. StringStep(d, q) = StringStep(d, r)
      BY <2>2, StringStepLocal
    <3> QED
      BY <1>1, <1>2, <3>1
  <2> QED
    BY <1>2, <2>1, <2>2 DEF Local
<1>4. PICK r \in [Bits -> D] : \A d \in Bits : r[d] = G[<<d, r>>]
  <2>1. q0 \in Short(Seq(Nat))
    <3>1. <<>> \in Seq(Nat)
      OBVIOUS
    <3> QED
      BY <3>1, ShortEmpty
  <2> HIDE DEF G, q0, D
  <2> QED
    BY <1>3, <2>1, BitsRecursion
<1>5. r = [in \in Seq({0, 1}) |->
             IF in = <<>> \/ in[1] = 0
             THEN [value |-> <<>>, rest |-> IF in = <<>> THEN <<>> ELSE Tail(in)]
             ELSE LET one == Decode(in)
                      more == r[one.rest]
                  IN [value |-> <<one.value>> \o more.value, rest |-> more.rest]]
  <2>1. \A d \in Bits : r[d] = StringStep(d, r)
    <3> HIDE DEF G
    <3> QED
      BY <1>1, <1>4
  <2>2. r = [d \in Bits |-> StringStep(d, r)]
    BY <2>1
  <2> QED
    BY <2>2, Zenon DEF StringStep, Bits
<1> DEFINE R == CHOOSE R : R = [in \in Seq({0, 1}) |->
             IF in = <<>> \/ in[1] = 0
             THEN [value |-> <<>>, rest |-> IF in = <<>> THEN <<>> ELSE Tail(in)]
             ELSE LET one == Decode(in)
                      more == R[one.rest]
                  IN [value |-> <<one.value>> \o more.value, rest |-> more.rest]]
<1>6. R = [in \in Bits |-> StringStep(in, R)]
  <2>1. R = [in \in Seq({0, 1}) |->
             IF in = <<>> \/ in[1] = 0
             THEN [value |-> <<>>, rest |-> IF in = <<>> THEN <<>> ELSE Tail(in)]
             ELSE LET one == Decode(in)
                      more == R[one.rest]
                  IN [value |-> <<one.value>> \o more.value, rest |-> more.rest]]
    BY <1>5, Zenon
  <2> HIDE DEF R
  <2> QED
    BY <2>1, Zenon DEF StringStep, Bits
<1>7. Characters = R
  BY DEF Characters
<1> HIDE DEF R
<1>8. \A d \in Bits : R[d] = StringStep(d, R)
  BY <1>6, Zenon
<1> QED
  BY <1>7, <1>8

\* The first characters of a string, joined with one more.
LEMMA FirstAndNext ==
  ASSUME NEW t \in Seq(Nat), NEW i \in 1 .. Len(t), NEW v \in Seq(Nat)
  PROVE  /\ i = 1 => SubSeq(t, 1, i) \o v = <<t[i]>> \o v
         /\ i # 1 => SubSeq(t, 1, i - 1) \o (<<t[i]>> \o v) = SubSeq(t, 1, i) \o v
<1>1. Len(t) \in Nat /\ i \in Nat \ {0} /\ i <= Len(t) /\ t[i] \in Nat
  OBVIOUS
<1>2. i # 1 => SubSeq(t, 1, i - 1) \o <<t[i]>> = SubSeq(t, 1, i)
  BY <1>1
<1>3. ASSUME i = 1 PROVE SubSeq(t, 1, i) = <<t[i]>>
  <2>1. PICK x : x = SubSeq(t, 1, i)
    OBVIOUS
  <2>2. x \in Seq(Nat) /\ Len(x) = 1 /\ x[1] = t[i]
    BY <1>1, <1>3, <2>1
  <2>3. x = <<x[1]>>
    BY <2>2
  <2> QED
    BY <2>1, <2>2, <2>3
<1>4. PICK a, b : a = SubSeq(t, 1, i - 1) /\ b = <<t[i]>>
  OBVIOUS
<1>5. a \in Seq(Nat) /\ b \in Seq(Nat)
  BY <1>1, <1>4
<1>6. (a \o b) \o v = a \o (b \o v)
  BY <1>5, SMTT(20)
<1> QED
  BY <1>2, <1>3, <1>4, <1>6

\* A string read with >> is the one written with <<, whatever is written behind
\* it: the zero after the last character is read as the end (encoding.h).
THEOREM StringReadBack ==
  \A t \in Seq(Nat) : \A s \in Seq({0, 1}) : DecodeString(EncodeString(t) \o s) = [value |-> t, rest |-> s]
<1> SUFFICES ASSUME NEW t \in Seq(Nat), NEW s \in Seq({0, 1})
             PROVE  DecodeString(EncodeString(t) \o s) = [value |-> t, rest |-> s]
  OBVIOUS
<1>1. PICK r : /\ \A b : DecodeString(b) = r[Tail(b)]
               /\ \A b \in Bits : r[b] = StringStep(b, r)
  <2>1. \A b : DecodeString(b) = Characters[Tail(b)]
    BY DEF DecodeString
  <2> QED
    BY <2>1, CharactersOn
<1>2. PICK n \in Nat : n = Len(t)
  OBVIOUS
<1>3. PICK c : c = [i \in DOMAIN t |-> Encode(t[i])]
  OBVIOUS
<1>4. /\ c \in [1 .. n -> Bits]
      /\ \A i \in 1 .. n : t[i] \in Nat /\ c[i] = Encode(t[i]) /\ c[i] \in Bits
  <2>1. \A i \in 1 .. n : t[i] \in Nat /\ c[i] = Encode(t[i])
    BY <1>2, <1>3
  <2>2. \A i \in 1 .. n : c[i] \in Bits
    BY <2>1, EncodeItem DEF Item
  <2>3. c = [i \in 1 .. n |-> c[i]]
    BY <1>2, <1>3
  <2> QED
    BY <2>1, <2>2, <2>3
<1>5. ASSUME NEW i \in 1 .. n, NEW u \in Bits
      PROVE  r[c[i] \o u] = [value |-> <<t[i]>> \o r[u].value, rest |-> r[u].rest]
  <2>1. PICK w, b : w = Write[t[i]] /\ b = c[i] \o u
    OBVIOUS
  <2>2. w \in Bits /\ c[i] = <<1>> \o w /\ <<1>> \in Bits
    BY <1>4, <2>1, WriteOn, BitsJoin DEF Encode
  <2>3. b = <<1>> \o (w \o u) /\ w \o u \in Bits
    <3>1. \A d \in Bits : (<<1>> \o w) \o d = <<1>> \o (w \o d)
      BY <2>2, JoinBits
    <3>2. (<<1>> \o w) \o u = <<1>> \o (w \o u)
      BY <3>1
    <3> QED
      BY <2>1, <2>2, <3>2, BitsJoin
  <2>4. b \in Bits /\ b # <<>> /\ b[1] = 1
    BY <2>2, <2>3, JoinBits, BitsJoin
  <2>5. Decode(b) = [value |-> t[i], rest |-> u]
    BY <1>4, <2>1, NumberReadBack DEF Bits
  <2>6. r[b] = StringStep(b, r)
    BY <1>1, <2>4
  <2> QED
    BY <2>1, <2>4, <2>5, <2>6 DEF StringStep
<1>6. PICK e : e = <<0>> \o s
  OBVIOUS
<1>7. e \in Bits /\ e # <<>> /\ e[1] = 0 /\ Tail(e) = s /\ <<0>> \in Bits /\ s \in Bits
  <2>1. s \in Bits
    BY DEF Bits
  <2> QED
    BY <1>6, <2>1, JoinBits, BitsJoin
<1>8. r[e] = [value |-> <<>>, rest |-> s]
  <2>1. r[e] = StringStep(e, r)
    BY <1>1, <1>7
  <2> QED
    BY <1>7, <2>1 DEF StringStep
<1>9. PICK f : f = FlattenSeq(c)
  OBVIOUS
<1>10. f \in Bits /\ r[f \o e] = [value |-> t, rest |-> s]
  <2>1. CASE n = 0
    <3>1. t = <<>>
      <4>1. t \in Seq(Nat) /\ Len(t) = 0
        BY <1>2, <2>1
      <4> QED
        BY <4>1
    <3>2. c = <<>>
      <4>1. c \in Seq(Bits) /\ Len(c) = 0
        BY <1>4, <2>1
      <4> QED
        BY <4>1
    <3>3. f = <<>>
      BY <1>9, <3>2 DEF FlattenSeq
    <3>4. f \in Bits /\ f \o e = e
      BY <1>7, <3>3 DEF Bits
    <3> QED
      BY <1>8, <3>1, <3>4
  <2>2. CASE n # 0
    <3>1. n \in Nat \ {0}
      BY <2>2
    <3>2. PICK g : /\ FlattenSeq(c) = g[n]
                   /\ \A i \in 1 .. n : g[i] \in Bits /\ g[i] = IF i = 1 THEN c[i] ELSE g[i - 1] \o c[i]
      BY <1>4, <3>1, FlattenOn
    <3> DEFINE Reads(i) == \A u \in Bits : r[u].value \in Seq(Nat) =>
                 r[g[i] \o u] = [value |-> SubSeq(t, 1, i) \o r[u].value, rest |-> r[u].rest]
               T == {i \in Nat : i + 1 <= n => Reads(i + 1)}
    <3>3. 0 \in T
      <4> SUFFICES ASSUME NEW u \in Bits, r[u].value \in Seq(Nat)
                   PROVE  r[g[1] \o u] = [value |-> SubSeq(t, 1, 1) \o r[u].value, rest |-> r[u].rest]
        OBVIOUS
      <4>1. 1 \in 1 .. n /\ 1 \in 1 .. Len(t)
        BY <1>2, <2>2
      <4>2. g[1] = c[1]
        BY <3>2, <4>1
      <4>3. r[c[1] \o u] = [value |-> <<t[1]>> \o r[u].value, rest |-> r[u].rest]
        BY <1>5, <4>1
      <4>4. SubSeq(t, 1, 1) \o r[u].value = <<t[1]>> \o r[u].value
        BY <4>1, FirstAndNext
      <4> QED
        BY <4>2, <4>3, <4>4
    <3> HIDE DEF Reads
    <3>4. ASSUME NEW i \in Nat, i \in T PROVE i + 1 \in T
      <4> SUFFICES ASSUME (i + 1) + 1 <= n PROVE Reads((i + 1) + 1)
        OBVIOUS
      <4>1. PICK j \in 1 .. n : j = (i + 1) + 1 /\ j # 1 /\ j - 1 = i + 1 /\ j - 1 \in 1 .. n
        OBVIOUS
      <4>2. Reads(i + 1)
        BY <3>4
      <4>3. ASSUME NEW u \in Bits, r[u].value \in Seq(Nat)
            PROVE  r[g[j] \o u] = [value |-> SubSeq(t, 1, j) \o r[u].value, rest |-> r[u].rest]
        <5>1. PICK a, d, v : a = g[j - 1] /\ d = c[j] \o u /\ v = r[u].value
          OBVIOUS
        <5>2. a \in Bits /\ c[j] \in Bits /\ d \in Bits /\ g[j] = a \o c[j]
          BY <1>4, <3>2, <4>1, <5>1, BitsJoin
        <5>3. g[j] \o u = a \o d
          <6>1. \A b \in Bits : (a \o c[j]) \o b = a \o (c[j] \o b)
            BY <5>2, JoinBits
          <6> QED
            BY <5>1, <5>2, <6>1
        <5>4. r[d] = [value |-> <<t[j]>> \o v, rest |-> r[u].rest]
          BY <1>5, <5>1
        <5>5. t[j] \in Nat /\ v \in Seq(Nat) /\ <<t[j]>> \o v \in Seq(Nat)
          BY <1>4, <4>3, <5>1
        <5>6. r[a \o d] = [value |-> SubSeq(t, 1, j - 1) \o (<<t[j]>> \o v), rest |-> r[u].rest]
          <6>1. r[d].value = <<t[j]>> \o v /\ r[d].rest = r[u].rest /\ r[d].value \in Seq(Nat)
            BY <5>4, <5>5
          <6>2. r[g[i + 1] \o d] = [value |-> SubSeq(t, 1, i + 1) \o r[d].value, rest |-> r[d].rest]
            BY <4>2, <5>2, <6>1 DEF Reads
          <6> QED
            BY <4>1, <5>1, <6>1, <6>2
        <5>7. SubSeq(t, 1, j - 1) \o (<<t[j]>> \o v) = SubSeq(t, 1, j) \o v
          BY <1>2, <4>1, <5>5, FirstAndNext
        <5> QED
          BY <5>1, <5>3, <5>6, <5>7
      <4> QED
        BY <4>1, <4>3 DEF Reads
    <3>5. Nat \subseteq T
      <4> HIDE DEF T
      <4> QED
        BY <3>3, <3>4, NatInduct
    <3>6. Reads(n)
      <4>1. n - 1 \in Nat /\ (n - 1) + 1 = n
        BY <3>1
      <4>2. n - 1 \in T
        BY <3>5, <4>1
      <4> QED
        BY <4>1, <4>2
    <3>7. r[e].value = <<>> /\ r[e].rest = s /\ <<>> \in Seq(Nat)
      BY <1>8
    <3>8. r[g[n] \o e] = [value |-> SubSeq(t, 1, n) \o <<>>, rest |-> s]
      BY <1>7, <3>6, <3>7 DEF Reads
    <3>9. SubSeq(t, 1, n) \o <<>> = t
      BY <1>2
    <3>10. n \in 1 .. n
      BY <3>1
    <3> QED
      BY <1>9, <3>2, <3>8, <3>9, <3>10
  <2> QED
    BY <2>1, <2>2
<1>11. EncodeString(t) \o s = <<1>> \o (f \o e)
  <2>1. EncodeString(t) = (<<1>> \o f) \o <<0>>
    BY <1>3, <1>9 DEF EncodeString
  <2>2. PICK d : d = <<1>> \o f
    OBVIOUS
  <2>3. <<1>> \in Bits /\ d \in Bits
    BY <1>10, <2>2, BitsJoin
  <2>4. (d \o <<0>>) \o s = d \o e
    <3>1. \A x \in Bits : (d \o <<0>>) \o x = d \o (<<0>> \o x)
      BY <1>7, <2>3, JoinBits
    <3> QED
      BY <1>6, <1>7, <3>1
  <2>5. \A x \in Bits : (<<1>> \o f) \o x = <<1>> \o (f \o x)
    BY <1>10, <2>3, JoinBits
  <2>6. (<<1>> \o f) \o e = <<1>> \o (f \o e)
    BY <1>7, <2>5
  <2> QED
    BY <2>1, <2>2, <2>4, <2>6
<1>12. Tail(<<1>> \o (f \o e)) = f \o e
  BY <1>7, <1>10, JoinBits, BitsJoin
<1> QED
  BY <1>1, <1>10, <1>11, <1>12
=============================================================================
