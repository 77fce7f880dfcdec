--------------------------- MODULE PowerEncoding ---------------------------
(***************************************************************************)
(* Keys as bits (src/code/power-encoding): a number is written as its power *)
(* of two and the remainder, each written the same way; every value begins  *)
(* with a one and leaves the count of ones over zeros where it was, so that *)
(* the end of a key is where the count is back at zero.                     *)
(***************************************************************************)
EXTENDS Integers, Sequences, SequencesExt

\* exp2(power)
Exp2[power \in Nat] == IF power = 0 THEN 1 ELSE 2 * Exp2[power - 1]

\* The largest power of two in a positive number, and what is left of it.
Power(value) == CHOOSE p \in 0 .. value : Exp2[p] <= value /\ value < Exp2[p + 1]
Remainder(value, power) == value - Exp2[power]

\* write(value)
Write[value \in Nat] ==
  IF value = 0 THEN <<0>>
  ELSE <<1>> \o Write[Power(value)] \o Write[Remainder(value, Power(value))]

\* read(value): the value and the bits after it; a bit beyond the end is zero.
Read[bits \in Seq({0, 1})] ==
  IF bits = <<>> \/ bits[1] = 0
  THEN [value |-> 0, rest |-> IF bits = <<>> THEN <<>> ELSE Tail(bits)]
  ELSE LET power == Read[Tail(bits)]
           remainder == Read[power.rest]
       IN [value |-> Exp2[power.value] + remainder.value, rest |-> remainder.rest]

\* output << value and input >> value, for a number or a character.
Encode(value) == <<1>> \o Write[value]
Decode(bits) == Read[Tail(bits)]

\* output << string and input >> string.
EncodeString(string) ==
  <<1>> \o FlattenSeq([i \in DOMAIN string |-> Encode(string[i])]) \o <<0>>

\* The characters of a string, up to the zero that ends them.
Characters[bits \in Seq({0, 1})] ==
  IF bits = <<>> \/ bits[1] = 0
  THEN [value |-> <<>>, rest |-> IF bits = <<>> THEN <<>> ELSE Tail(bits)]
  ELSE LET one == Decode(bits)
           more == Characters[one.rest]
       IN [value |-> <<one.value>> \o more.value, rest |-> more.rest]

DecodeString(bits) == Characters[Tail(bits)]

\* The count of writeBit and readBit: it never falls below zero.
CountBit(count, bit) == IF bit = 1 THEN count + 1 ELSE IF count > 0 THEN count - 1 ELSE 0
=============================================================================
