---------------------------- MODULE MCTimestamp -----------------------------
(* Instances of Timestamp, and of the SharedMemory it is built on, for TLC. *)
EXTENDS Timestamp, TLC

CONSTANTS u1, u2, u3

Users == Permutations(User)
=============================================================================
