----------------------------- MODULE MCLockFile -----------------------------
(* Instances of LockFile for TLC. *)
EXTENDS LockFile, TLC

CONSTANTS t1, t2, t3
=============================================================================
