-------------------------- MODULE MCLockFreeQueue --------------------------
(* A small instance of LockFreeQueue for TLC, and the mutants of its code. *)
EXTENDS LockFreeQueue
=============================================================================
