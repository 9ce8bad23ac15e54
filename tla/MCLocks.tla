------------------------------ MODULE MCLocks ------------------------------
(* Locks for TLC; no symmetry, which liveness does not allow.               *)
EXTENDS Locks
=============================================================================
