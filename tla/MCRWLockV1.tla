----------------------------- MODULE MCRWLockV1 -----------------------------
(* RWLockV1 for TLC: the threads that never destroy the lock are            *)
(* interchangeable.                                                         *)
EXTENDS RWLockV1, TLC

Alike == Permutations(Threads \ Destroyers)
=============================================================================
