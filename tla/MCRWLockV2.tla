----------------------------- MODULE MCRWLockV2 -----------------------------
(* The threads of RWLockV2 run the same program.                             *)
EXTENDS RWLockV2, TLC

Alike == Permutations(Threads)
=============================================================================
