------------------------------ MODULE MCSkipList ------------------------------
(* SkipList for TLC: nodes are interchangeable until the program gives them a *)
(* key, and contents are interchangeable throughout.                         *)
EXTENDS SkipList, TLC

Alike == Permutations(Nodes) \cup Permutations(Items)
=============================================================================
