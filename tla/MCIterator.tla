------------------------------ MODULE MCIterator ------------------------------
(* Iterator for TLC: nodes and users are interchangeable.                    *)
EXTENDS Iterator, TLC

Alike == Permutations(Nodes) \cup Permutations(Users)
=============================================================================
