-------------------------- MODULE MCListsContainer --------------------------
(* ListsContainer for TLC: the build as it comes (a check of data warns, one *)
(* of memory ends the program), and the one that has it the other way round. *)
EXTENDS ListsContainer, TLC

B(d, m, r) == [data |-> d, memo |-> m, rand |-> r]

SomeBuilds == {B("warn", "exit", TRUE), B("exit", "warn", FALSE)}

Alike == Permutations(Lists)
=============================================================================
