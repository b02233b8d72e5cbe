-------------------------- MODULE MCLevelGenerator --------------------------
(* LevelGenerator for TLC: words of four bits, blocks of three words.        *)
EXTENDS LevelGenerator, Bitwise

SomeArrays == {<<1>>, <<5, 0, 7, 1>>}

AndOf(v, w) == v & w
OrOf(v, w)  == v | w
XorOf(v, w) == v ^^ w
=============================================================================
