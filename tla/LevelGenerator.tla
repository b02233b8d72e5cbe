--------------------------- MODULE LevelGenerator ---------------------------
(***************************************************************************)
(* genLevel, skl_gen.c: how many levels a new node gets, in the build with *)
(* random numbers (MYSKL_USE_RAND) and in the one without (MYSKL_NO_RAND), *)
(* in a list that is reduced to how many of its nodes have which level.    *)
(***************************************************************************)
EXTENDS Random, FiniteSets

CONSTANTS MYSKL_MAXLEVELS,    \* the size of nodenumelem
          MaxNodes, MaxCount, \* bounds on nodenum and on nodenumelem
          Contract            \* {"below"}: maxlevel is below MYSKL_MAXLEVELS without random numbers

ASSUME LevelAssumption ==
    /\ MYSKL_MAXLEVELS \in 2 .. Width
    /\ MaxNodes \in Nat \ {0} /\ MaxCount \in Nat \ {0}

VARIABLES use_rand,           \* which build it is
          maxlevel, curlevel, nodenum,
          nodenumelem,        \* and what is behind its last entry, l->header
          levels,             \* how many nodes have that level
          peak                \* the highest nodenum a node was inserted at

genVars == <<use_rand, maxlevel, curlevel, nodenum, nodenumelem, levels, peak>>
vars    == <<rngVars, genVars>>

(* RAND_MAX_N                                                               *)
RAND_MAX_N == Modulus - 1

(* setinfo clears the entries below maxlevel, the others are what malloc    *)
(* left there; HEADER is the pointer behind them.                           *)
HEADER == 0

Init ==
    /\ InitRandom
    /\ use_rand \in BOOLEAN
    /\ maxlevel \in 1 .. MYSKL_MAXLEVELS
    /\ "below" \in Contract => use_rand \/ maxlevel < MYSKL_MAXLEVELS
    /\ curlevel = 1 /\ nodenum = 0
    /\ \E junk \in IF use_rand THEN {0} ELSE {0, 1} :
          nodenumelem = [i \in 0 .. MYSKL_MAXLEVELS |->
                           IF i < maxlevel THEN 0
                           ELSE IF i < MYSKL_MAXLEVELS THEN junk ELSE HEADER]
    /\ levels = [i \in 1 .. MYSKL_MAXLEVELS |-> 0]
    /\ peak = 0

-----------------------------------------------------------------------------
(* With random numbers                                                      *)

(* A bug: the comparison is with "less".                                    *)
RandLevelLess(t) ==
    LET up[lev \in 1 .. maxlevel] ==
          IF lev = maxlevel \/ t >= RAND_MAX_N \div PowerOf2[lev] \/ lev > curlevel
          THEN lev ELSE up[lev + 1]
    IN  up[1]

(* The loop for the word t; j is 2^lev.                                     *)
RandLevel(t) ==
    LET up[lev \in 1 .. maxlevel] ==
          IF lev = maxlevel \/ t > RAND_MAX_N \div PowerOf2[lev] \/ lev > curlevel
          THEN lev ELSE up[lev + 1]
    IN  up[1]

(* Without                                                                  *)

(* A bug: a level that has its share gets one more node.                    *)
PlainLevelFull ==
    LET up[lev \in 1 .. maxlevel] ==
          IF lev = maxlevel \/ nodenumelem[lev] * PowerOf2[lev] <= nodenum THEN lev ELSE up[lev + 1]
    IN  up[1]

(* A bug: the level above maxlevel is tried too.                            *)
PlainLevelBeyond ==
    LET up[lev \in 1 .. MYSKL_MAXLEVELS] ==
          IF lev > maxlevel \/ lev = MYSKL_MAXLEVELS \/ nodenumelem[lev] * PowerOf2[lev] < nodenum
          THEN lev ELSE up[lev + 1]
    IN  up[1]

(* The loop: z is nodenum divided by 2^lev, and not rounded.                *)
PlainLevel ==
    LET up[lev \in 1 .. maxlevel] ==
          IF lev = maxlevel \/ nodenumelem[lev] * PowerOf2[lev] < nodenum THEN lev ELSE up[lev + 1]
    IN  up[1]

-----------------------------------------------------------------------------
(* A node of lev levels comes into the list; or newNode finds no memory.    *)
Place(lev) ==
    \/ /\ levels' = [levels EXCEPT ![lev] = @ + 1]
       /\ curlevel' = IF lev > curlevel THEN lev ELSE curlevel
       /\ nodenum' = nodenum + 1
    \/ UNCHANGED <<levels, curlevel, nodenum>>

InsertRand ==
    /\ use_rand /\ nodenum < MaxNodes
    /\ RNGyieldInteger32
    /\ Place(RandLevel(Value(Drawn(Generator))))
    /\ UNCHANGED <<use_rand, maxlevel, nodenumelem, peak>>

(* The first node has one level, and is not counted.                        *)
InsertPlain ==
    /\ ~use_rand /\ nodenum < MaxNodes
    /\ IF nodenum = 0 THEN Place(1) /\ UNCHANGED <<nodenumelem, peak>>
       ELSE /\ nodenumelem[PlainLevel] < MaxCount
            /\ nodenumelem' = [nodenumelem EXCEPT ![PlainLevel] = @ + 1]
            /\ peak' = IF nodenum > peak THEN nodenum ELSE peak
            /\ Place(PlainLevel)
    /\ UNCHANGED <<use_rand, maxlevel, rngVars>>

(* deleteI and adjustCurLevel, as far as levels go: nodenumelem stays.       *)
Delete(lev) ==
    /\ levels[lev] > 0
    /\ levels' = [levels EXCEPT ![lev] = @ - 1]
    /\ nodenum' = nodenum - 1
    /\ curlevel' = CHOOSE c \in 1 .. maxlevel :
                      /\ c = 1 \/ levels'[c] > 0
                      /\ \A i \in c + 1 .. maxlevel : levels'[i] = 0
    /\ UNCHANGED <<use_rand, maxlevel, nodenumelem, peak, rngVars>>

(* The other calls of the generator, by a program that has it to itself.     *)
DrawDouble == use_rand /\ RNGyieldDouble /\ UNCHANGED genVars

Next ==
    \/ InsertRand
    \/ InsertPlain
    \/ \E lev \in 1 .. maxlevel : Delete(lev)
    \/ DrawDouble

Spec == Init /\ [][Next]_vars

-----------------------------------------------------------------------------
TypeOK ==
    /\ mt \in [Index -> Words] /\ mti \in 1 .. N
    /\ use_rand \in BOOLEAN /\ maxlevel \in 1 .. MYSKL_MAXLEVELS
    /\ curlevel \in 1 .. maxlevel /\ nodenum \in 0 .. MaxNodes
    /\ nodenumelem \in [0 .. MYSKL_MAXLEVELS -> 0 .. MaxCount]
    /\ levels \in [1 .. MYSKL_MAXLEVELS -> 0 .. MaxNodes]

(* Each level has half the nodes of the one below (skl_gen.c:29-51): of all  *)
(* the words the generator can give, tempered as they are, exactly one in    *)
(* 2^k leads above level k, up to the level the list lets a node have.       *)
Tempered == [w \in Words |-> Temper(w)]

LevelsHalve ==
    use_rand => \A k \in 0 .. maxlevel - 1 :
        Cardinality({w \in Words : RandLevel(Tempered[w]) > k}) =
            IF k <= curlevel THEN PowerOf2[Width - k] ELSE 0

(* Without random numbers a level other than the highest one never has more  *)
(* nodes than its share of the longest list there was, the first node of an  *)
(* empty list apart: in whatever order nodes come and go, the counters that  *)
(* are never lowered count at least what is there.                           *)
LevelsThinOut ==
    ~use_rand => \A k \in 1 .. maxlevel - 1 :
        /\ levels[k] <= nodenumelem[k] + IF k = 1 THEN 1 ELSE 0
        /\ nodenumelem[k] > 0 => (nodenumelem[k] - 1) * PowerOf2[k] < peak

(* A list may have MYSKL_MAXLEVELS levels (myskl.h:155-156): no insertion,    *)
(* after whatever others, changes what is behind nodenumelem.                *)
HeaderUntouched == nodenumelem[MYSKL_MAXLEVELS] = HEADER
=============================================================================
