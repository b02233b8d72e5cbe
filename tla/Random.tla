------------------------------- MODULE Random -------------------------------
(***************************************************************************)
(* The random number generator, skl_rand.c: a Mersenne Twister of N words  *)
(* (RAND_N) that makes its words a block at a time, in the place of the    *)
(* block before.  Words, their number and the parameters are small here;   *)
(* what the code does with them is the same for every size.                *)
(***************************************************************************)
EXTENDS Integers, Sequences

CONSTANTS Width,      \* the bits of a word
          BitAnd(_, _), BitOr(_, _), BitXor(_, _),  \* &, | and ^ on words
          N, M,       \* the words of a block, the distance in the recurrence
          MATRIX_A, TEMPERING_MASK_B, TEMPERING_MASK_C,
          ShiftU, ShiftS, ShiftT, ShiftL,  \* TEMPERING_SHIFT_U, _S, _T, _L
          Multiplier, MultiplierA, MultiplierB,
          ArraySeed,  \* what rand_set_seed_array starts from
          Seeds,      \* for newRNG_withSeed
          SeedArrays  \* for newRNG_withSeedArray

PowerOf2[k \in 0 .. Width] == IF k = 0 THEN 1 ELSE 2 * PowerOf2[k - 1]

Modulus    == PowerOf2[Width]
Words      == 0 .. Modulus - 1
UPPER_MASK == PowerOf2[Width - 1]
LOWER_MASK == UPPER_MASK - 1
Index      == 0 .. N - 1

(* <<, >>, and what bit number i of a word is.                              *)
ShiftLeft(w, n)  == (w * PowerOf2[n]) % Modulus
ShiftRight(w, n) == w \div PowerOf2[n]
Bit(w, i)        == ShiftRight(w, i) % 2 = 1

ASSUME RandomAssumption ==
    /\ Width \in Nat \ {0, 1} /\ N \in Nat \ {0, 1, 2} /\ M \in 1 .. N - 1
    /\ {MATRIX_A, TEMPERING_MASK_B, TEMPERING_MASK_C, ArraySeed} \cup Seeds \subseteq Words
    /\ MATRIX_A >= UPPER_MASK
    /\ {ShiftU, ShiftS, ShiftT, ShiftL} \subseteq 1 .. Width
    /\ {Multiplier, MultiplierA, MultiplierB} \subseteq Nat
    /\ SeedArrays \subseteq Seq(Words) \ {<<>>}

(* The operators work bit by bit.                                           *)
ASSUME BitAssumption ==
    \A v, w \in Words :
        /\ BitAnd(v, w) \in Words /\ BitOr(v, w) \in Words /\ BitXor(v, w) \in Words
        /\ \A i \in 0 .. Width - 1 :
              /\ Bit(BitAnd(v, w), i) <=> Bit(v, i) /\ Bit(w, i)
              /\ Bit(BitOr(v, w), i) <=> Bit(v, i) \/ Bit(w, i)
              /\ Bit(BitXor(v, w), i) <=> ~(Bit(v, i) <=> Bit(w, i))

VARIABLES mt, mti,    \* of the generator
          recent      \* the last N words of the sequence, untempered

rngVars == <<mt, mti, recent>>

-----------------------------------------------------------------------------
(* Seeding                                                                  *)

Folded(w) == BitXor(w, ShiftRight(w, Width - 2))

(* rand_set_seed                                                            *)
SetSeed(seed) ==
    LET m[i \in Index] ==
          IF i = 0 THEN seed ELSE (Multiplier * Folded(m[i - 1]) + i) % Modulus
    IN  m

(* rand_set_seed_array.  Both loops change one word after the other, from   *)
(* mt[1] on and round again after the last one, which mt[0] is then a copy   *)
(* of: step number s is at mt[1 + (s % (N - 1))].                             *)
Stir(m, i, mult, add) ==
    LET w == (BitXor(m[i], (Folded(m[i - 1]) * mult) % Modulus) + add) % Modulus
    IN  [m EXCEPT ![i] = w, ![0] = IF i = N - 1 THEN w ELSE @]

StirOnce(m, s, seed, long) ==
    LET i == 1 + (s % (N - 1))
        j == s % Len(seed)
    IN  IF s < long THEN Stir(m, i, MultiplierA, seed[j + 1] + j)
        ELSE Stir(m, i, MultiplierB, Modulus - i)

SetSeedArray(seed) ==
    LET long == IF N > Len(seed) THEN N ELSE Len(seed)
        stirred[s \in 0 .. long + N - 1] ==
          IF s = 0 THEN SetSeed(ArraySeed) ELSE StirOnce(stirred[s - 1], s - 1, seed, long)
    IN  [stirred[long + N - 1] EXCEPT ![0] = UPPER_MASK]

-----------------------------------------------------------------------------
(* Drawing                                                                  *)

(* One step of the recurrence: the word made of the first bit of u and the  *)
(* other bits of l is shifted and, if it was odd, xored with MATRIX_A.      *)
Twist(u, l) ==
    LET y == BitOr(BitAnd(u, UPPER_MASK), BitAnd(l, LOWER_MASK))
    IN  BitXor(ShiftRight(y, 1), IF y % 2 = 1 THEN MATRIX_A ELSE 0)

(* A bug: the last word is made with the old mt[0], which the block has     *)
(* just lost.                                                               *)
BlockOldFirst(m) ==
    LET new[kk \in Index] ==
          BitXor(IF kk < N - M THEN m[kk + M] ELSE new[kk + M - N],
              Twist(m[kk], IF kk = N - 1 THEN m[0] ELSE m[kk + 1]))
    IN  new

(* The next block in the place of m: the three loops of rand_int.           *)
Block(m) ==
    LET new[kk \in Index] ==
          BitXor(IF kk < N - M THEN m[kk + M] ELSE new[kk + M - N],
              Twist(m[kk], IF kk = N - 1 THEN new[0] ELSE m[kk + 1]))
    IN  new

(* The tempering at the end of rand_int.                                    *)
Temper(w) ==
    LET a == BitXor(w, ShiftRight(w, ShiftU))
        b == BitXor(a, BitAnd(ShiftLeft(a, ShiftS), TEMPERING_MASK_B))
        c == BitXor(b, BitAnd(ShiftLeft(b, ShiftT), TEMPERING_MASK_C))
    IN  BitXor(c, ShiftRight(c, ShiftL))

(* The generator after rand_int, and after two of them.                     *)
Generator == [mt |-> mt, mti |-> mti]

Drawn(g) ==
    IF g.mti >= N THEN [mt |-> Block(g.mt), mti |-> 1] ELSE [g EXCEPT !.mti = @ + 1]

Value(g) == Temper(g.mt[g.mti - 1])

(* The sequence itself: x[n + N] is x[n + M] and the twist of x[n], x[n + 1]. *)
Recurred(x) == Append(Tail(x), BitXor(x[M + 1], Twist(x[1], x[2])))

RNGyieldInteger32 ==
    LET g == Drawn(Generator)
    IN  /\ mt' = g.mt /\ mti' = g.mti
        /\ recent' = Recurred(recent)

(* RNGyieldDouble takes two words; a sum that was rounded to 1 is drawn       *)
(* again, which is one more such step.                                       *)
RNGyieldDouble ==
    LET g == Drawn(Drawn(Generator))
    IN  /\ mt' = g.mt /\ mti' = g.mti
        /\ recent' = Recurred(Recurred(recent))

(* newRNG_withSeed and newRNG_withSeedArray.                                *)
New(m) ==
    /\ mt = m /\ mti = N
    /\ recent = [j \in 1 .. N |-> m[j - 1]]

InitRandom ==
    \/ \E seed \in Seeds : New(SetSeed(seed))
    \/ \E seed \in SeedArrays : New(SetSeedArray(seed))

-----------------------------------------------------------------------------
(* The blocks are the sequence: the last word that was taken is the last    *)
(* word of the recurrence, whatever part of the block was overwritten; and  *)
(* the recurrence is never at its fixed point, from where it gives nothing  *)
(* but zeros: no seed leads there.  The lower bits of the oldest word are    *)
(* not looked at.                                                           *)
MatchesRecurrence ==
    /\ mt[mti - 1] = recent[N]
    /\ recent[1] >= UPPER_MASK \/ \E i \in 2 .. N : recent[i] # 0
=============================================================================
