-------------------------- MODULE LevelGeneratorProofs --------------------------
(***************************************************************************)
(* Theorems about Random and LevelGenerator, for words of any width, blocks *)
(* of any length, any shifts, masks, multipliers and seeds, and any greatest *)
(* level.                                                                    *)
(***************************************************************************)
EXTENDS LevelGenerator, FiniteSetTheorems, WellFoundedInduction, SequenceTheorems, TLAPS

-----------------------------------------------------------------------------
(* Induction over the numbers, for a set in place of a predicate            *)

(* Every set of natural numbers that has a member has a least one.           *)
LEMMA LeastNumber ==
    ASSUME NEW S \in SUBSET Nat, S # {}
    PROVE  \E m \in S : \A k \in S : m <= k
<1>1. PICK m \in S : \A k \in S : <<k, m>> \notin OpToRel(<, Nat)
  BY NatLessThanWellFounded, WFMin, Zenon
<1>2. \A k \in S : ~(k < m)
  BY <1>1, Zenon DEF OpToRel
<1> QED BY <1>2

(* What is true of 0, and of i + 1 when it is true of i, is true up to n:    *)
(* holds is the set of numbers it is true of.                                *)
LEMMA Upwards ==
    ASSUME NEW n \in Nat, NEW holds, 0 \in holds,
           \A i \in 1 .. n : i - 1 \in holds => i \in holds
    PROVE  \A i \in 0 .. n : i \in holds
<1> DEFINE fails == {i \in 0 .. n : i \notin holds}
<1>1. SUFFICES ASSUME fails # {}
               PROVE  FALSE
  OBVIOUS
<1>2. PICK m \in fails : \A k \in fails : m <= k
  <2>1. fails \in SUBSET Nat
    OBVIOUS
  <2> HIDE DEF fails
  <2> QED BY <1>1, <2>1, LeastNumber
<1>3. m \in 1 .. n /\ m - 1 \in holds
  BY <1>2
<1> QED BY <1>2, <1>3

(* f begins with first, and has at i what step[i] makes of what is before.   *)
Iterates(f, first, step) ==
    f[0] = first /\ \A i \in DOMAIN step : f[i] = step[i][f[i - 1]]

(* What steps make of first, one after the other, is a function.             *)
LEMMA Iterate ==
    ASSUME NEW n \in Nat, NEW A, NEW first \in A, NEW step \in [1 .. n -> [A -> A]]
    PROVE  \E f \in [0 .. n -> A] : Iterates(f, first, step)
<1> DEFINE Upto(f, k) == f[0] = first /\ \A i \in 1 .. k : f[i] = step[i][f[i - 1]]
           holds == {k \in 0 .. n : \E f \in [0 .. n -> A] : Upto(f, k)}
<1>1. 0 \in holds
  <2> DEFINE f == [i \in 0 .. n |-> first]
  <2>1. f \in [0 .. n -> A] /\ Upto(f, 0)
    OBVIOUS
  <2> HIDE DEF f, Upto
  <2> QED BY <2>1
<1>2. ASSUME NEW k \in 1 .. n, k - 1 \in holds
      PROVE  k \in holds
  <2>1. PICK f \in [0 .. n -> A] : Upto(f, k - 1)
    BY <1>2
  <2> DEFINE turn == step[k][f[k - 1]]
             g    == [f EXCEPT ![k] = turn]
  <2>2. turn \in A /\ k - 1 \in 0 .. n /\ k \in 0 .. n /\ k - 1 # k /\ 0 # k
    BY <2>1
  <2>3. g \in [0 .. n -> A] /\ g[k] = turn /\ \A i \in 0 .. n : i # k => g[i] = f[i]
    BY <2>1, <2>2
  <2>4. ASSUME NEW i \in 1 .. k
        PROVE  g[i] = step[i][g[i - 1]]
    <3>1. CASE i = k
      BY <2>2, <2>3, <3>1
    <3>2. CASE i # k
      <4>1. i \in 1 .. k - 1 /\ i \in 0 .. n /\ i - 1 \in 0 .. n /\ i - 1 # k
        BY <3>2
      <4> HIDE DEF g
      <4> QED BY <2>1, <2>3, <3>2, <4>1
    <3> QED BY <3>1, <3>2
  <2>5. Upto(g, k)
    BY <2>1, <2>2, <2>3, <2>4
  <2> HIDE DEF g, Upto
  <2> QED BY <2>2, <2>3, <2>5
<1>3. n \in holds
  <2>1. \A k \in 0 .. n : k \in holds
    <3> HIDE DEF holds
    <3> QED BY <1>1, <1>2, Upwards
  <2> HIDE DEF holds
  <2> QED BY <2>1
<1>4. PICK f \in [0 .. n -> A] : Upto(f, n)
  BY <1>3
<1>5. Iterates(f, first, step)
  BY <1>4 DEF Iterates
<1> QED BY <1>4, <1>5

USE RandomAssumption DEF RandomAssumption

-----------------------------------------------------------------------------
(* Quotients and remainders                                                 *)

LEMMA Divided ==
    ASSUME NEW x \in Nat, NEW m \in Nat \ {0}
    PROVE  /\ x \div m \in Nat /\ x % m \in 0 .. m - 1
           /\ x = m * (x \div m) + (x % m)
<1>1. x \div m \in Nat /\ x % m \in 0 .. m - 1
  OBVIOUS
<1>2. x = m * (x \div m) + (x % m)
  OBVIOUS
<1> QED BY <1>1, <1>2

LEMMA DividedOnce ==
    ASSUME NEW m \in Nat \ {0}, NEW q \in Nat, NEW r \in 0 .. m - 1, NEW x \in Nat, x = m * q + r
    PROVE  x \div m = q /\ x % m = r
OBVIOUS

LEMMA HalfOfRemainder ==
    ASSUME NEW x \in Nat, NEW p \in Nat \ {0}
    PROVE  /\ (x % (2 * p)) \div 2 = (x \div 2) % p
           /\ (x % (2 * p)) % 2 = x % 2
<1> DEFINE q == x \div (2 * p)
           r == x % (2 * p)
           h == r \div 2
           b == r % 2
<1>1. q \in Nat /\ r \in 0 .. 2 * p - 1 /\ x = (2 * p) * q + r
  <2> DEFINE m == 2 * p
  <2>1. m \in Nat \ {0}
    OBVIOUS
  <2> HIDE DEF m
  <2>2. x \div m \in Nat /\ x % m \in 0 .. m - 1 /\ x = m * (x \div m) + (x % m)
    BY <2>1, Divided
  <2>3. q = x \div m /\ r = x % m
    BY DEF m
  <2> HIDE DEF q, r
  <2>4. q \in Nat /\ r \in 0 .. m - 1 /\ x = m * q + r
    BY <2>2, <2>3
  <2> QED BY <2>4 DEF m
<1> HIDE DEF q, r
<1>2. h \in Nat /\ b \in 0 .. 1 /\ r = 2 * h + b
  <2> DEFINE two == 2
  <2>1. r \in Nat /\ two \in Nat \ {0}
    BY <1>1
  <2> HIDE DEF two
  <2>2. r \div two \in Nat /\ r % two \in 0 .. two - 1 /\ r = two * (r \div two) + (r % two)
    BY <2>1, Divided
  <2> QED BY <2>2 DEF two
<1> HIDE DEF h, b
<1>3. h \in 0 .. p - 1
  BY <1>1, <1>2
<1>4. x = 2 * (p * q + h) + b /\ p * q + h \in Nat
  BY <1>1, <1>2
<1>5. x \div 2 = p * q + h /\ x % 2 = b
  <2> DEFINE k == p * q + h
  <2>1. k \in Nat /\ x = 2 * k + b
    BY <1>4
  <2> HIDE DEF k
  <2>2. x \div 2 = k /\ x % 2 = b
    BY <1>2, <2>1, DividedOnce
  <2> QED BY <2>2 DEF k
<1>6. (x \div 2) % p = h
  <2> DEFINE k == x \div 2
  <2>1. k \in Nat /\ k = p * q + h
    BY <1>5
  <2> HIDE DEF k
  <2>2. k % p = h
    BY <1>1, <1>3, <2>1
  <2> QED BY <2>2 DEF k
<1> QED BY <1>5, <1>6 DEF h, b, r

LEMMA TwiceRemainder ==
    ASSUME NEW x \in Nat, NEW m \in Nat \ {0}
    PROVE  (2 * (x % m)) % m = (2 * x) % m
<1> DEFINE q == x \div m
           r == x % m
<1>1. q \in Nat /\ r \in 0 .. m - 1 /\ x = m * q + r
  BY Divided
<1> HIDE DEF q, r
<1> DEFINE y == 2 * x
           a == 2 * q
           c == 2 * r
<1>2. y \in Nat /\ a \in Nat /\ c \in Nat /\ c < 2 * m /\ y = m * a + c
  BY <1>1
<1> HIDE DEF y, a, c
<1>3. CASE c < m
  <2>1. c \in 0 .. m - 1 /\ c = m * 0 + c
    BY <1>2, <1>3
  <2>2. y % m = c
    BY <1>2, <2>1
  <2>3. c % m = c
    BY <1>2, <2>1
  <2> QED BY <2>2, <2>3 DEF y, c, r
<1>4. CASE c >= m
  <2> DEFINE d == c - m
             e == a + 1
  <2>1. d \in 0 .. m - 1 /\ e \in Nat /\ y = m * e + d /\ c = m * 1 + d
    BY <1>2, <1>4
  <2> HIDE DEF d, e
  <2> DEFINE one == 1
  <2>2. one \in Nat /\ c = m * one + d
    BY <2>1
  <2> HIDE DEF one
  <2>3. y % m = d
    <3>1. y \in Nat /\ e \in Nat /\ d \in 0 .. m - 1 /\ y = m * e + d
      BY <1>2, <2>1
    <3> QED BY <3>1
  <2>4. c % m = d
    <3>1. c \in Nat /\ one \in Nat /\ d \in 0 .. m - 1 /\ c = m * one + d
      BY <1>2, <2>1, <2>2
    <3> QED BY <3>1
  <2> QED BY <2>3, <2>4 DEF y, c, r
<1> QED BY <1>2, <1>3, <1>4

-----------------------------------------------------------------------------
(* Powers of two                                                            *)

Doubles(f) == f = [k \in 0 .. Width |-> IF k = 0 THEN 1 ELSE 2 * f[k - 1]]

LEMMA PowersAreSome ==
    ASSUME \E f : Doubles(f)
    PROVE  Doubles(PowerOf2)
BY Zenon DEF Doubles, PowerOf2

LEMMA PowersExist == \E f : Doubles(f)
<1> DEFINE A == Nat \ {0}
           step == [k \in 1 .. Width |-> [x \in A |-> 2 * x]]
<1>1. \A x \in A : 2 * x \in A
  OBVIOUS
<1>2. 1 \in A
  OBVIOUS
<1> HIDE DEF A
<1>3. step \in [1 .. Width -> [A -> A]] /\ DOMAIN step = 1 .. Width
      /\ \A k \in 1 .. Width : \A x \in A : step[k][x] = 2 * x
  BY <1>1
<1> HIDE DEF step
<1>4. PICK f \in [0 .. Width -> A] : Iterates(f, 1, step)
  BY <1>2, <1>3, Iterate
<1>5. ASSUME NEW k \in 0 .. Width
      PROVE  f[k] = IF k = 0 THEN 1 ELSE 2 * f[k - 1]
  <2>1. CASE k = 0
    BY <1>4, <2>1 DEF Iterates
  <2>2. CASE k # 0
    <3>1. k \in 1 .. Width /\ k - 1 \in 0 .. Width
      BY <2>2
    <3>2. f[k] = step[k][f[k - 1]] /\ f[k - 1] \in A
      BY <1>3, <1>4, <3>1 DEF Iterates
    <3> QED BY <1>3, <2>2, <3>1, <3>2
  <2> QED BY <2>1, <2>2
<1>6. Doubles(f)
  BY <1>4, <1>5, Zenon DEF Doubles
<1> QED BY <1>6

LEMMA Powers ==
    /\ PowerOf2[0] = 1
    /\ \A k \in 0 .. Width : PowerOf2[k] \in Nat \ {0}
    /\ \A k \in 1 .. Width : PowerOf2[k] = 2 * PowerOf2[k - 1]
<1>1. \A k \in 0 .. Width : PowerOf2[k] = IF k = 0 THEN 1 ELSE 2 * PowerOf2[k - 1]
  <2>1. PowerOf2 = [k \in 0 .. Width |-> IF k = 0 THEN 1 ELSE 2 * PowerOf2[k - 1]]
    BY PowersExist, PowersAreSome, Zenon DEF Doubles
  <2> QED BY <2>1, Zenon
<1>2. PowerOf2[0] = 1
  BY <1>1
<1>3. \A k \in 1 .. Width : PowerOf2[k] = 2 * PowerOf2[k - 1]
  BY <1>1
<1> DEFINE holds == {k \in 0 .. Width : PowerOf2[k] \in Nat \ {0}}
<1>4. 0 \in holds
  BY <1>2
<1>5. ASSUME NEW k \in 1 .. Width, k - 1 \in holds
      PROVE  k \in holds
  <2> DEFINE p == PowerOf2[k - 1]
  <2>1. p \in Nat \ {0} /\ PowerOf2[k] = 2 * p /\ k \in 0 .. Width
    BY <1>3, <1>5
  <2> HIDE DEF p
  <2> QED BY <2>1
<1>6. \A k \in 0 .. Width : k \in holds
  <2> HIDE DEF holds
  <2> QED BY <1>4, <1>5, Upwards
<1> QED BY <1>2, <1>3, <1>6

(* What Modulus, UPPER_MASK and LOWER_MASK are.                              *)
LEMMA Masks ==
    /\ Modulus \in Nat \ {0} /\ UPPER_MASK \in Nat \ {0} /\ Modulus = 2 * UPPER_MASK
    /\ UPPER_MASK >= 2
    /\ UPPER_MASK \in Words /\ LOWER_MASK \in Words /\ 0 \in Words
<1>1. Width - 1 \in 1 .. Width /\ Width - 2 \in 0 .. Width /\ (Width - 1) - 1 = Width - 2
      /\ Width - 1 \in 0 .. Width /\ Width \in 1 .. Width /\ Width \in 0 .. Width
  OBVIOUS
<1> DEFINE p == PowerOf2[Width - 2]
           u == PowerOf2[Width - 1]
           m == PowerOf2[Width]
<1>2. p \in Nat \ {0} /\ u = 2 * p /\ m = 2 * u
  BY <1>1, Powers
<1> HIDE DEF p, u, m
<1>3. m \in Nat \ {0} /\ u \in Nat \ {0} /\ u >= 2 /\ u \in 0 .. m - 1 /\ u - 1 \in 0 .. m - 1 /\ 0 \in 0 .. m - 1
  BY <1>2
<1> QED BY <1>2, <1>3 DEF u, m, Modulus, UPPER_MASK, LOWER_MASK, Words

-----------------------------------------------------------------------------
(* The bits of a word                                                       *)

LEMMA ShiftsOn ==
    ASSUME NEW w \in Nat
    PROVE  /\ ShiftRight(w, 0) = w
           /\ \A i \in 0 .. Width : ShiftRight(w, i) \in Nat
           /\ \A i \in 1 .. Width : ShiftRight(w, i) = ShiftRight(w, i - 1) \div 2
<1>1. ShiftRight(w, 0) = w
  BY Powers DEF ShiftRight
<1>2. ASSUME NEW i \in 0 .. Width
      PROVE  ShiftRight(w, i) \in Nat
  <2> DEFINE p == PowerOf2[i]
  <2>1. p \in Nat \ {0}
    BY Powers
  <2> HIDE DEF p
  <2>2. w \div p \in Nat
    BY <2>1
  <2> QED BY <2>2 DEF p, ShiftRight
<1>3. ASSUME NEW i \in 1 .. Width
      PROVE  ShiftRight(w, i) = ShiftRight(w, i - 1) \div 2
  <2> DEFINE p == PowerOf2[i - 1]
             r == PowerOf2[i]
  <2>1. p \in Nat \ {0} /\ r = 2 * p
    BY Powers
  <2> HIDE DEF p, r
  <2>2. (w \div p) \div 2 = w \div r
    BY <2>1
  <2> QED BY <2>2 DEF ShiftRight, p, r
<1> QED BY <1>1, <1>2, <1>3

(* What is shifted out is gone.                                             *)
LEMMA ShiftedOut ==
    ASSUME NEW w \in Words
    PROVE  w \in Nat /\ ShiftRight(w, Width) = 0
<1> DEFINE m == Modulus
<1>1. m \in Nat \ {0} /\ w \in 0 .. m - 1
  BY Masks DEF Words
<1> HIDE DEF m
<1>2. w \in Nat /\ w \div m = 0
  BY <1>1
<1> QED BY <1>2 DEF m, ShiftRight, Modulus

(* Two numbers with the same half and the same last bit are the same.        *)
LEMMA SameHalves ==
    ASSUME NEW v \in Nat, NEW w \in Nat, v \div 2 = w \div 2, v % 2 = 1 <=> w % 2 = 1
    PROVE  v = w
<1>1. v % 2 \in 0 .. 1 /\ w % 2 \in 0 .. 1
  OBVIOUS
<1>2. v % 2 = w % 2
  BY <1>1
<1> QED BY <1>2

(* A word is its bits.                                                      *)
LEMMA SameBits ==
    ASSUME NEW v \in Words, NEW w \in Words, \A i \in 0 .. Width - 1 : Bit(v, i) <=> Bit(w, i)
    PROVE  v = w
<1>1. v \in Nat /\ w \in Nat /\ ShiftRight(v, Width) = 0 /\ ShiftRight(w, Width) = 0
  BY ShiftedOut
<1> DEFINE holds == {j \in 0 .. Width : ShiftRight(v, Width - j) = ShiftRight(w, Width - j)}
<1>2. 0 \in holds
  BY <1>1
<1>3. ASSUME NEW j \in 1 .. Width, j - 1 \in holds
      PROVE  j \in holds
  <2> DEFINE i == Width - j
             a == ShiftRight(v, i)
             b == ShiftRight(w, i)
  <2>1. i \in 0 .. Width - 1 /\ i + 1 \in 1 .. Width /\ i \in 0 .. Width /\ Width - (j - 1) = i + 1
        /\ (i + 1) - 1 = i
    OBVIOUS
  <2>2. a \in Nat /\ b \in Nat
    BY <1>1, <2>1, ShiftsOn
  <2>3. ShiftRight(v, i + 1) = a \div 2 /\ ShiftRight(w, i + 1) = b \div 2
    <3> DEFINE k == i + 1
    <3>1. k \in 1 .. Width /\ k - 1 = i
      BY <2>1
    <3> HIDE DEF k, i
    <3>2. ShiftRight(v, k) = ShiftRight(v, k - 1) \div 2 /\ ShiftRight(w, k) = ShiftRight(w, k - 1) \div 2
      BY <1>1, <3>1, ShiftsOn
    <3> QED BY <3>1, <3>2 DEF k
  <2>4. ShiftRight(v, i + 1) = ShiftRight(w, i + 1)
    BY <1>3, <2>1
  <2>5. a % 2 = 1 <=> b % 2 = 1
    BY <2>1 DEF Bit
  <2> HIDE DEF i, a, b
  <2>6. a = b
    BY <2>2, <2>3, <2>4, <2>5, SameHalves
  <2> QED BY <2>6 DEF a, b, i
<1>4. \A j \in 0 .. Width : j \in holds
  <2> HIDE DEF holds
  <2> QED BY <1>2, <1>3, Upwards
<1>5. Width \in holds
  <2> HIDE DEF holds
  <2> QED BY <1>4
<1> QED BY <1>1, <1>5, ShiftsOn

(* The highest bit says whether a word is at least UPPER_MASK, and the       *)
(* lowest one whether it is odd.                                            *)
LEMMA EndBits ==
    ASSUME NEW w \in Words
    PROVE  /\ Bit(w, Width - 1) <=> w >= UPPER_MASK
           /\ Bit(w, 0) <=> w % 2 = 1
<1>1. w \in Nat /\ ShiftRight(w, 0) = w
  BY ShiftedOut, ShiftsOn
<1> DEFINE u == UPPER_MASK
           m == Modulus
<1>2. u \in Nat \ {0} /\ m = 2 * u /\ w \in 0 .. m - 1
  BY Masks DEF Words
<1> HIDE DEF u, m
<1>3. (w \div u) % 2 = 1 <=> w >= u
  BY <1>2
<1> QED BY <1>1, <1>3 DEF Bit, ShiftRight, u, UPPER_MASK

(* Zero has no bits.                                                        *)
LEMMA ZeroBits ==
    ASSUME NEW i \in 0 .. Width - 1
    PROVE  ~Bit(0, i)
<1> DEFINE p == PowerOf2[i]
<1>1. p \in Nat \ {0}
  BY Powers
<1> HIDE DEF p
<1>2. (0 \div p) % 2 # 1
  <2>1. 0 \div p = 0
    BY <1>1
  <2> QED BY <2>1
<1> QED BY <1>2 DEF Bit, ShiftRight, p

(* UPPER_MASK is the highest bit, and LOWER_MASK the other ones.             *)
LEMMA MaskBits ==
    ASSUME NEW i \in 0 .. Width - 1
    PROVE  /\ Bit(UPPER_MASK, i) <=> i = Width - 1
           /\ Bit(LOWER_MASK, i) <=> i # Width - 1
<1>1. UPPER_MASK \in Nat /\ LOWER_MASK \in Nat
  BY Masks DEF LOWER_MASK
<1> DEFINE at(j) == PowerOf2[(Width - 1) - j]
           holds == {j \in 0 .. Width - 1 : /\ ShiftRight(UPPER_MASK, j) = at(j)
                                            /\ ShiftRight(LOWER_MASK, j) = at(j) - 1}
<1>2. 0 \in holds
  <2>1. 0 \in 0 .. Width - 1 /\ (Width - 1) - 0 = Width - 1
    OBVIOUS
  <2>2. at(0) = UPPER_MASK
    BY <2>1 DEF UPPER_MASK
  <2> HIDE DEF at
  <2> QED BY <1>1, <2>1, <2>2, ShiftsOn DEF LOWER_MASK
<1>3. \A j \in 1 .. Width - 1 : at(j) \in Nat \ {0} /\ at(j - 1) = 2 * at(j)
  <2> SUFFICES ASSUME NEW j \in 1 .. Width - 1
               PROVE  at(j) \in Nat \ {0} /\ at(j - 1) = 2 * at(j)
    OBVIOUS
  <2> DEFINE k == (Width - 1) - (j - 1)
  <2>1. k \in 1 .. Width /\ (Width - 1) - j = k - 1 /\ k - 1 \in 0 .. Width
    OBVIOUS
  <2> QED BY <2>1, Powers
<1> HIDE DEF at
<1>4. ASSUME NEW j \in 1 .. Width - 1, j - 1 \in holds
      PROVE  j \in holds
  <2> DEFINE p == at(j)
             u == ShiftRight(UPPER_MASK, j)
             l == ShiftRight(LOWER_MASK, j)
  <2>1. j \in 1 .. Width /\ j \in 0 .. Width - 1
    OBVIOUS
  <2>2. u = ShiftRight(UPPER_MASK, j - 1) \div 2 /\ l = ShiftRight(LOWER_MASK, j - 1) \div 2
    BY <1>1, <2>1, ShiftsOn
  <2>3. p \in Nat \ {0} /\ u = (2 * p) \div 2 /\ l = (2 * p - 1) \div 2
    BY <1>3, <1>4, <2>2
  <2> HIDE DEF p, u, l
  <2>4. u = p /\ l = p - 1
    BY <2>3
  <2> QED BY <2>1, <2>4 DEF p, u, l
<1>5. \A j \in 0 .. Width - 1 : j \in holds
  <2>1. Width - 1 \in Nat
    OBVIOUS
  <2> HIDE DEF holds
  <2> QED BY <1>2, <1>4, <2>1, Upwards
<1>6. i \in holds
  <2> HIDE DEF holds
  <2> QED BY <1>5
<1>7. CASE i = Width - 1
  <2>1. at(i) = 1
    <3>1. (Width - 1) - i = 0
      BY <1>7
    <3> QED BY <3>1, Powers DEF at
  <2>2. ShiftRight(UPPER_MASK, i) = 1 /\ ShiftRight(LOWER_MASK, i) = 0
    BY <1>6, <2>1
  <2> QED BY <1>7, <2>2 DEF Bit
<1>8. CASE i # Width - 1
  <2> DEFINE p == at(i + 1)
  <2>1. i + 1 \in 1 .. Width - 1 /\ (i + 1) - 1 = i
    BY <1>8
  <2>2. p \in Nat \ {0} /\ at(i) = 2 * p
    BY <1>3, <2>1
  <2>3. ShiftRight(UPPER_MASK, i) = 2 * p /\ ShiftRight(LOWER_MASK, i) = 2 * p - 1
    BY <1>6, <2>2
  <2> HIDE DEF p
  <2>4. (2 * p) % 2 = 0 /\ (2 * p - 1) % 2 = 1
    BY <2>2
  <2> QED BY <1>8, <2>3, <2>4 DEF Bit
<1> QED BY <1>7, <1>8

(* A shift to the right moves the bits down.                                *)
LEMMA RightBits ==
    ASSUME NEW w \in Words, NEW n \in 0 .. Width
    PROVE  /\ ShiftRight(w, n) \in Words
           /\ \A i \in 0 .. Width - 1 : Bit(ShiftRight(w, n), i) <=> i + n < Width /\ Bit(w, i + n)
<1> DEFINE v == ShiftRight(w, n)
<1>1. w \in Nat /\ v \in Nat /\ ShiftRight(w, Width) = 0
  BY ShiftedOut, ShiftsOn
<1>2. v \in Words
  <2> DEFINE p == PowerOf2[n]
             m == Modulus
  <2>1. p \in Nat \ {0} /\ m \in Nat \ {0} /\ w \in 0 .. m - 1
    BY Powers, Masks DEF Words
  <2> HIDE DEF p, m
  <2>2. w \div p \in 0 .. m - 1
    BY <2>1
  <2> QED BY <2>2 DEF p, m, ShiftRight, Words
<1> DEFINE holds == {i \in 0 .. Width : ShiftRight(v, i) = IF i + n < Width THEN ShiftRight(w, i + n) ELSE 0}
<1> HIDE DEF v
<1>3. 0 \in holds
  <2>1. 0 \in 0 .. Width /\ 0 + n = n /\ (~(n < Width) => n = Width)
    OBVIOUS
  <2>2. ShiftRight(v, 0) = v
    BY <1>1, ShiftsOn
  <2> QED BY <1>1, <2>1, <2>2 DEF v
<1>4. ASSUME NEW i \in 1 .. Width, i - 1 \in holds
      PROVE  i \in holds
  <2>1. ShiftRight(v, i) = ShiftRight(v, i - 1) \div 2
    BY <1>1, ShiftsOn
  <2>2. CASE (i - 1) + n < Width
    <3>1. i + n \in 1 .. Width /\ (i + n) - 1 = (i - 1) + n
      BY <2>2
    <3>2. ShiftRight(w, i + n) = ShiftRight(w, (i - 1) + n) \div 2
      BY <1>1, <3>1, ShiftsOn
    <3>3. ShiftRight(v, i) = ShiftRight(w, i + n)
      BY <1>4, <2>1, <2>2, <3>2
    <3>4. ~(i + n < Width) => i + n = Width
      BY <3>1
    <3> QED BY <1>1, <3>3, <3>4
  <2>3. CASE ~((i - 1) + n < Width)
    <3>1. ShiftRight(v, i - 1) = 0 /\ ~(i + n < Width)
      BY <1>4, <2>3
    <3>2. 0 \div 2 = 0
      OBVIOUS
    <3> QED BY <2>1, <3>1, <3>2
  <2> QED BY <2>2, <2>3
<1>5. \A i \in 0 .. Width : i \in holds
  <2> HIDE DEF holds
  <2> QED BY <1>3, <1>4, Upwards
<1>6. ASSUME NEW i \in 0 .. Width - 1
      PROVE  Bit(v, i) <=> i + n < Width /\ Bit(w, i + n)
  <2>1. i \in 0 .. Width
    OBVIOUS
  <2>2. i \in holds
    <3> HIDE DEF holds
    <3> QED BY <1>5, <2>1
  <2>3. 0 % 2 # 1
    OBVIOUS
  <2> QED BY <2>2, <2>3 DEF Bit
<1> QED BY <1>2, <1>6 DEF v

(* A shift to the left by one.                                              *)
LEMMA DoubleBits ==
    ASSUME NEW v \in Words
    PROVE  /\ (2 * v) % Modulus \in Words
           /\ \A i \in 0 .. Width - 1 : Bit((2 * v) % Modulus, i) <=> i > 0 /\ Bit(v, i - 1)
<1> DEFINE d == (2 * v) % Modulus
<1>1. v \in Nat /\ d \in Words /\ d \in Nat /\ Modulus = PowerOf2[Width]
  <2>1. v \in Nat
    BY ShiftedOut
  <2>2. d \in 0 .. Modulus - 1
    BY <2>1, Masks
  <2> QED BY <2>1, <2>2, Masks DEF Words, Modulus
<1>2. ASSUME NEW i \in 1 .. Width
      PROVE  /\ PowerOf2[Width - i] \in Nat \ {0}
             /\ PowerOf2[Width - (i - 1)] = 2 * PowerOf2[Width - i]
  <2>1. Width - (i - 1) \in 1 .. Width /\ Width - i \in 0 .. Width /\ (Width - (i - 1)) - 1 = Width - i
    OBVIOUS
  <2> QED BY <2>1, Powers
<1>3. Width \in Nat /\ 1 \in 1 .. Width /\ Width - 0 = Width /\ 1 - 1 = 0
  OBVIOUS
<1>4. d % 2 = 0 /\ ShiftRight(d, 1) = v % PowerOf2[Width - 1]
  <2> DEFINE p == PowerOf2[Width - 1]
  <2>1. p \in Nat \ {0} /\ Modulus = 2 * p
    BY Masks DEF UPPER_MASK
  <2> HIDE DEF p
  <2>2. 2 * v \in Nat /\ d = (2 * v) % (2 * p)
    <3>1. 2 * v \in Nat
      BY <1>1
    <3>2. d = (2 * v) % Modulus
      OBVIOUS
    <3> QED BY <2>1, <3>1, <3>2
  <2>3. d \div 2 = ((2 * v) \div 2) % p /\ d % 2 = (2 * v) % 2
    <3> DEFINE x == 2 * v
    <3>1. x \in Nat /\ d = x % (2 * p)
      BY <2>2
    <3> HIDE DEF x, d
    <3>2. d \div 2 = (x \div 2) % p /\ d % 2 = x % 2
      BY <2>1, <3>1, HalfOfRemainder
    <3> QED BY <3>2 DEF x
  <2>4. (2 * v) \div 2 = v /\ (2 * v) % 2 = 0
    BY <1>1
  <2> HIDE DEF d
  <2>5. ShiftRight(d, 1) = d \div 2
    <3>1. ShiftRight(d, 0) = d /\ ShiftRight(d, 1) = ShiftRight(d, 1 - 1) \div 2
      BY <1>1, <1>3, ShiftsOn
    <3> QED BY <1>3, <3>1
  <2> QED BY <2>3, <2>4, <2>5 DEF p
<1> HIDE DEF d
<1> DEFINE holds == {j \in 0 .. Width - 1 : ShiftRight(d, j + 1) = ShiftRight(v, j) % PowerOf2[Width - (j + 1)]}
<1>5. 0 \in holds
  <2>1. 0 \in 0 .. Width - 1 /\ 0 + 1 = 1 /\ ShiftRight(v, 0) = v
    BY <1>1, ShiftsOn
  <2> QED BY <1>4, <2>1
<1>6. ASSUME NEW j \in 1 .. Width - 1, j - 1 \in holds
      PROVE  j \in holds
  <2>1. /\ j + 1 \in 1 .. Width /\ (j + 1) - 1 = j /\ (j - 1) + 1 = j /\ j \in 1 .. Width
        /\ j \in 0 .. Width - 1 /\ j - 1 \in 0 .. Width
    OBVIOUS
  <2> DEFINE x == ShiftRight(v, j - 1)
             p == PowerOf2[Width - (j + 1)]
  <2>2. x \in Nat /\ ShiftRight(v, j) = x \div 2
    BY <1>1, <2>1, ShiftsOn
  <2>3. p \in Nat \ {0} /\ PowerOf2[Width - j] = 2 * p
    BY <1>2, <2>1
  <2>4. ShiftRight(d, j) = x % (2 * p)
    BY <1>6, <2>1, <2>3
  <2>5. ShiftRight(d, j + 1) = ShiftRight(d, j) \div 2
    BY <1>1, <2>1, ShiftsOn
  <2> HIDE DEF x, p
  <2>6. ShiftRight(d, j + 1) = (x \div 2) % p
    BY <2>2, <2>3, <2>4, <2>5, HalfOfRemainder
  <2> QED BY <2>1, <2>2, <2>6 DEF p
<1>7. \A j \in 0 .. Width - 1 : j \in holds
  <2>1. Width - 1 \in Nat
    OBVIOUS
  <2> HIDE DEF holds
  <2> QED BY <1>5, <1>6, <2>1, Upwards
<1>8. ASSUME NEW i \in 0 .. Width - 1
      PROVE  Bit(d, i) <=> i > 0 /\ Bit(v, i - 1)
  <2>1. CASE i = 0
    <3>1. ShiftRight(d, 0) = d
      BY <1>1, ShiftsOn
    <3> QED BY <1>4, <2>1, <3>1 DEF Bit
  <2>2. CASE i # 0
    <3>1. i > 0 /\ i - 1 \in 0 .. Width - 1 /\ i - 1 \in 0 .. Width /\ (i - 1) + 1 = i /\ i + 1 \in 1 .. Width
          /\ (i + 1) - 1 = i
      BY <2>2
    <3>2. i - 1 \in holds
      <4> HIDE DEF holds
      <4> QED BY <1>7, <3>1
    <3> DEFINE x == ShiftRight(v, i - 1)
               p == PowerOf2[Width - (i + 1)]
    <3>3. x \in Nat /\ p \in Nat \ {0} /\ PowerOf2[Width - i] = 2 * p
      BY <1>1, <1>2, <3>1, ShiftsOn
    <3>4. ShiftRight(d, i) = x % (2 * p)
      BY <3>1, <3>2, <3>3
    <3> HIDE DEF x, p
    <3>5. ShiftRight(d, i) % 2 = x % 2
      <4>1. (x % (2 * p)) % 2 = x % 2
        BY <3>3, HalfOfRemainder
      <4> QED BY <3>4, <4>1
    <3> QED BY <3>1, <3>5 DEF Bit, x
  <2> QED BY <2>1, <2>2
<1> QED BY <1>1, <1>8 DEF d

(* A shift to the left moves the bits up.                                   *)
LEMMA LeftBits ==
    ASSUME NEW w \in Words, NEW n \in 0 .. Width
    PROVE  /\ ShiftLeft(w, n) \in Words
           /\ \A i \in 0 .. Width - 1 : Bit(ShiftLeft(w, n), i) <=> i >= n /\ Bit(w, i - n)
<1> DEFINE Moved(k) == /\ ShiftLeft(w, k) \in Words
                       /\ \A i \in 0 .. Width - 1 : Bit(ShiftLeft(w, k), i) <=> i >= k /\ Bit(w, i - k)
           holds == {k \in 0 .. Width : Moved(k)}
<1>1. w \in Nat /\ Modulus \in Nat \ {0}
  BY ShiftedOut, Masks
<1>2. 0 \in holds
  <2>1. ShiftLeft(w, 0) = w
    <3> DEFINE m == Modulus
    <3>1. m \in Nat \ {0} /\ w \in 0 .. m - 1
      BY Masks DEF Words
    <3> HIDE DEF m
    <3>2. (w * 1) % m = w
      BY <3>1
    <3> QED BY <3>2, Powers DEF m, ShiftLeft
  <2>2. \A i \in 0 .. Width - 1 : i >= 0 /\ i - 0 = i
    OBVIOUS
  <2> QED BY <2>1, <2>2
<1>3. ASSUME NEW k \in 1 .. Width, k - 1 \in holds
      PROVE  k \in holds
  <2>1. ShiftLeft(w, k) = (2 * ShiftLeft(w, k - 1)) % Modulus
    <3> DEFINE p == PowerOf2[k - 1]
               r == PowerOf2[k]
               m == Modulus
               x == w * p
    <3>1. p \in Nat \ {0} /\ r = 2 * p
      BY Powers
    <3> HIDE DEF p, r
    <3>2. w * r = 2 * x /\ x \in Nat
      BY <1>1, <3>1
    <3>3. m \in Nat \ {0}
      BY <1>1
    <3> HIDE DEF x, m
    <3>4. (2 * (x % m)) % m = (2 * x) % m
      BY <3>2, <3>3, TwiceRemainder
    <3>5. (w * r) % m = (2 * (x % m)) % m
      BY <3>2, <3>4
    <3> QED BY <3>5 DEF x, m, p, r, ShiftLeft
  <2> DEFINE v == ShiftLeft(w, k - 1)
  <2>2. v \in Words /\ \A i \in 0 .. Width - 1 : Bit(v, i) <=> i >= k - 1 /\ Bit(w, i - (k - 1))
    BY <1>3
  <2>3. ShiftLeft(w, k) = (2 * v) % Modulus
    BY <2>1
  <2> HIDE DEF v
  <2>4. ShiftLeft(w, k) \in Words /\ \A i \in 0 .. Width - 1 : Bit(ShiftLeft(w, k), i) <=> i > 0 /\ Bit(v, i - 1)
    BY <2>2, <2>3, DoubleBits
  <2>5. ASSUME NEW i \in 0 .. Width - 1
        PROVE  Bit(ShiftLeft(w, k), i) <=> i >= k /\ Bit(w, i - k)
    <3>1. CASE i = 0
      BY <2>4, <3>1
    <3>2. CASE i # 0
      <4>1. i > 0 /\ i - 1 \in 0 .. Width - 1 /\ (i - 1) - (k - 1) = i - k /\ (i - 1 >= k - 1 <=> i >= k)
        BY <3>2
      <4> QED BY <2>2, <2>4, <4>1
    <3> QED BY <3>1, <3>2
  <2> QED BY <2>4, <2>5
<1>4. \A k \in 0 .. Width : k \in holds
  <2> HIDE DEF holds
  <2> QED BY <1>2, <1>3, Upwards
<1>5. n \in holds
  <2> HIDE DEF holds
  <2> QED BY <1>4
<1> QED BY <1>5

-----------------------------------------------------------------------------
(* Words                                                                    *)

LEMMA InWords ==
    ASSUME NEW x \in Int
    PROVE  x % Modulus \in Words
<1> DEFINE m == Modulus
<1>1. m \in Nat \ {0}
  BY Masks
<1> HIDE DEF m
<1>2. x % m \in 0 .. m - 1
  BY <1>1
<1> QED BY <1>2 DEF m, Words

LEMMA WordsAre ==
    /\ Words \subseteq Nat
    /\ \A w \in Words : \A n \in 0 .. Width : ShiftRight(w, n) \in Words
    /\ \A v, w \in Words : BitXor(v, w) \in Words /\ BitAnd(v, w) \in Words /\ BitOr(v, w) \in Words
<1>1. Words \subseteq Nat
  BY ShiftedOut
<1>2. \A w \in Words : \A n \in 0 .. Width : ShiftRight(w, n) \in Words
  BY RightBits
<1> QED BY <1>1, <1>2, BitAssumption DEF BitAssumption

LEMMA FoldedIs ==
    /\ \A w \in Words : Folded(w) \in Words
    /\ Folded(0) = 0
<1>1. \A w \in Words : Folded(w) \in Words
  <2>1. Width - 2 \in 0 .. Width
    OBVIOUS
  <2> QED BY <2>1, WordsAre DEF Folded
<1>2. 0 \in Words /\ ShiftRight(0, Width - 2) = 0
  <2> DEFINE p == PowerOf2[Width - 2]
  <2>1. p \in Nat \ {0}
    <3>1. Width - 2 \in 0 .. Width
      OBVIOUS
    <3> QED BY <3>1, Powers
  <2> HIDE DEF p
  <2>2. 0 \div p = 0
    BY <2>1
  <2> QED BY <2>2, Masks DEF p, ShiftRight
<1>3. BitXor(0, 0) \in Words /\ \A i \in 0 .. Width - 1 : Bit(BitXor(0, 0), i) <=> Bit(0, i)
  BY <1>2, ZeroBits, BitAssumption DEF BitAssumption
<1>4. BitXor(0, 0) = 0
  BY <1>2, <1>3, SameBits
<1> QED BY <1>1, <1>2, <1>4 DEF Folded

Blocks == [Index -> Words]

-----------------------------------------------------------------------------
(* Seeding                                                                  *)

Seeded(m, seed) ==
    m = [i \in Index |-> IF i = 0 THEN seed ELSE (Multiplier * Folded(m[i - 1]) + i) % Modulus]

LEMMA SeedIsSome ==
    ASSUME NEW seed, \E m : Seeded(m, seed)
    PROVE  Seeded(SetSeed(seed), seed)
BY Zenon DEF Seeded, SetSeed

LEMMA SeedExists ==
    ASSUME NEW seed \in Words
    PROVE  \E m \in Blocks : Seeded(m, seed)
<1> DEFINE step == [k \in 1 .. N - 1 |-> [x \in Words |-> (Multiplier * Folded(x) + k) % Modulus]]
<1>1. ASSUME NEW k \in 1 .. N - 1, NEW x \in Words
      PROVE  (Multiplier * Folded(x) + k) % Modulus \in Words
  <2> DEFINE y == Folded(x)
  <2>1. y \in Nat
    BY FoldedIs, WordsAre
  <2> HIDE DEF y
  <2>2. Multiplier * y + k \in Int
    BY <2>1
  <2> QED BY <2>2, InWords DEF y
<1>2. step \in [1 .. N - 1 -> [Words -> Words]] /\ DOMAIN step = 1 .. N - 1
      /\ \A k \in 1 .. N - 1 : \A x \in Words : step[k][x] = (Multiplier * Folded(x) + k) % Modulus
  BY <1>1
<1> HIDE DEF step
<1>3. N - 1 \in Nat
  OBVIOUS
<1>4. PICK f \in [0 .. N - 1 -> Words] : Iterates(f, seed, step)
  BY <1>2, <1>3, Iterate
<1>5. ASSUME NEW i \in Index
      PROVE  f[i] = IF i = 0 THEN seed ELSE (Multiplier * Folded(f[i - 1]) + i) % Modulus
  <2>1. CASE i = 0
    BY <1>4, <2>1 DEF Iterates
  <2>2. CASE i # 0
    <3>1. i \in 1 .. N - 1 /\ i - 1 \in 0 .. N - 1
      BY <2>2 DEF Index
    <3>2. f[i] = step[i][f[i - 1]] /\ f[i - 1] \in Words
      BY <1>2, <1>4, <3>1 DEF Iterates
    <3>3. f[i] = (Multiplier * Folded(f[i - 1]) + i) % Modulus
      BY <1>2, <3>1, <3>2
    <3> QED BY <2>2, <3>3
  <2> QED BY <2>1, <2>2
<1>6. f \in Blocks /\ f = [i \in Index |-> f[i]]
  BY <1>4 DEF Blocks, Index
<1>7. Seeded(f, seed)
  BY <1>5, <1>6, Zenon DEF Seeded
<1> QED BY <1>6, <1>7

LEMMA SeedIs ==
    ASSUME NEW seed \in Words
    PROVE  /\ SetSeed(seed) \in Blocks
           /\ SetSeed(seed)[1] # 0 \/ SetSeed(seed)[2] # 0
<1> DEFINE m == SetSeed(seed)
<1>1. Seeded(m, seed)
  BY SeedExists, SeedIsSome
<1> HIDE DEF m
<1>2. \A i \in Index : m[i] = IF i = 0 THEN seed ELSE (Multiplier * Folded(m[i - 1]) + i) % Modulus
  BY <1>1, Zenon DEF Seeded
<1>3. \A i \in 1 .. N - 1 : i \in Index /\ i # 0 /\ i - 1 \in 0 .. N - 1
  BY DEF Index
<1>4. m[0] = seed
  <2>1. 0 \in Index
    BY DEF Index
  <2> QED BY <1>2, <2>1
<1>5. ASSUME NEW i \in 1 .. N - 1
      PROVE  m[i] = (Multiplier * Folded(m[i - 1]) + i) % Modulus
  BY <1>2, <1>3
<1> DEFINE holds == {i \in 0 .. N - 1 : m[i] \in Words}
<1>6. 0 \in holds
  BY <1>4
<1>7. ASSUME NEW i \in 1 .. N - 1, i - 1 \in holds
      PROVE  i \in holds
  <2> DEFINE y == Folded(m[i - 1])
  <2>1. y \in Nat
    BY <1>7, FoldedIs, WordsAre
  <2> HIDE DEF y
  <2>2. Multiplier * y + i \in Int
    BY <2>1
  <2>3. m[i] = (Multiplier * y + i) % Modulus
    BY <1>5 DEF y
  <2>4. m[i] \in Words
    BY <2>2, <2>3, InWords
  <2> QED BY <2>4
<1>8. \A i \in 0 .. N - 1 : i \in holds
  <2>1. N - 1 \in Nat
    OBVIOUS
  <2> HIDE DEF holds
  <2> QED BY <1>6, <1>7, <2>1, Upwards
<1>9. m \in Blocks
  <2>1. \A i \in Index : m[i] \in Words
    BY <1>8 DEF Index
  <2>2. m = [i \in Index |-> m[i]]
    BY <1>1, Zenon DEF Seeded
  <2> QED BY <2>1, <2>2, Zenon DEF Blocks
<1>10. ASSUME m[1] = 0
       PROVE  m[2] # 0
  <2>1. 2 \in 1 .. N - 1 /\ 2 - 1 = 1
    OBVIOUS
  <2>2. m[2] = (Multiplier * Folded(m[1]) + 2) % Modulus
    BY <1>5, <2>1
  <2>3. m[2] = (Multiplier * 0 + 2) % Modulus
    BY <1>10, <2>2, FoldedIs
  <2> DEFINE d == Modulus
  <2>4. d \in Nat /\ d > 2
    BY Masks
  <2> HIDE DEF d
  <2>5. (Multiplier * 0 + 2) % d = 2
    BY <2>4
  <2> QED BY <2>3, <2>5 DEF d
<1> QED BY <1>9, <1>10 DEF m

LEMMA StirIs ==
    ASSUME NEW m \in Blocks, NEW i \in 1 .. N - 1, NEW mult \in Nat, NEW add \in Int
    PROVE  Stir(m, i, mult, add) \in Blocks
<1> DEFINE f == Folded(m[i - 1])
           a == BitXor(m[i], (f * mult) % Modulus)
           w == (a + add) % Modulus
<1>1. i \in Index /\ i - 1 \in Index /\ 0 \in Index
  BY DEF Index
<1>2. m[i] \in Words /\ m[i - 1] \in Words
  BY <1>1 DEF Blocks
<1>3. f \in Nat
  BY <1>2, FoldedIs, WordsAre
<1> HIDE DEF f
<1>4. f * mult \in Int
  BY <1>3
<1>5. a \in Nat
  BY <1>2, <1>4, InWords, WordsAre
<1> HIDE DEF a
<1>6. w \in Words
  <2>1. a + add \in Int
    BY <1>5
  <2> QED BY <2>1, InWords
<1>7. Stir(m, i, mult, add) = [m EXCEPT ![i] = w, ![0] = IF i = N - 1 THEN w ELSE m[0]]
  <2>1. i # 0
    OBVIOUS
  <2> QED BY <2>1 DEF Stir, w, a, f
<1> HIDE DEF w
<1> QED BY <1>1, <1>6, <1>7 DEF Blocks

LEMMA StirOnceIs ==
    ASSUME NEW m \in Blocks, NEW s \in Nat, NEW seed \in SeedArrays, NEW long
    PROVE  StirOnce(m, s, seed, long) \in Blocks
<1> DEFINE i == 1 + (s % (N - 1))
           n == Len(seed)
           j == s % n
<1>1. i \in 1 .. N - 1
  <2> DEFINE d == N - 1
  <2>1. d \in Nat \ {0}
    OBVIOUS
  <2> HIDE DEF d
  <2>2. s % d \in 0 .. d - 1
    BY <2>1
  <2>3. i = 1 + (s % d)
    BY DEF d
  <2> HIDE DEF i
  <2>4. i \in 1 .. d
    BY <2>1, <2>2, <2>3
  <2> QED BY <2>4 DEF d
<1>2. seed \in Seq(Words) /\ seed # <<>>
  OBVIOUS
<1>3. n \in Nat \ {0}
  BY <1>2
<1> HIDE DEF n
<1>4. j \in 0 .. n - 1
  BY <1>3
<1> HIDE DEF i, j
<1>5. seed[j + 1] + j \in Int
  <2>1. j + 1 \in 1 .. n
    BY <1>3, <1>4
  <2>2. seed[j + 1] \in Nat
    <3>1. seed[j + 1] \in Words
      BY <1>2, <2>1 DEF n
    <3> QED BY <3>1, WordsAre
  <2> QED BY <1>4, <2>2
<1>6. Modulus - i \in Int
  BY <1>1, Masks
<1>7. StirOnce(m, s, seed, long) =
        IF s < long THEN Stir(m, i, MultiplierA, seed[j + 1] + j) ELSE Stir(m, i, MultiplierB, Modulus - i)
  BY DEF StirOnce, i, j, n
<1>8. MultiplierA \in Nat /\ MultiplierB \in Nat
  OBVIOUS
<1> QED BY <1>1, <1>5, <1>6, <1>7, <1>8, StirIs

Longer(seed) == IF N > Len(seed) THEN N ELSE Len(seed)

Stirring(f, seed) ==
    f = [s \in 0 .. Longer(seed) + N - 1 |->
           IF s = 0 THEN SetSeed(ArraySeed) ELSE StirOnce(f[s - 1], s - 1, seed, Longer(seed))]

LEMMA ArraySeedIsSome ==
    ASSUME NEW seed, \E f : Stirring(f, seed)
    PROVE  \E f : /\ Stirring(f, seed)
                  /\ SetSeedArray(seed) = [f[Longer(seed) + N - 1] EXCEPT ![0] = UPPER_MASK]
<1> DEFINE f == CHOOSE f : Stirring(f, seed)
<1>1. Stirring(f, seed)
  BY Zenon
<1>2. SetSeedArray(seed) = [f[Longer(seed) + N - 1] EXCEPT ![0] = UPPER_MASK]
  BY Zenon DEF SetSeedArray, Stirring, Longer
<1> QED BY <1>1, <1>2

LEMMA StirringExists ==
    ASSUME NEW seed \in SeedArrays
    PROVE  \E f : Stirring(f, seed)
<1> DEFINE long == Longer(seed)
           n    == long + N - 1
           step == [k \in 1 .. n |-> [x \in Blocks |-> StirOnce(x, k - 1, seed, long)]]
<1>1. long \in Nat /\ n \in Nat
  BY DEF Longer
<1> HIDE DEF long
<1>2. ASSUME NEW k \in 1 .. n, NEW x \in Blocks
      PROVE  StirOnce(x, k - 1, seed, long) \in Blocks
  <2>1. k - 1 \in Nat
    OBVIOUS
  <2> QED BY <2>1, StirOnceIs
<1>3. DOMAIN step = 1 .. n /\ \A k \in 1 .. n : \A x \in Blocks : step[k][x] = StirOnce(x, k - 1, seed, long)
  OBVIOUS
<1>4. step \in [1 .. n -> [Blocks -> Blocks]]
  BY <1>2
<1> HIDE DEF step, n
<1>5. SetSeed(ArraySeed) \in Blocks
  BY SeedIs
<1>6. PICK f \in [0 .. n -> Blocks] : Iterates(f, SetSeed(ArraySeed), step)
  BY <1>1, <1>4, <1>5, Iterate
<1>7. ASSUME NEW s \in 0 .. n
      PROVE  f[s] = IF s = 0 THEN SetSeed(ArraySeed) ELSE StirOnce(f[s - 1], s - 1, seed, long)
  <2>1. CASE s = 0
    BY <1>6, <2>1 DEF Iterates
  <2>2. CASE s # 0
    <3>1. s \in 1 .. n /\ s - 1 \in 0 .. n
      BY <1>1, <2>2
    <3>2. f[s] = step[s][f[s - 1]] /\ f[s - 1] \in Blocks
      BY <1>3, <1>6, <3>1 DEF Iterates
    <3> QED BY <1>3, <2>2, <3>1, <3>2
  <2> QED BY <2>1, <2>2
<1>8. f = [s \in 0 .. n |-> f[s]]
  BY <1>6
<1>9. Stirring(f, seed)
  BY <1>7, <1>8, Zenon DEF Stirring, n, long
<1> QED BY <1>9

LEMMA ArraySeedIs ==
    ASSUME NEW seed \in SeedArrays
    PROVE  SetSeedArray(seed) \in Blocks /\ SetSeedArray(seed)[0] = UPPER_MASK
<1> DEFINE long == Longer(seed)
           n    == long + N - 1
<1>1. long \in Nat /\ n \in Nat
  BY DEF Longer
<1>2. PICK f : Stirring(f, seed) /\ SetSeedArray(seed) = [f[n] EXCEPT ![0] = UPPER_MASK]
  BY StirringExists, ArraySeedIsSome
<1>3. \A s \in 0 .. n : f[s] = IF s = 0 THEN SetSeed(ArraySeed) ELSE StirOnce(f[s - 1], s - 1, seed, long)
  BY <1>2, Zenon DEF Stirring
<1> HIDE DEF n, long
<1> DEFINE holds == {s \in 0 .. n : f[s] \in Blocks}
<1>4. 0 \in holds
  BY <1>1, <1>3, SeedIs
<1>5. ASSUME NEW s \in 1 .. n, s - 1 \in holds
      PROVE  s \in holds
  <2>1. s \in 0 .. n /\ s # 0 /\ s - 1 \in Nat
    BY <1>1
  <2> QED BY <1>3, <1>5, <2>1, StirOnceIs
<1>6. \A s \in 0 .. n : s \in holds
  <2> HIDE DEF holds
  <2> QED BY <1>1, <1>4, <1>5, Upwards
<1>7. f[n] \in Blocks
  BY <1>1, <1>6
<1>8. 0 \in Index
  BY DEF Index
<1>9. UPPER_MASK \in Words
  BY Masks
<1> QED BY <1>2, <1>7, <1>8, <1>9 DEF Blocks

-----------------------------------------------------------------------------
(* A step of the recurrence                                                  *)

(* The word the recurrence looks at.                                        *)
Spliced(u, l) == BitOr(BitAnd(u, UPPER_MASK), BitAnd(l, LOWER_MASK))

LEMMA SplicedBits ==
    ASSUME NEW u \in Words, NEW l \in Words
    PROVE  /\ Spliced(u, l) \in Words
           /\ \A i \in 0 .. Width - 1 : Bit(Spliced(u, l), i) <=> IF i = Width - 1 THEN Bit(u, i) ELSE Bit(l, i)
<1> DEFINE a == BitAnd(u, UPPER_MASK)
           b == BitAnd(l, LOWER_MASK)
<1>1. UPPER_MASK \in Words /\ LOWER_MASK \in Words
  BY Masks
<1>2. a \in Words /\ \A i \in 0 .. Width - 1 : Bit(a, i) <=> Bit(u, i) /\ i = Width - 1
  BY <1>1, MaskBits, BitAssumption DEF BitAssumption
<1>3. b \in Words /\ \A i \in 0 .. Width - 1 : Bit(b, i) <=> Bit(l, i) /\ i # Width - 1
  BY <1>1, MaskBits, BitAssumption DEF BitAssumption
<1> HIDE DEF a, b
<1>4. BitOr(a, b) \in Words /\ \A i \in 0 .. Width - 1 : Bit(BitOr(a, b), i) <=> Bit(a, i) \/ Bit(b, i)
  BY <1>2, <1>3, BitAssumption DEF BitAssumption
<1>5. Spliced(u, l) = BitOr(a, b)
  BY DEF Spliced, a, b
<1> QED BY <1>2, <1>3, <1>4, <1>5

(* Its shift and, when it is odd, MATRIX_A, whose highest bit is set.        *)
LEMMA TwistBits ==
    ASSUME NEW u \in Words, NEW l \in Words
    PROVE  /\ Twist(u, l) \in Words
           /\ Bit(Twist(u, l), Width - 1) <=> Bit(l, 0)
           /\ ~Bit(l, 0) => \A i \in 0 .. Width - 2 : Bit(Twist(u, l), i) <=> Bit(Spliced(u, l), i + 1)
<1> DEFINE y == Spliced(u, l)
           r == ShiftRight(y, 1)
           a == IF y % 2 = 1 THEN MATRIX_A ELSE 0
<1>1. y \in Words /\ \A i \in 0 .. Width - 1 : Bit(y, i) <=> IF i = Width - 1 THEN Bit(u, i) ELSE Bit(l, i)
  BY SplicedBits
<1>2. Twist(u, l) = BitXor(r, a)
  BY DEF Twist, Spliced
<1> HIDE DEF y
<1>3. 0 \in 0 .. Width - 1 /\ 0 # Width - 1 /\ 1 \in 0 .. Width /\ Width - 1 \in 0 .. Width - 1
      /\ ~((Width - 1) + 1 < Width)
      /\ \A i \in 0 .. Width - 2 : i \in 0 .. Width - 1 /\ i + 1 < Width
  OBVIOUS
<1>4. y % 2 = 1 <=> Bit(l, 0)
  BY <1>1, <1>3, EndBits
<1>5. r \in Words /\ \A i \in 0 .. Width - 1 : Bit(r, i) <=> i + 1 < Width /\ Bit(y, i + 1)
  BY <1>1, <1>3, RightBits
<1>6. a \in Words /\ 0 \in Words /\ MATRIX_A \in Words
  BY Masks
<1>7. Bit(a, Width - 1) <=> Bit(l, 0)
  BY <1>3, <1>4, <1>6, EndBits, ZeroBits
<1>8. ~Bit(l, 0) => \A i \in 0 .. Width - 1 : ~Bit(a, i)
  BY <1>4, ZeroBits
<1> HIDE DEF r, a
<1>9. BitXor(r, a) \in Words /\ \A i \in 0 .. Width - 1 : Bit(BitXor(r, a), i) <=> ~(Bit(r, i) <=> Bit(a, i))
  BY <1>5, <1>6, BitAssumption DEF BitAssumption
<1>10. ~Bit(r, Width - 1)
  BY <1>3, <1>5
<1>11. Bit(BitXor(r, a), Width - 1) <=> Bit(l, 0)
  BY <1>3, <1>7, <1>9, <1>10
<1>12. ASSUME ~Bit(l, 0), NEW i \in 0 .. Width - 2
       PROVE  Bit(BitXor(r, a), i) <=> Bit(y, i + 1)
  BY <1>3, <1>5, <1>8, <1>9, <1>12
<1> QED BY <1>2, <1>9, <1>11, <1>12 DEF y

-----------------------------------------------------------------------------
(* A block                                                                  *)

NextBlock(new, m) ==
    new = [kk \in Index |->
             BitXor(IF kk < N - M THEN m[kk + M] ELSE new[kk + M - N],
                    Twist(m[kk], IF kk = N - 1 THEN new[0] ELSE m[kk + 1]))]

LEMMA BlockIsSome ==
    ASSUME NEW m, \E new : NextBlock(new, m)
    PROVE  NextBlock(Block(m), m)
BY Zenon DEF NextBlock, Block

(* The loops of the code, in the place of the old block.                     *)
Overwrite(x, kk) ==
    [x EXCEPT ![kk] = BitXor(IF kk < N - M THEN x[kk + M] ELSE x[kk + M - N],
                             Twist(x[kk], IF kk = N - 1 THEN x[0] ELSE x[kk + 1]))]

LEMMA Places ==
    ASSUME NEW kk \in Index
    PROVE  /\ kk < N - M => kk + M \in Index /\ kk + M >= kk
           /\ ~(kk < N - M) => kk + M - N \in Index /\ kk + M - N < kk
           /\ kk = N - 1 => 0 \in Index /\ 0 < kk
           /\ kk # N - 1 => kk + 1 \in Index /\ kk + 1 > kk
BY DEF Index

LEMMA OverwriteIs ==
    ASSUME NEW x \in Blocks, NEW kk \in Index
    PROVE  Overwrite(x, kk) \in Blocks
<1> DEFINE v == IF kk < N - M THEN x[kk + M] ELSE x[kk + M - N]
           l == IF kk = N - 1 THEN x[0] ELSE x[kk + 1]
<1>1. v \in Words /\ l \in Words /\ x[kk] \in Words
  BY Places DEF Blocks
<1> HIDE DEF v, l
<1>2. Twist(x[kk], l) \in Words
  BY <1>1, TwistBits
<1>3. BitXor(v, Twist(x[kk], l)) \in Words
  BY <1>1, <1>2, WordsAre
<1>4. Overwrite(x, kk) = [x EXCEPT ![kk] = BitXor(v, Twist(x[kk], l))]
  BY DEF Overwrite, v, l
<1> QED BY <1>3, <1>4 DEF Blocks

LEMMA NextBlockExists ==
    ASSUME NEW m \in Blocks
    PROVE  \E new : NextBlock(new, m)
<1> DEFINE step == [k \in 1 .. N |-> [x \in Blocks |-> Overwrite(x, k - 1)]]
<1>1. \A k \in 1 .. N : k - 1 \in Index
  BY DEF Index
<1>2. step \in [1 .. N -> [Blocks -> Blocks]]
  BY <1>1, OverwriteIs
<1>3. DOMAIN step = 1 .. N /\ \A k \in 1 .. N : \A x \in Blocks : step[k][x] = Overwrite(x, k - 1)
  OBVIOUS
<1> HIDE DEF step
<1>4. N \in Nat
  OBVIOUS
<1>5. PICK f \in [0 .. N -> Blocks] : Iterates(f, m, step)
  BY <1>2, <1>4, Iterate
<1>6. f[0] = m /\ \A k \in 1 .. N : f[k] = Overwrite(f[k - 1], k - 1) /\ f[k - 1] \in Blocks
  <2>1. \A k \in 1 .. N : k - 1 \in 0 .. N
    OBVIOUS
  <2> QED BY <1>3, <1>5, <2>1 DEF Iterates
<1>7. ASSUME NEW k \in 1 .. N, NEW i \in Index, i # k - 1
      PROVE  f[k][i] = f[k - 1][i]
  BY <1>6, <1>7 DEF Overwrite, Blocks
<1> DEFINE new == [i \in Index |-> f[i + 1][i]]
           holds == {k \in 0 .. N : \A i \in Index : f[k][i] = IF i < k THEN new[i] ELSE m[i]}
<1>8. 0 \in holds
  <2>1. \A i \in Index : ~(i < 0)
    BY DEF Index
  <2> QED BY <1>6, <2>1
<1>9. ASSUME NEW k \in 1 .. N, k - 1 \in holds
      PROVE  k \in holds
  <2>1. ASSUME NEW i \in Index
        PROVE  f[k][i] = IF i < k THEN new[i] ELSE m[i]
    <3>1. CASE i = k - 1
      <4>1. i + 1 = k /\ i < k
        BY <3>1
      <4> QED BY <4>1
    <3>2. CASE i # k - 1
      <4>1. i < k <=> i < k - 1
        BY <3>2 DEF Index
      <4>2. f[k][i] = f[k - 1][i]
        BY <1>7, <3>2
      <4>3. f[k - 1][i] = IF i < k - 1 THEN new[i] ELSE m[i]
        BY <1>9
      <4> QED BY <4>1, <4>2, <4>3
    <3> QED BY <3>1, <3>2
  <2> QED BY <2>1
<1>10. \A k \in 0 .. N : \A i \in Index : f[k][i] = IF i < k THEN new[i] ELSE m[i]
  <2>1. \A k \in 0 .. N : k \in holds
    <3> HIDE DEF holds
    <3> QED BY <1>4, <1>8, <1>9, Upwards
  <2> HIDE DEF new
  <2> QED BY <2>1
<1>11. ASSUME NEW kk \in Index
       PROVE  new[kk] = BitXor(IF kk < N - M THEN m[kk + M] ELSE new[kk + M - N],
                               Twist(m[kk], IF kk = N - 1 THEN new[0] ELSE m[kk + 1]))
  <2> DEFINE x == f[kk]
  <2>1. kk + 1 \in 1 .. N /\ (kk + 1) - 1 = kk /\ kk \in 0 .. N /\ ~(kk < kk)
    BY DEF Index
  <2>2. x \in Blocks /\ new[kk] = Overwrite(x, kk)[kk]
    BY <1>6, <2>1
  <2>3. \A i \in Index : x[i] = IF i < kk THEN new[i] ELSE m[i]
    BY <1>10, <2>1
  <2>4. x[kk] = m[kk]
    BY <2>1, <2>3
  <2>5. kk < N - M => x[kk + M] = m[kk + M]
    <3>1. kk < N - M => kk + M \in Index /\ ~(kk + M < kk)
      BY DEF Index
    <3> QED BY <2>3, <3>1
  <2>6. ~(kk < N - M) => x[kk + M - N] = new[kk + M - N]
    BY <2>3, Places
  <2>7. kk = N - 1 => x[0] = new[0]
    BY <2>3, Places
  <2>8. kk # N - 1 => x[kk + 1] = m[kk + 1]
    <3>1. kk # N - 1 => kk + 1 \in Index /\ ~(kk + 1 < kk)
      BY DEF Index
    <3> QED BY <2>3, <3>1
  <2> HIDE DEF x, new
  <2>9. new[kk] = BitXor(IF kk < N - M THEN x[kk + M] ELSE x[kk + M - N],
                         Twist(x[kk], IF kk = N - 1 THEN x[0] ELSE x[kk + 1]))
    BY <2>2 DEF Overwrite, Blocks
  <2> QED BY <2>4, <2>5, <2>6, <2>7, <2>8, <2>9
<1>12. new = [kk \in Index |-> new[kk]]
  OBVIOUS
<1> HIDE DEF new
<1>13. NextBlock(new, m)
  BY <1>11, <1>12, Zenon DEF NextBlock
<1> QED BY <1>13

LEMMA BlockIs ==
    ASSUME NEW m \in Blocks
    PROVE  /\ Block(m) \in Blocks
           /\ \A kk \in Index :
                Block(m)[kk] = BitXor(IF kk < N - M THEN m[kk + M] ELSE Block(m)[kk + M - N],
                                      Twist(m[kk], IF kk = N - 1 THEN Block(m)[0] ELSE m[kk + 1]))
<1> DEFINE new == Block(m)
<1>1. NextBlock(new, m)
  BY NextBlockExists, BlockIsSome
<1> HIDE DEF new
<1>2. \A kk \in Index : new[kk] = BitXor(IF kk < N - M THEN m[kk + M] ELSE new[kk + M - N],
                                         Twist(m[kk], IF kk = N - 1 THEN new[0] ELSE m[kk + 1]))
  BY <1>1, Zenon DEF NextBlock
<1> DEFINE holds == {k \in 0 .. N : \A i \in Index : i < k => new[i] \in Words}
<1>3. 0 \in holds
  BY DEF Index
<1>4. ASSUME NEW k \in 1 .. N, k - 1 \in holds
      PROVE  k \in holds
  <2> DEFINE kk == k - 1
             v  == IF kk < N - M THEN m[kk + M] ELSE new[kk + M - N]
             l  == IF kk = N - 1 THEN new[0] ELSE m[kk + 1]
  <2>1. kk \in Index /\ \A i \in Index : i < k => i < kk \/ i = kk
    BY DEF Index
  <2>2. \A i \in Index : i < kk => new[i] \in Words
    BY <1>4
  <2>3. new[kk] = BitXor(v, Twist(m[kk], l))
    BY <1>2, <2>1
  <2> HIDE DEF kk
  <2>4. v \in Words /\ l \in Words /\ m[kk] \in Words
    BY <2>1, <2>2, Places DEF Blocks
  <2> HIDE DEF v, l
  <2>5. new[kk] \in Words
    BY <2>3, <2>4, TwistBits, WordsAre
  <2>6. \A i \in Index : i < k => new[i] \in Words
    BY <2>1, <2>2, <2>5
  <2> QED BY <2>6
<1>5. N \in holds
  <2>1. N \in Nat
    OBVIOUS
  <2>2. \A k \in 0 .. N : k \in holds
    <3> HIDE DEF holds
    <3> QED BY <1>3, <1>4, <2>1, Upwards
  <2> HIDE DEF holds
  <2> QED BY <2>2
<1>6. \A i \in Index : new[i] \in Words
  <2>1. \A i \in Index : i < N
    BY DEF Index
  <2> QED BY <1>5, <2>1
<1>7. new = [kk \in Index |-> new[kk]]
  BY <1>1, Zenon DEF NextBlock
<1>8. new \in Blocks
  BY <1>6, <1>7, Zenon DEF Blocks
<1> QED BY <1>2, <1>8 DEF new

-----------------------------------------------------------------------------
(* The recurrence                                                           *)

Recents == [1 .. N -> Words]

LEMMA RecurredIs ==
    ASSUME NEW x \in Recents
    PROVE  /\ Recurred(x) \in Recents
           /\ \A j \in 1 .. N - 1 : Recurred(x)[j] = x[j + 1]
           /\ Recurred(x)[N] = BitXor(x[M + 1], Twist(x[1], x[2]))
<1> DEFINE w == BitXor(x[M + 1], Twist(x[1], x[2]))
           t == Tail(x)
<1>1. w \in Words
  <2>1. x[M + 1] \in Words /\ x[1] \in Words /\ x[2] \in Words
    BY DEF Recents
  <2> QED BY <2>1, TwistBits, WordsAre
<1>2. x \in Seq(Words) /\ Len(x) = N /\ x # <<>>
  <2>1. x \in [1 .. N -> Words] /\ N \in Nat
    BY DEF Recents
  <2>2. x \in Seq(Words) /\ DOMAIN x = 1 .. N
    BY <2>1, SeqDef
  <2>3. Len(x) = N
    BY <2>1, <2>2, LenProperties
  <2> QED BY <2>2, <2>3
<1>3. t \in Seq(Words) /\ Len(t) = N - 1 /\ \A j \in 1 .. N - 1 : t[j] = x[j + 1]
  BY <1>2, HeadTailProperties
<1> HIDE DEF t, w
<1>4. Append(t, w) \in Seq(Words) /\ Len(Append(t, w)) = N
      /\ (\A j \in 1 .. N - 1 : Append(t, w)[j] = t[j]) /\ Append(t, w)[N] = w
  <2>1. Append(t, w) \in Seq(Words) /\ Len(Append(t, w)) = Len(t) + 1
        /\ (\A j \in 1 .. Len(t) : Append(t, w)[j] = t[j]) /\ Append(t, w)[Len(t) + 1] = w
    BY <1>1, <1>3, AppendProperties
  <2>2. (N - 1) + 1 = N
    OBVIOUS
  <2> QED BY <1>3, <2>1, <2>2
<1>5. Recurred(x) = Append(t, w)
  BY DEF Recurred, t, w
<1>6. Append(t, w) \in Recents
  <2> DEFINE a == Append(t, w)
  <2> HIDE DEF a
  <2>1. a \in Seq(Words) /\ Len(a) = N
    BY <1>4 DEF a
  <2>2. a \in [1 .. Len(a) -> Words]
    BY <2>1, LenProperties
  <2> QED BY <2>1, <2>2 DEF Recents, a
<1> QED BY <1>3, <1>4, <1>5, <1>6 DEF w

(* What MatchesRecurrence says of the fixed point.                           *)
Alive(x) == x[1] >= UPPER_MASK \/ \E i \in 2 .. N : x[i] # 0

LEMMA WordsCompare ==
    ASSUME NEW w \in Words
    PROVE  /\ ~(w >= UPPER_MASK) <=> ~Bit(w, Width - 1)
           /\ w = 0 <=> \A i \in 0 .. Width - 1 : ~Bit(w, i)
<1>1. ~(w >= UPPER_MASK) <=> ~Bit(w, Width - 1)
  BY EndBits
<1>2. 0 \in Words
  BY Masks
<1>3. ASSUME \A i \in 0 .. Width - 1 : ~Bit(w, i)
      PROVE  w = 0
  BY <1>2, <1>3, ZeroBits, SameBits
<1> QED BY <1>1, <1>3, ZeroBits

(* A word that is xored to zero is the other one.                            *)
LEMMA XoredToZero ==
    ASSUME NEW v \in Words, NEW w \in Words, BitXor(v, w) = 0
    PROVE  v = w
<1>1. \A i \in 0 .. Width - 1 : Bit(v, i) <=> Bit(w, i)
  BY ZeroBits, BitAssumption DEF BitAssumption
<1> QED BY <1>1, SameBits

(* Only the fixed point leads to it.                                        *)
LEMMA StaysAlive ==
    ASSUME NEW x \in Recents, Alive(x)
    PROVE  Alive(Recurred(x))
<1> DEFINE u == x[1]
           l == x[2]
           y == Recurred(x)
<1>1. SUFFICES ASSUME ~Alive(y)
               PROVE  FALSE
  OBVIOUS
<1>2. /\ y[1] = l /\ \A j \in 3 .. N : y[j - 1] = x[j]
      /\ y[N] = BitXor(x[M + 1], Twist(u, l))
  <2>1. \A j \in 2 .. N : j - 1 \in 1 .. N - 1 /\ (j - 1) + 1 = j
    OBVIOUS
  <2>2. \A j \in 2 .. N : y[j - 1] = x[j]
    BY <2>1, RecurredIs
  <2>3. 2 \in 2 .. N /\ 2 - 1 = 1
    OBVIOUS
  <2>4. y[1] = l
    BY <2>2, <2>3
  <2> HIDE DEF u, l, y
  <2> QED BY <2>2, <2>4, RecurredIs DEF u, l, y
<1>3. u \in Words /\ l \in Words /\ x[M + 1] \in Words
  BY DEF Recents
<1> HIDE DEF y
<1>4. ~(l >= UPPER_MASK) /\ (\A j \in 3 .. N : x[j] = 0) /\ BitXor(x[M + 1], Twist(u, l)) = 0
  <2>1. \A i \in 2 .. N : y[i] = 0
    BY <1>1 DEF Alive
  <2>2. ~(y[1] >= UPPER_MASK)
    BY <1>1 DEF Alive
  <2>3. \A j \in 3 .. N : j - 1 \in 2 .. N
    OBVIOUS
  <2>4. N \in 2 .. N
    OBVIOUS
  <2> QED BY <1>2, <2>1, <2>2, <2>3, <2>4
<1>5. Twist(u, l) \in Words
  BY <1>3, TwistBits
<1>6. x[M + 1] = Twist(u, l)
  BY <1>3, <1>4, <1>5, XoredToZero
<1>7. ~Bit(l, Width - 1)
  BY <1>3, <1>4, WordsCompare
<1>8. Width - 1 \in 0 .. Width - 1 /\ 0 \in 0 .. Width - 1
  OBVIOUS
<1> DEFINE v == x[M + 1]
<1>9. ~Bit(v, Width - 1)
  <2>1. CASE M = 1
    <3>1. M + 1 = 2
      BY <2>1
    <3> QED BY <1>7, <3>1
  <2>2. CASE M # 1
    <3>1. M + 1 \in 3 .. N
      BY <2>2
    <3> QED BY <1>4, <1>8, <3>1, ZeroBits
  <2> QED BY <2>1, <2>2
<1>10. ~Bit(l, 0)
  BY <1>3, <1>6, <1>9, TwistBits
<1>11. \A i \in 0 .. Width - 2 : Bit(v, i) <=> Bit(Spliced(u, l), i + 1)
  BY <1>3, <1>6, <1>10, TwistBits
<1> HIDE DEF v
<1>12. \A i \in 0 .. Width - 2 : Bit(v, i) <=> IF i + 1 = Width - 1 THEN Bit(u, i + 1) ELSE Bit(l, i + 1)
  <2>1. \A i \in 0 .. Width - 2 : i + 1 \in 0 .. Width - 1
    OBVIOUS
  <2> QED BY <1>3, <1>11, <2>1, SplicedBits
<1>13. \A i \in 0 .. Width - 2 : ~Bit(v, i)
  <2>1. CASE M = 1
    <3>1. v = l
      <4>1. M + 1 = 2
        BY <2>1
      <4> QED BY <4>1 DEF v
    <3> DEFINE holds == {i \in 0 .. Width - 2 : ~Bit(l, i)}
    <3>2. 0 \in holds
      <4>1. 0 \in 0 .. Width - 2
        OBVIOUS
      <4> QED BY <1>10, <4>1
    <3>3. ASSUME NEW i \in 1 .. Width - 2, i - 1 \in holds
          PROVE  i \in holds
      <4>1. i - 1 \in 0 .. Width - 2 /\ (i - 1) + 1 = i /\ i # Width - 1 /\ i \in 0 .. Width - 2
        OBVIOUS
      <4>2. Bit(v, i - 1) <=> Bit(l, i)
        BY <1>12, <4>1
      <4> QED BY <3>1, <3>3, <4>1, <4>2
    <3>4. \A i \in 0 .. Width - 2 : i \in holds
      <4>1. Width - 2 \in Nat
        OBVIOUS
      <4> HIDE DEF holds
      <4> QED BY <3>2, <3>3, <4>1, Upwards
    <3> QED BY <3>1, <3>4
  <2>2. CASE M # 1
    <3>1. v = 0
      <4>1. M + 1 \in 3 .. N
        BY <2>2
      <4> QED BY <1>4, <4>1 DEF v
    <3>2. \A i \in 0 .. Width - 2 : i \in 0 .. Width - 1
      OBVIOUS
    <3> QED BY <3>1, <3>2, ZeroBits
  <2> QED BY <2>1, <2>2
<1>14. ~(u >= UPPER_MASK)
  <2>1. Width - 2 \in 0 .. Width - 2 /\ (Width - 2) + 1 = Width - 1
    OBVIOUS
  <2>2. ~Bit(u, Width - 1)
    BY <1>12, <1>13, <2>1
  <2> QED BY <1>3, <2>2, WordsCompare
<1>15. l = 0
  <2>1. ASSUME NEW i \in 0 .. Width - 1
        PROVE  ~Bit(l, i)
    <3>1. CASE i = 0
      BY <1>10, <3>1
    <3>2. CASE i = Width - 1
      BY <1>7, <3>2
    <3>3. CASE i # 0 /\ i # Width - 1
      <4>1. i - 1 \in 0 .. Width - 2 /\ (i - 1) + 1 = i
        BY <3>3
      <4>2. Bit(v, i - 1) <=> Bit(l, i)
        BY <1>12, <3>3, <4>1
      <4> QED BY <1>13, <4>1, <4>2
    <3> QED BY <3>1, <3>2, <3>3
  <2> QED BY <1>3, <2>1, WordsCompare
<1>16. \A i \in 2 .. N : x[i] = 0
  <2>1. \A i \in 2 .. N : i = 2 \/ i \in 3 .. N
    OBVIOUS
  <2> QED BY <1>4, <1>15, <2>1
<1> QED BY <1>14, <1>16 DEF Alive

-----------------------------------------------------------------------------
(* The generator                                                            *)

(* What a generator is between two calls.                                   *)
Generators == [mt : Blocks, mti : 1 .. N]

(* The words that were taken are the end of the sequence: those of this      *)
(* block, and before them those of the block it was made of.                 *)
Windows(x, m, old, n) ==
    \A j \in 1 .. N : x[j] = IF (n - 1 - N) + j >= 0 THEN m[(n - 1 - N) + j] ELSE old[(n - 1) + j]

(* The sequence x and the words the generator g gave out: old is the block  *)
(* before, which the current one has overwritten.                           *)
Follows(g, x) ==
    \E old \in Blocks : (g.mti = N \/ g.mt = Block(old)) /\ Windows(x, g.mt, old, g.mti)

LEMMA DrawnIs ==
    ASSUME NEW g \in Generators
    PROVE  /\ Drawn(g) \in Generators
           /\ Drawn(g).mti = IF g.mti >= N THEN 1 ELSE g.mti + 1
           /\ Drawn(g).mt = IF g.mti >= N THEN Block(g.mt) ELSE g.mt
<1>1. g.mt \in Blocks /\ g.mti \in 1 .. N
  BY DEF Generators
<1>2. CASE g.mti >= N
  <2>1. Drawn(g) = [mt |-> Block(g.mt), mti |-> 1]
    BY <1>2 DEF Drawn
  <2>2. Block(g.mt) \in Blocks /\ 1 \in 1 .. N
    BY <1>1, BlockIs
  <2> QED BY <1>2, <2>1, <2>2 DEF Generators
<1>3. CASE ~(g.mti >= N)
  <2>1. Drawn(g) = [g EXCEPT !.mti = g.mti + 1]
    BY <1>3 DEF Drawn
  <2>2. g.mti + 1 \in 1 .. N
    BY <1>1, <1>3
  <2>3. Drawn(g).mti = g.mti + 1 /\ Drawn(g).mt = g.mt
    BY <2>1 DEF Generators
  <2> QED BY <1>3, <2>1, <2>2, <2>3 DEF Generators
<1> QED BY <1>2, <1>3

LEMMA DrawnFollows ==
    ASSUME NEW g \in Generators, NEW x \in Recents, Follows(g, x)
    PROVE  Follows(Drawn(g), Recurred(x))
<1> DEFINE m == g.mt
           n == g.mti
           d == Drawn(g)
           y == Recurred(x)
<1>1. m \in Blocks /\ n \in 1 .. N
  BY DEF Generators
<1>2. PICK old \in Blocks : (n = N \/ m = Block(old)) /\ Windows(x, m, old, n)
  BY DEF Follows
<1>3. (\A j \in 1 .. N - 1 : y[j] = x[j + 1]) /\ y[N] = BitXor(x[M + 1], Twist(x[1], x[2]))
  BY RecurredIs
<1>4. d.mti = (IF n >= N THEN 1 ELSE n + 1) /\ d.mt = (IF n >= N THEN Block(m) ELSE m)
  BY DrawnIs
<1>5. 1 \in 1 .. N /\ 2 \in 1 .. N /\ M + 1 \in 1 .. N
  OBVIOUS
<1> HIDE DEF m, n, d, y
<1>6. \A j \in 1 .. N : x[j] = IF (n - 1 - N) + j >= 0 THEN m[(n - 1 - N) + j] ELSE old[(n - 1) + j]
  BY <1>2 DEF Windows
<1>7. CASE n = N
  <2> DEFINE new == Block(m)
  <2>1. new[0] = BitXor(m[M], Twist(m[0], m[1]))
    <3>1. 0 \in Index /\ 0 < N - M /\ 0 # N - 1 /\ 0 + M = M /\ 0 + 1 = 1
      BY DEF Index
    <3> QED BY <1>1, <3>1, BlockIs
  <2>2. \A j \in 1 .. N : x[j] = m[j - 1]
    <3>1. \A j \in 1 .. N : (n - 1 - N) + j = j - 1 /\ j - 1 >= 0
      BY <1>7
    <3> QED BY <1>6, <3>1
  <2>3. x[1] = m[0] /\ x[2] = m[1] /\ x[M + 1] = m[M]
    <3>1. 1 - 1 = 0 /\ 2 - 1 = 1 /\ (M + 1) - 1 = M
      OBVIOUS
    <3> QED BY <1>5, <2>2, <3>1
  <2>4. d.mti = 1 /\ d.mt = new
    BY <1>4, <1>7
  <2> HIDE DEF new
  <2>5. ASSUME NEW j \in 1 .. N
        PROVE  y[j] = IF (1 - 1 - N) + j >= 0 THEN new[(1 - 1 - N) + j] ELSE m[(1 - 1) + j]
    <3>1. CASE j = N
      <4>1. (1 - 1 - N) + j = 0
        BY <3>1
      <4> QED BY <1>3, <2>1, <2>3, <3>1, <4>1
    <3>2. CASE j # N
      <4>1. j \in 1 .. N - 1 /\ ~((1 - 1 - N) + j >= 0) /\ (1 - 1) + j = j /\ (j + 1) - 1 = j /\ j + 1 \in 1 .. N
        BY <3>2
      <4> QED BY <1>3, <2>2, <4>1
    <3> QED BY <3>1, <3>2
  <2>6. Windows(y, d.mt, m, d.mti)
    BY <2>4, <2>5 DEF Windows
  <2> QED BY <1>1, <2>4, <2>6 DEF Follows, d, y, new
<1>8. CASE n # N
  <2>1. d.mti = n + 1 /\ d.mt = m /\ m = Block(old) /\ n \in Index
    BY <1>1, <1>2, <1>4, <1>8 DEF Index
  <2>2. m[n] = BitXor(IF n < N - M THEN old[n + M] ELSE m[n + M - N],
                      Twist(old[n], IF n = N - 1 THEN m[0] ELSE old[n + 1]))
    BY <2>1, BlockIs
  <2>3. x[1] = old[n]
    <3>1. ~((n - 1 - N) + 1 >= 0) /\ (n - 1) + 1 = n
      BY <1>1, <1>8
    <3> QED BY <1>5, <1>6, <3>1
  <2>4. x[2] = IF n = N - 1 THEN m[0] ELSE old[n + 1]
    <3>1. ((n - 1 - N) + 2 >= 0 <=> n = N - 1) /\ (n - 1) + 2 = n + 1 /\ (n = N - 1 => (n - 1 - N) + 2 = 0)
      BY <1>1, <1>8
    <3> QED BY <1>5, <1>6, <3>1
  <2>5. x[M + 1] = IF n < N - M THEN old[n + M] ELSE m[n + M - N]
    <3>1. n \in Int /\ M \in Int /\ N \in Int
      BY <1>1
    <3>2. (n - 1 - N) + (M + 1) >= 0 <=> ~(n < N - M)
      BY <3>1
    <3>3. (n - 1) + (M + 1) = n + M
      BY <3>1
    <3>4. (n - 1 - N) + (M + 1) = n + M - N
      BY <3>1
    <3> QED BY <1>5, <1>6, <3>2, <3>3, <3>4
  <2>6. y[N] = m[n]
    BY <1>3, <2>2, <2>3, <2>4, <2>5
  <2>7. ASSUME NEW j \in 1 .. N
        PROVE  y[j] = IF ((n + 1) - 1 - N) + j >= 0 THEN m[((n + 1) - 1 - N) + j] ELSE old[((n + 1) - 1) + j]
    <3>1. CASE j = N
      <4>1. ((n + 1) - 1 - N) + j = n /\ n >= 0
        BY <1>1, <3>1
      <4> QED BY <2>6, <3>1, <4>1
    <3>2. CASE j # N
      <4>1. j \in 1 .. N - 1 /\ j + 1 \in 1 .. N /\ j \in Int /\ n \in Int /\ N \in Int
        BY <1>1, <3>2
      <4>2. ((n + 1) - 1 - N) + j = (n - 1 - N) + (j + 1)
        BY <4>1
      <4>3. ((n + 1) - 1) + j = (n - 1) + (j + 1)
        BY <4>1
      <4> QED BY <1>3, <1>6, <4>1, <4>2, <4>3
    <3> QED BY <3>1, <3>2
  <2>8. Windows(y, d.mt, old, d.mti)
    BY <2>1, <2>7 DEF Windows
  <2> QED BY <2>1, <2>8 DEF Follows, d, y
<1> QED BY <1>7, <1>8

-----------------------------------------------------------------------------
(* The sequence and the blocks                                              *)

(* The invariant of the generator.                                          *)
RandomInv ==
    /\ Generator \in Generators /\ recent \in Recents
    /\ Follows(Generator, recent) /\ Alive(recent)

LEMMA NewRandom ==
    ASSUME NEW m \in Blocks, New(m), m[0] >= UPPER_MASK \/ m[1] # 0 \/ m[2] # 0
    PROVE  RandomInv
<1>1. mt = m /\ mti = N /\ recent = [j \in 1 .. N |-> m[j - 1]]
  BY DEF New
<1>2. \A j \in 1 .. N : j - 1 \in Index
  BY DEF Index
<1>3. recent \in Recents /\ \A j \in 1 .. N : recent[j] = m[j - 1]
  BY <1>1, <1>2 DEF Recents, Blocks
<1>4. Generator \in Generators /\ Generator.mt = m /\ Generator.mti = N
  BY <1>1 DEF Generator, Generators
<1>5. Windows(recent, m, m, N)
  <2>1. \A j \in 1 .. N : (N - 1 - N) + j = j - 1 /\ j - 1 >= 0
    OBVIOUS
  <2> QED BY <1>3, <2>1 DEF Windows
<1>6. Follows(Generator, recent)
  BY <1>4, <1>5 DEF Follows
<1>7. Alive(recent)
  <2>1. 1 \in 1 .. N /\ 2 \in 2 .. N /\ 3 \in 2 .. N /\ 2 \in 1 .. N /\ 3 \in 1 .. N
        /\ 1 - 1 = 0 /\ 2 - 1 = 1 /\ 3 - 1 = 2
    OBVIOUS
  <2>2. recent[1] = m[0] /\ recent[2] = m[1] /\ recent[3] = m[2]
    BY <1>3, <2>1
  <2> QED BY <2>1, <2>2 DEF Alive
<1> QED BY <1>3, <1>4, <1>6, <1>7 DEF RandomInv

LEMMA InitRandomInv == InitRandom => RandomInv
<1> SUFFICES ASSUME InitRandom
             PROVE  RandomInv
  OBVIOUS
<1>1. CASE \E seed \in Seeds : New(SetSeed(seed))
  <2>1. PICK seed \in Seeds : New(SetSeed(seed))
    BY <1>1
  <2>2. SetSeed(seed) \in Blocks /\ (SetSeed(seed)[1] # 0 \/ SetSeed(seed)[2] # 0)
    <3>1. seed \in Words
      OBVIOUS
    <3> QED BY <3>1, SeedIs
  <2> QED BY <2>1, <2>2, NewRandom
<1>2. CASE \E seed \in SeedArrays : New(SetSeedArray(seed))
  <2>1. PICK seed \in SeedArrays : New(SetSeedArray(seed))
    BY <1>2
  <2>2. SetSeedArray(seed) \in Blocks /\ SetSeedArray(seed)[0] >= UPPER_MASK
    BY ArraySeedIs, Masks
  <2> QED BY <2>1, <2>2, NewRandom
<1> QED BY <1>1, <1>2 DEF InitRandom

LEMMA GeneratorIs == Generator.mt = mt /\ Generator.mti = mti
BY DEF Generator

LEMMA YieldInteger ==
    ASSUME RandomInv, RNGyieldInteger32
    PROVE  RandomInv'
<1> DEFINE g == Drawn(Generator)
           x == Recurred(recent)
<1>1. g \in Generators /\ x \in Recents /\ Follows(g, x) /\ Alive(x)
  BY DrawnIs, RecurredIs, DrawnFollows, StaysAlive DEF RandomInv
<1>2. mt' = g.mt /\ mti' = g.mti /\ recent' = x
  BY DEF RNGyieldInteger32
<1> HIDE DEF g, x
<1>3. Generator' = g
  BY <1>1, <1>2 DEF Generator, Generators
<1> QED BY <1>1, <1>2, <1>3 DEF RandomInv

LEMMA YieldDouble ==
    ASSUME RandomInv, RNGyieldDouble
    PROVE  RandomInv'
<1> DEFINE d == Drawn(Generator)
           y == Recurred(recent)
<1>1. d \in Generators /\ y \in Recents /\ Follows(d, y) /\ Alive(y)
  BY DrawnIs, RecurredIs, DrawnFollows, StaysAlive DEF RandomInv
<1> DEFINE g == Drawn(d)
           x == Recurred(y)
<1>2. mt' = g.mt /\ mti' = g.mti /\ recent' = x
  BY DEF RNGyieldDouble
<1> HIDE DEF d, y
<1>3. g \in Generators /\ x \in Recents /\ Follows(g, x) /\ Alive(x)
  BY <1>1, DrawnIs, RecurredIs, DrawnFollows, StaysAlive
<1> HIDE DEF g, x
<1>4. Generator' = g
  BY <1>2, <1>3 DEF Generator, Generators
<1> QED BY <1>2, <1>3, <1>4 DEF RandomInv

LEMMA StepRandom == RandomInv /\ [Next]_vars => RandomInv'
<1> SUFFICES ASSUME RandomInv, [Next]_vars
             PROVE  RandomInv'
  OBVIOUS
<1>1. ASSUME UNCHANGED rngVars
      PROVE  RandomInv'
  BY <1>1 DEF rngVars, RandomInv, Generator
<1>2. CASE InsertRand
  BY <1>2, YieldInteger DEF InsertRand
<1>3. CASE InsertPlain
  BY <1>1, <1>3 DEF InsertPlain
<1>4. ASSUME NEW lev \in 1 .. maxlevel, Delete(lev)
      PROVE  RandomInv'
  BY <1>1, <1>4 DEF Delete
<1>5. CASE DrawDouble
  BY <1>5, YieldDouble DEF DrawDouble
<1>6. CASE UNCHANGED vars
  BY <1>1, <1>6 DEF vars
<1> QED BY <1>2, <1>3, <1>4, <1>5, <1>6 DEF Next

LEMMA Matches == RandomInv => MatchesRecurrence
<1> SUFFICES ASSUME RandomInv
             PROVE  MatchesRecurrence
  OBVIOUS
<1>1. mt \in Blocks /\ mti \in 1 .. N
  BY GeneratorIs DEF RandomInv, Generators
<1>2. PICK old \in Blocks : Windows(recent, mt, old, mti)
  BY GeneratorIs DEF RandomInv, Follows
<1>3. recent[N] = mt[mti - 1]
  <2>1. N \in 1 .. N /\ (mti - 1 - N) + N = mti - 1 /\ mti - 1 >= 0
    BY <1>1
  <2> QED BY <1>2, <2>1 DEF Windows
<1>4. recent[1] >= UPPER_MASK \/ \E i \in 2 .. N : recent[i] # 0
  BY DEF RandomInv, Alive
<1> QED BY <1>3, <1>4 DEF MatchesRecurrence

-----------------------------------------------------------------------------
(* The loops of genLevel                                                    *)

(* f climbs from each level to the next one that is among stops.             *)
Climbs(f, stops, top) == \A lev \in 1 .. top : f[lev] = IF lev \in stops THEN lev ELSE f[lev + 1]

LEMMA ClimbExists ==
    ASSUME NEW top \in Nat \ {0}, NEW stops, top \in stops
    PROVE  \E f : f = [lev \in 1 .. top |-> f[lev]] /\ Climbs(f, stops, top)
<1> DEFINE from(lev) == {k \in lev .. top : k \in stops}
           First(s, lev) == s \in from(lev) /\ \A k \in from(lev) : s <= k
           f == [lev \in 1 .. top |-> CHOOSE s : First(s, lev)]
<1>1. ASSUME NEW lev \in 1 .. top
      PROVE  f[lev] = IF lev \in stops THEN lev ELSE f[lev + 1]
  <2>1. CASE lev \in stops
    <3>1. First(lev, lev)
      BY <2>1
    <3>2. \A s : First(s, lev) => s = lev
      BY <3>1
    <3>3. f[lev] = CHOOSE s : First(s, lev)
      OBVIOUS
    <3> HIDE DEF First, f
    <3>4. First(f[lev], lev)
      BY <3>1, <3>3, Zenon
    <3> QED BY <2>1, <3>2, <3>4
  <2>2. CASE lev \notin stops
    <3>1. lev + 1 \in 1 .. top /\ from(lev) = from(lev + 1)
      BY <2>2
    <3>2. f[lev] = (CHOOSE s : First(s, lev)) /\ f[lev + 1] = (CHOOSE s : First(s, lev + 1))
      BY <3>1
    <3> HIDE DEF from, f
    <3>3. f[lev] = f[lev + 1]
      BY <3>1, <3>2, Zenon
    <3> QED BY <2>2, <3>3
  <2> QED BY <2>1, <2>2
<1>2. f = [lev \in 1 .. top |-> f[lev]]
  OBVIOUS
<1> HIDE DEF f
<1> QED BY <1>1, <1>2 DEF Climbs

LEMMA ClimbIs ==
    ASSUME NEW top \in Nat \ {0}, NEW stops, top \in stops, NEW f, Climbs(f, stops, top)
    PROVE  f[1] \in 1 .. top /\ f[1] \in stops /\ \A k \in 1 .. top : k < f[1] => k \notin stops
<1> DEFINE Good(lev) == /\ f[lev] \in lev .. top /\ f[lev] \in stops
                        /\ \A k \in lev .. top : k < f[lev] => k \notin stops
           holds == {j \in 0 .. top - 1 : Good(top - j)}
<1>1. 0 \in holds
  <2>1. top - 0 = top /\ 0 \in 0 .. top - 1 /\ top \in 1 .. top
    OBVIOUS
  <2>2. f[top] = top
    BY <2>1 DEF Climbs
  <2>3. Good(top)
    BY <2>2
  <2> HIDE DEF Good
  <2> QED BY <2>1, <2>3
<1>2. ASSUME NEW j \in 1 .. top - 1, j - 1 \in holds
      PROVE  j \in holds
  <2> DEFINE lev == top - j
  <2>1. lev \in 1 .. top /\ lev + 1 \in 1 .. top /\ top - (j - 1) = lev + 1 /\ j \in 0 .. top - 1
    OBVIOUS
  <2>2. Good(lev + 1)
    <3> HIDE DEF Good, lev
    <3> QED BY <1>2, <2>1
  <2> HIDE DEF lev
  <2>3. f[lev] = IF lev \in stops THEN lev ELSE f[lev + 1]
    BY <2>1 DEF Climbs
  <2>4. Good(lev)
    <3>1. CASE lev \in stops
      <4>1. f[lev] = lev
        BY <2>3, <3>1
      <4> QED BY <2>1, <3>1, <4>1
    <3>2. CASE lev \notin stops
      <4>1. f[lev] = f[lev + 1]
        BY <2>3, <3>2
      <4>2. f[lev] \in lev + 1 .. top /\ f[lev] \in stops /\ \A k \in lev + 1 .. top : k < f[lev] => k \notin stops
        BY <2>2, <4>1
      <4>3. \A k \in lev .. top : k = lev \/ k \in lev + 1 .. top
        BY <2>1
      <4>4. f[lev] \in lev .. top
        BY <2>1, <4>2
      <4> QED BY <3>2, <4>2, <4>3, <4>4
    <3> QED BY <3>1, <3>2
  <2> HIDE DEF Good
  <2> QED BY <2>1, <2>4 DEF lev
<1>3. \A j \in 0 .. top - 1 : j \in holds
  <2>1. top - 1 \in Nat
    OBVIOUS
  <2> HIDE DEF holds
  <2> QED BY <1>1, <1>2, <2>1, Upwards
<1>4. Good(1)
  <2>1. top - 1 \in 0 .. top - 1 /\ top - (top - 1) = 1
    OBVIOUS
  <2>2. top - 1 \in holds
    <3> HIDE DEF holds
    <3> QED BY <1>3, <2>1
  <2>3. Good(top - (top - 1))
    <3> HIDE DEF Good
    <3> QED BY <2>2
  <2> HIDE DEF Good
  <2> QED BY <2>1, <2>3
<1> QED BY <1>4

RandUp(f, t) ==
    f = [lev \in 1 .. maxlevel |->
           IF lev = maxlevel \/ t > RAND_MAX_N \div PowerOf2[lev] \/ lev > curlevel THEN lev ELSE f[lev + 1]]

LEMMA RandLevelIsSome ==
    ASSUME NEW t, \E f : RandUp(f, t)
    PROVE  \E f : RandUp(f, t) /\ RandLevel(t) = f[1]
<1> DEFINE f == CHOOSE f : RandUp(f, t)
<1>1. RandUp(f, t)
  BY Zenon
<1>2. RandLevel(t) = f[1]
  BY Zenon DEF RandLevel, RandUp
<1> QED BY <1>1, <1>2

(* The first level at which the loop ends.                                  *)
LEMMA RandLevelIs ==
    ASSUME NEW t, maxlevel \in Nat \ {0}
    PROVE  /\ RandLevel(t) \in 1 .. maxlevel
           /\ \A k \in 0 .. maxlevel - 1 :
                RandLevel(t) > k <=>
                  \A lev \in 1 .. k : ~(t > RAND_MAX_N \div PowerOf2[lev]) /\ ~(lev > curlevel)
<1> DEFINE Stop(lev) == lev = maxlevel \/ t > RAND_MAX_N \div PowerOf2[lev] \/ lev > curlevel
           stops == {lev \in 1 .. maxlevel : Stop(lev)}
<1>1. maxlevel \in stops
  OBVIOUS
<1>2. \A lev \in 1 .. maxlevel : lev \in stops <=> Stop(lev)
  OBVIOUS
<1>3. \E f : RandUp(f, t)
  <2> HIDE DEF stops
  <2>1. PICK f : f = [lev \in 1 .. maxlevel |-> f[lev]] /\ Climbs(f, stops, maxlevel)
    BY <1>1, ClimbExists
  <2>2. \A lev \in 1 .. maxlevel :
           f[lev] = IF lev = maxlevel \/ t > RAND_MAX_N \div PowerOf2[lev] \/ lev > curlevel THEN lev ELSE f[lev + 1]
    <3> HIDE DEF Stop
    <3>1. \A lev \in 1 .. maxlevel : f[lev] = IF Stop(lev) THEN lev ELSE f[lev + 1]
      BY <1>2, <2>1 DEF Climbs
    <3> QED BY <3>1, Zenon DEF Stop
  <2>3. RandUp(f, t)
    BY <2>1, <2>2, Zenon DEF RandUp
  <2> QED BY <2>3
<1>4. PICK f : RandUp(f, t) /\ RandLevel(t) = f[1]
  BY <1>3, RandLevelIsSome
<1>5. Climbs(f, stops, maxlevel)
  <2>1. \A lev \in 1 .. maxlevel : f[lev] = IF Stop(lev) THEN lev ELSE f[lev + 1]
    BY <1>4, Zenon DEF RandUp
  <2> HIDE DEF stops, Stop
  <2> QED BY <1>2, <2>1 DEF Climbs
<1> DEFINE r == RandLevel(t)
<1>6. r \in 1 .. maxlevel /\ r \in stops /\ \A k \in 1 .. maxlevel : k < r => k \notin stops
  <2> HIDE DEF stops
  <2> QED BY <1>1, <1>4, <1>5, ClimbIs
<1> HIDE DEF r
<1>7. ASSUME NEW k \in 0 .. maxlevel - 1
      PROVE  r > k <=> \A lev \in 1 .. k : ~(t > RAND_MAX_N \div PowerOf2[lev]) /\ ~(lev > curlevel)
  <2>1. \A lev \in 1 .. k : lev \in 1 .. maxlevel /\ lev # maxlevel
    OBVIOUS
  <2>2. ASSUME r > k, NEW lev \in 1 .. k
        PROVE  ~Stop(lev)
    <3>1. lev < r
      BY <1>6, <2>2
    <3> HIDE DEF stops, Stop
    <3> QED BY <1>2, <1>6, <2>1, <3>1
  <2>3. ASSUME ~(r > k)
        PROVE  \E lev \in 1 .. k : Stop(lev)
    <3>1. r \in 1 .. k
      BY <1>6, <2>3
    <3> HIDE DEF Stop
    <3> QED BY <1>6, <3>1
  <2>4. r > k <=> \A lev \in 1 .. k : ~Stop(lev)
    <3> HIDE DEF Stop
    <3> QED BY <2>2, <2>3
  <2> QED BY <2>1, <2>4, Zenon
<1> QED BY <1>6, <1>7 DEF r

PlainUp(f) ==
    f = [lev \in 1 .. maxlevel |->
           IF lev = maxlevel \/ nodenumelem[lev] * PowerOf2[lev] < nodenum THEN lev ELSE f[lev + 1]]

LEMMA PlainLevelIsSome ==
    ASSUME \E f : PlainUp(f)
    PROVE  \E f : PlainUp(f) /\ PlainLevel = f[1]
<1> DEFINE f == CHOOSE f : PlainUp(f)
<1>1. PlainUp(f)
  BY Zenon
<1>2. PlainLevel = f[1]
  BY Zenon DEF PlainLevel, PlainUp
<1> QED BY <1>1, <1>2

(* The highest level, or one that has less than its share.                  *)
LEMMA PlainLevelIs ==
    ASSUME maxlevel \in Nat \ {0}
    PROVE  /\ PlainLevel \in 1 .. maxlevel
           /\ PlainLevel = maxlevel \/ nodenumelem[PlainLevel] * PowerOf2[PlainLevel] < nodenum
<1> DEFINE Stop(lev) == lev = maxlevel \/ nodenumelem[lev] * PowerOf2[lev] < nodenum
           stops == {lev \in 1 .. maxlevel : Stop(lev)}
<1>1. maxlevel \in stops
  OBVIOUS
<1>2. \A lev \in 1 .. maxlevel : lev \in stops <=> Stop(lev)
  OBVIOUS
<1>3. \E f : PlainUp(f)
  <2> HIDE DEF stops
  <2>1. PICK f : f = [lev \in 1 .. maxlevel |-> f[lev]] /\ Climbs(f, stops, maxlevel)
    BY <1>1, ClimbExists
  <2>2. \A lev \in 1 .. maxlevel :
           f[lev] = IF lev = maxlevel \/ nodenumelem[lev] * PowerOf2[lev] < nodenum THEN lev ELSE f[lev + 1]
    <3> HIDE DEF Stop
    <3>1. \A lev \in 1 .. maxlevel : f[lev] = IF Stop(lev) THEN lev ELSE f[lev + 1]
      BY <1>2, <2>1 DEF Climbs
    <3> QED BY <3>1, Zenon DEF Stop
  <2>3. PlainUp(f)
    BY <2>1, <2>2, Zenon DEF PlainUp
  <2> QED BY <2>3
<1>4. PICK f : PlainUp(f) /\ PlainLevel = f[1]
  BY <1>3, PlainLevelIsSome
<1>5. Climbs(f, stops, maxlevel)
  <2>1. \A lev \in 1 .. maxlevel : f[lev] = IF Stop(lev) THEN lev ELSE f[lev + 1]
    BY <1>4, Zenon DEF PlainUp
  <2> HIDE DEF stops, Stop
  <2> QED BY <1>2, <2>1 DEF Climbs
<1>6. f[1] \in stops
  <2> HIDE DEF stops
  <2> QED BY <1>1, <1>5, ClimbIs
<1> QED BY <1>4, <1>6

USE LevelAssumption DEF LevelAssumption

-----------------------------------------------------------------------------
(* How many nodes there are                                                 *)

Heights == 1 .. MYSKL_MAXLEVELS

(* total[k] is the number of nodes of at most k levels, n that of all.       *)
Sums(total, lv, n) ==
    /\ total \in [0 .. MYSKL_MAXLEVELS -> Nat]
    /\ total[0] = 0 /\ total[MYSKL_MAXLEVELS] = n
    /\ \A k \in Heights : total[k] = total[k - 1] + lv[k]

LEMMA SumBounds ==
    ASSUME NEW lv \in [Heights -> Nat], NEW n, NEW total, Sums(total, lv, n)
    PROVE  /\ \A j \in 0 .. MYSKL_MAXLEVELS : \A k \in Heights : k <= j => lv[k] <= total[j]
           /\ n \in Nat /\ \A k \in Heights : lv[k] <= n
<1> DEFINE holds == {j \in 0 .. MYSKL_MAXLEVELS : \A k \in Heights : k <= j => lv[k] <= total[j]}
<1>1. 0 \in holds
  BY DEF Heights
<1>2. ASSUME NEW j \in 1 .. MYSKL_MAXLEVELS, j - 1 \in holds
      PROVE  j \in holds
  <2>1. j \in Heights /\ j - 1 \in 0 .. MYSKL_MAXLEVELS
    BY DEF Heights
  <2> DEFINE a == total[j - 1]
             b == lv[j]
             c == total[j]
  <2>2. a \in Nat /\ b \in Nat /\ c = a + b
    BY <2>1 DEF Sums
  <2>3. ASSUME NEW k \in Heights, k <= j
        PROVE  lv[k] <= c
    <3>1. CASE k = j
      <4> HIDE DEF a, b, c
      <4>1. b <= c
        BY <2>2
      <4> QED BY <3>1, <4>1 DEF b
    <3>2. CASE k # j
      <4>1. k <= j - 1
        BY <2>3, <3>2 DEF Heights
      <4>2. lv[k] <= a /\ lv[k] \in Nat
        BY <1>2, <4>1
      <4> HIDE DEF a, b, c
      <4> QED BY <2>2, <4>2
    <3> QED BY <3>1, <3>2
  <2> QED BY <2>3
<1>3. \A j \in 0 .. MYSKL_MAXLEVELS : j \in holds
  <2>1. MYSKL_MAXLEVELS \in Nat
    OBVIOUS
  <2> HIDE DEF holds
  <2> QED BY <1>1, <1>2, <2>1, Upwards
<1>4. MYSKL_MAXLEVELS \in 0 .. MYSKL_MAXLEVELS /\ \A k \in Heights : k <= MYSKL_MAXLEVELS
  BY DEF Heights
<1>5. n \in Nat
  BY <1>4 DEF Sums
<1> QED BY <1>3, <1>4, <1>5 DEF Sums

LEMMA SumAdds ==
    ASSUME NEW lv \in [Heights -> Nat], NEW n, NEW total, Sums(total, lv, n), NEW lev \in Heights
    PROVE  \E more : Sums(more, [lv EXCEPT ![lev] = @ + 1], n + 1)
<1> DEFINE more == [k \in 0 .. MYSKL_MAXLEVELS |-> IF k >= lev THEN total[k] + 1 ELSE total[k]]
           w    == [lv EXCEPT ![lev] = @ + 1]
<1>1. \A k \in 0 .. MYSKL_MAXLEVELS : total[k] \in Nat
  BY DEF Sums
<1>2. \A k \in 0 .. MYSKL_MAXLEVELS : more[k] = IF k >= lev THEN total[k] + 1 ELSE total[k]
  OBVIOUS
<1>3. more \in [0 .. MYSKL_MAXLEVELS -> Nat]
  BY <1>1
<1> HIDE DEF more
<1>4. 0 \in 0 .. MYSKL_MAXLEVELS /\ MYSKL_MAXLEVELS \in 0 .. MYSKL_MAXLEVELS
      /\ ~(0 >= lev) /\ MYSKL_MAXLEVELS >= lev
  BY DEF Heights
<1>5. more[0] = 0 /\ more[MYSKL_MAXLEVELS] = n + 1
  BY <1>2, <1>4 DEF Sums
<1>6. ASSUME NEW k \in Heights
      PROVE  more[k] = more[k - 1] + w[k]
  <2>1. k \in 0 .. MYSKL_MAXLEVELS /\ k - 1 \in 0 .. MYSKL_MAXLEVELS
    BY DEF Heights
  <2> DEFINE a == total[k]
             b == total[k - 1]
             c == lv[k]
  <2>2. a \in Nat /\ b \in Nat /\ c \in Nat /\ a = b + c
    BY <1>1, <2>1 DEF Sums
  <2>3. more[k] = (IF k >= lev THEN a + 1 ELSE a) /\ more[k - 1] = (IF k - 1 >= lev THEN b + 1 ELSE b)
    BY <1>2, <2>1
  <2>4. w[k] = IF k = lev THEN c + 1 ELSE c
    OBVIOUS
  <2> HIDE DEF a, b, c, w
  <2>5. k \in Int /\ lev \in Int
    BY DEF Heights
  <2> QED BY <2>2, <2>3, <2>4, <2>5
<1>7. Sums(more, w, n + 1)
  <2> HIDE DEF w
  <2> QED BY <1>3, <1>5, <1>6 DEF Sums
<1> QED BY <1>7

LEMMA SumDrops ==
    ASSUME NEW lv \in [Heights -> Nat], NEW n, NEW total, Sums(total, lv, n), NEW lev \in Heights, lv[lev] > 0
    PROVE  \E less : Sums(less, [lv EXCEPT ![lev] = @ - 1], n - 1)
<1> DEFINE less == [k \in 0 .. MYSKL_MAXLEVELS |-> IF k >= lev THEN total[k] - 1 ELSE total[k]]
           w    == [lv EXCEPT ![lev] = @ - 1]
<1>1. \A k \in 0 .. MYSKL_MAXLEVELS : total[k] \in Nat /\ (k >= lev => total[k] - 1 \in Nat)
  <2>1. \A k \in 0 .. MYSKL_MAXLEVELS : total[k] \in Nat
    BY DEF Sums
  <2>2. \A k \in 0 .. MYSKL_MAXLEVELS : lev <= k => lv[lev] <= total[k]
    BY SumBounds
  <2>3. lv[lev] \in Nat /\ lev \in Int
    BY DEF Heights
  <2> QED BY <2>1, <2>2, <2>3
<1>2. \A k \in 0 .. MYSKL_MAXLEVELS : less[k] = IF k >= lev THEN total[k] - 1 ELSE total[k]
  OBVIOUS
<1>3. less \in [0 .. MYSKL_MAXLEVELS -> Nat]
  BY <1>1
<1> HIDE DEF less
<1>4. 0 \in 0 .. MYSKL_MAXLEVELS /\ MYSKL_MAXLEVELS \in 0 .. MYSKL_MAXLEVELS
      /\ ~(0 >= lev) /\ MYSKL_MAXLEVELS >= lev
  BY DEF Heights
<1>5. less[0] = 0 /\ less[MYSKL_MAXLEVELS] = n - 1
  BY <1>2, <1>4 DEF Sums
<1>6. ASSUME NEW k \in Heights
      PROVE  less[k] = less[k - 1] + w[k]
  <2>1. k \in 0 .. MYSKL_MAXLEVELS /\ k - 1 \in 0 .. MYSKL_MAXLEVELS
    BY DEF Heights
  <2> DEFINE a == total[k]
             b == total[k - 1]
             c == lv[k]
  <2>2. a \in Nat /\ b \in Nat /\ c \in Nat /\ a = b + c
    BY <1>1, <2>1 DEF Sums
  <2>3. less[k] = (IF k >= lev THEN a - 1 ELSE a) /\ less[k - 1] = (IF k - 1 >= lev THEN b - 1 ELSE b)
    BY <1>2, <2>1
  <2>4. w[k] = IF k = lev THEN c - 1 ELSE c
    OBVIOUS
  <2> HIDE DEF a, b, c, w
  <2>5. k \in Int /\ lev \in Int
    BY DEF Heights
  <2> QED BY <2>2, <2>3, <2>4, <2>5
<1>7. Sums(less, w, n - 1)
  <2> HIDE DEF w
  <2> QED BY <1>3, <1>5, <1>6 DEF Sums
<1> QED BY <1>7

LEMMA NoNodes ==
    ASSUME NEW lv, lv = [i \in Heights |-> 0]
    PROVE  \E total : Sums(total, lv, 0)
<1> DEFINE total == [k \in 0 .. MYSKL_MAXLEVELS |-> 0]
<1>1. \A k \in Heights : k \in 0 .. MYSKL_MAXLEVELS /\ k - 1 \in 0 .. MYSKL_MAXLEVELS /\ lv[k] = 0
  BY DEF Heights
<1>2. 0 \in 0 .. MYSKL_MAXLEVELS /\ MYSKL_MAXLEVELS \in 0 .. MYSKL_MAXLEVELS
  OBVIOUS
<1>3. total \in [0 .. MYSKL_MAXLEVELS -> Nat] /\ \A k \in 0 .. MYSKL_MAXLEVELS : total[k] = 0
  OBVIOUS
<1> HIDE DEF total
<1>4. Sums(total, lv, 0)
  BY <1>1, <1>2, <1>3 DEF Sums
<1> QED BY <1>4

-----------------------------------------------------------------------------
(* The list                                                                 *)

(* The invariant of the list: its levels add up to nodenum.                 *)
ListInv ==
    /\ use_rand \in BOOLEAN /\ maxlevel \in Heights
    /\ curlevel \in 1 .. maxlevel /\ nodenum \in 0 .. MaxNodes /\ peak \in Nat
    /\ nodenumelem \in [0 .. MYSKL_MAXLEVELS -> 0 .. MaxCount]
    /\ levels \in [Heights -> Nat]
    /\ \E total : Sums(total, levels, nodenum)

LEMMA InitList == Init => ListInv
<1> SUFFICES ASSUME Init
             PROVE  ListInv
  OBVIOUS
<1>1. use_rand \in BOOLEAN /\ maxlevel \in Heights /\ curlevel = 1 /\ nodenum = 0 /\ peak = 0
  BY DEF Init, Heights
<1>2. curlevel \in 1 .. maxlevel /\ nodenum \in 0 .. MaxNodes /\ peak \in Nat
  BY <1>1 DEF Heights
<1>3. nodenumelem \in [0 .. MYSKL_MAXLEVELS -> 0 .. MaxCount]
  <2>1. PICK junk \in {0, 1} : nodenumelem = [i \in 0 .. MYSKL_MAXLEVELS |->
                IF i < maxlevel THEN 0 ELSE IF i < MYSKL_MAXLEVELS THEN junk ELSE HEADER]
    BY DEF Init
  <2>2. junk \in 0 .. MaxCount /\ 0 \in 0 .. MaxCount /\ HEADER = 0
    BY DEF HEADER
  <2> QED BY <2>1, <2>2
<1>4. levels = [i \in Heights |-> 0]
  BY DEF Init, Heights
<1>5. \E total : Sums(total, levels, nodenum)
  BY <1>1, <1>4, NoNodes
<1>6. levels \in [Heights -> Nat]
  BY <1>4
<1> QED BY <1>1, <1>2, <1>3, <1>5, <1>6 DEF ListInv

LEMMA PlaceKeeps ==
    ASSUME ListInv, NEW lev \in 1 .. maxlevel, Place(lev), nodenum < MaxNodes
    PROVE  /\ curlevel' \in 1 .. maxlevel /\ nodenum' \in 0 .. MaxNodes
           /\ levels' \in [Heights -> Nat]
           /\ \E total : Sums(total, levels', nodenum')
<1>1. CASE UNCHANGED <<levels, curlevel, nodenum>>
  BY <1>1 DEF ListInv
<1>2. CASE /\ levels' = [levels EXCEPT ![lev] = @ + 1]
           /\ curlevel' = IF lev > curlevel THEN lev ELSE curlevel
           /\ nodenum' = nodenum + 1
  <2>1. lev \in Heights
    BY DEF ListInv, Heights
  <2>2. curlevel' \in 1 .. maxlevel /\ nodenum' \in 0 .. MaxNodes
    BY <1>2 DEF ListInv
  <2>3. levels' \in [Heights -> Nat]
    <3>1. levels \in [Heights -> Nat]
      BY DEF ListInv
    <3>2. levels[lev] + 1 \in Nat
      BY <2>1, <3>1
    <3> QED BY <1>2, <2>1, <3>1, <3>2
  <2>4. PICK total : Sums(total, levels, nodenum)
    BY DEF ListInv
  <2>5. levels \in [Heights -> Nat]
    BY DEF ListInv
  <2>6. \E more : Sums(more, [levels EXCEPT ![lev] = @ + 1], nodenum + 1)
    BY <2>1, <2>4, <2>5, SumAdds
  <2>7. \E total_1 : Sums(total_1, levels', nodenum')
    BY <1>2, <2>6
  <2> QED BY <2>2, <2>3, <2>7
<1> QED BY <1>1, <1>2 DEF Place

(* The level adjustCurLevel finds.                                          *)
LEMMA TopLevel ==
    ASSUME NEW top \in Heights, NEW lv \in [Heights -> Nat]
    PROVE  \E c \in 1 .. top : /\ c = 1 \/ lv[c] > 0
                               /\ \A i \in c + 1 .. top : lv[i] = 0
<1> DEFINE down == {j \in 0 .. top - 1 : top - j = 1 \/ lv[top - j] > 0}
<1>1. top - 1 \in down
  <2>1. top - 1 \in 0 .. top - 1 /\ top - (top - 1) = 1
    BY DEF Heights
  <2> QED BY <2>1
<1>2. PICK m \in down : \A j \in down : m <= j
  <2>1. down \in SUBSET Nat /\ down # {}
    BY <1>1
  <2> HIDE DEF down
  <2> QED BY <2>1, LeastNumber
<1> DEFINE c == top - m
<1>3. c \in 1 .. top /\ (c = 1 \/ lv[c] > 0)
  BY <1>2 DEF Heights
<1>4. ASSUME NEW i \in c + 1 .. top
      PROVE  lv[i] = 0
  <2> DEFINE j == top - i
  <2>1. j \in 0 .. top - 1 /\ j < m /\ top - j = i /\ i \in Heights
    BY <1>2, <1>3 DEF Heights
  <2>2. j \notin down
    <3> HIDE DEF down, j
    <3>1. m \in Int /\ j \in Int
      BY <2>1 DEF down, Heights
    <3> QED BY <1>2, <2>1, <3>1
  <2>3. ~(lv[i] > 0)
    BY <2>1, <2>2
  <2>4. lv[i] \in Nat
    BY <2>1
  <2> QED BY <2>3, <2>4
<1> QED BY <1>3, <1>4

LEMMA DeleteKeeps ==
    ASSUME ListInv, NEW lev \in 1 .. maxlevel, Delete(lev)
    PROVE  ListInv'
<1>1. lev \in Heights /\ maxlevel \in Heights /\ levels \in [Heights -> Nat]
  <2>1. maxlevel \in Heights /\ levels \in [Heights -> Nat]
    BY DEF ListInv
  <2>2. lev \in Heights
    BY <2>1 DEF Heights
  <2> QED BY <2>1, <2>2
<1>2. levels[lev] > 0 /\ levels' = [levels EXCEPT ![lev] = @ - 1] /\ nodenum' = nodenum - 1
  BY DEF Delete
<1>3. levels' \in [Heights -> Nat]
  <2>1. levels[lev] - 1 \in Nat
    BY <1>1, <1>2
  <2> QED BY <1>1, <1>2, <2>1
<1>4. PICK total : Sums(total, levels, nodenum)
  BY DEF ListInv
<1>5. \E less : Sums(less, [levels EXCEPT ![lev] = @ - 1], nodenum - 1)
  BY <1>1, <1>2, <1>4, SumDrops
<1>6. \E total_1 : Sums(total_1, levels', nodenum')
  BY <1>2, <1>5
<1>7. nodenum' \in 0 .. MaxNodes
  <2>1. levels[lev] <= nodenum /\ levels[lev] \in Nat
    BY <1>1, <1>4, SumBounds
  <2> DEFINE l == levels[lev]
  <2>2. l \in Nat /\ l > 0 /\ l <= nodenum
    BY <1>2, <2>1
  <2>3. nodenum \in 0 .. MaxNodes /\ nodenum' = nodenum - 1
    BY <1>2 DEF ListInv
  <2> HIDE DEF l
  <2> QED BY <2>2, <2>3
<1>8. curlevel' \in 1 .. maxlevel
  <2> DEFINE Found(c) == c \in 1 .. maxlevel /\ (c = 1 \/ levels'[c] > 0)
                         /\ \A i \in c + 1 .. maxlevel : levels'[i] = 0
  <2>1. curlevel' = CHOOSE c \in 1 .. maxlevel : (c = 1 \/ levels'[c] > 0)
                                                 /\ \A i \in c + 1 .. maxlevel : levels'[i] = 0
    BY DEF Delete
  <2>2. \E c \in 1 .. maxlevel : (c = 1 \/ levels'[c] > 0) /\ \A i \in c + 1 .. maxlevel : levels'[i] = 0
    BY <1>1, <1>3, TopLevel
  <2> QED BY <2>1, <2>2, Zenon
<1>9. UNCHANGED <<use_rand, maxlevel, nodenumelem, peak>>
  BY DEF Delete
<1> QED BY <1>3, <1>6, <1>7, <1>8, <1>9 DEF ListInv

LEMMA StepList == ListInv /\ [Next]_vars => ListInv'
<1> SUFFICES ASSUME ListInv, [Next]_vars
             PROVE  ListInv'
  OBVIOUS
<1>1. maxlevel \in Nat \ {0}
  BY DEF ListInv, Heights
<1>2. CASE InsertRand
  <2> DEFINE lev == RandLevel(Value(Drawn(Generator)))
  <2>1. lev \in 1 .. maxlevel
    BY <1>1, RandLevelIs
  <2>2. Place(lev) /\ nodenum < MaxNodes
    BY <1>2 DEF InsertRand
  <2> HIDE DEF lev
  <2>3. UNCHANGED <<use_rand, maxlevel, nodenumelem, peak>>
    BY <1>2 DEF InsertRand
  <2>4. /\ curlevel' \in 1 .. maxlevel /\ nodenum' \in 0 .. MaxNodes
        /\ levels' \in [Heights -> Nat]
        /\ \E total : Sums(total, levels', nodenum')
    BY <2>1, <2>2, PlaceKeeps
  <2> QED BY <2>3, <2>4 DEF ListInv
<1>3. CASE InsertPlain
  <2> DEFINE p == PlainLevel
  <2>1. p \in 1 .. maxlevel
    BY <1>1, PlainLevelIs
  <2> HIDE DEF p
  <2>2. nodenum < MaxNodes /\ UNCHANGED <<use_rand, maxlevel>>
    BY <1>3 DEF InsertPlain
  <2>3. CASE nodenum = 0
    <3>1. Place(1) /\ UNCHANGED <<nodenumelem, peak>>
      BY <1>3, <2>3 DEF InsertPlain
    <3>2. 1 \in 1 .. maxlevel
      BY <1>1
    <3>3. /\ curlevel' \in 1 .. maxlevel /\ nodenum' \in 0 .. MaxNodes
          /\ levels' \in [Heights -> Nat]
          /\ \E total : Sums(total, levels', nodenum')
      BY <2>2, <3>1, <3>2, PlaceKeeps
    <3> QED BY <2>2, <3>1, <3>3 DEF ListInv
  <2>4. CASE nodenum # 0
    <3>1. /\ nodenumelem[p] < MaxCount /\ nodenumelem' = [nodenumelem EXCEPT ![p] = @ + 1]
          /\ peak' = (IF nodenum > peak THEN nodenum ELSE peak)
          /\ Place(p)
      BY <1>3, <2>4 DEF InsertPlain, p
    <3>2. /\ curlevel' \in 1 .. maxlevel /\ nodenum' \in 0 .. MaxNodes
          /\ levels' \in [Heights -> Nat]
          /\ \E total : Sums(total, levels', nodenum')
      BY <2>1, <2>2, <3>1, PlaceKeeps
    <3>3. peak' \in Nat
      BY <3>1 DEF ListInv
    <3>4. nodenumelem' \in [0 .. MYSKL_MAXLEVELS -> 0 .. MaxCount]
      <4>1. p \in 0 .. MYSKL_MAXLEVELS
        BY <2>1 DEF ListInv, Heights
      <4>2. nodenumelem[p] \in 0 .. MaxCount
        BY <4>1 DEF ListInv
      <4>3. nodenumelem[p] + 1 \in 0 .. MaxCount
        BY <3>1, <4>2
      <4> QED BY <3>1, <4>1, <4>3 DEF ListInv
    <3> QED BY <2>2, <3>2, <3>3, <3>4 DEF ListInv
  <2> QED BY <2>3, <2>4
<1>4. ASSUME NEW lev \in 1 .. maxlevel, Delete(lev)
      PROVE  ListInv'
  BY <1>4, DeleteKeeps
<1>5. CASE DrawDouble
  BY <1>5 DEF DrawDouble, genVars, ListInv
<1>6. CASE UNCHANGED vars
  BY <1>6 DEF vars, genVars, ListInv
<1> QED BY <1>2, <1>3, <1>4, <1>5, <1>6 DEF Next

(* The inductive invariant.                                                 *)
IInv == RandomInv /\ ListInv

(* What every other proof but that of the shares starts from: the words that *)
(* were taken are the end of the sequence, which is never at its fixed point *)
(* (rand_set_seed, rand_set_seed_array, rand_int); and the nodes of the list *)
(* are as many as nodenum, so that no level has more (genLevel).            *)
THEOREM Invariance == Spec => []IInv
<1>1. Init => IInv
  BY InitRandomInv, InitList DEF Init, IInv
<1>2. IInv /\ [Next]_vars => IInv'
  BY StepRandom, StepList DEF IInv
<1> QED BY <1>1, <1>2, PTL DEF Spec

(* The state keeps its types: a level that genLevel draws is between 1 and  *)
(* maxlevel and the words stay words, whatever overflows, for all widths,   *)
(* seeds and lists and with no hypothesis on the program.                   *)
THEOREM Typing == Spec => []TypeOK
<1>1. ASSUME IInv
      PROVE  TypeOK
  <2>1. mt \in Blocks /\ mti \in 1 .. N
    BY <1>1, GeneratorIs DEF IInv, RandomInv, Generators
  <2>2. ListInv
    BY <1>1 DEF IInv
  <2>3. levels \in [Heights -> 0 .. MaxNodes]
    <3>1. PICK total : Sums(total, levels, nodenum)
      BY <2>2 DEF ListInv
    <3>2. levels \in [Heights -> Nat] /\ nodenum \in 0 .. MaxNodes
      BY <2>2 DEF ListInv
    <3>3. \A k \in Heights : levels[k] <= nodenum /\ levels[k] \in Nat
      BY <3>1, <3>2, SumBounds
    <3>4. \A k \in Heights : levels[k] \in 0 .. MaxNodes
      BY <3>2, <3>3
    <3> QED BY <3>2, <3>4
  <2> QED BY <2>1, <2>2, <2>3 DEF ListInv, TypeOK, Blocks, Heights
<1> QED BY <1>1, Invariance, PTL

(* The words rand_int gives out are those of the recurrence, although it makes *)
(* them a block at a time in the place of the block before, and no seed of  *)
(* either kind leads to the sequence of zeros, neither at once nor later.   *)
THEOREM Sequence == Spec => []MatchesRecurrence
<1>1. IInv => MatchesRecurrence
  BY Matches DEF IInv
<1> QED BY <1>1, Invariance, PTL

-----------------------------------------------------------------------------
(* Shares                                                                    *)

LEMMA InitShares == Init => LevelsThinOut
<1> SUFFICES ASSUME Init, NEW k \in 1 .. maxlevel - 1
             PROVE  /\ levels[k] <= nodenumelem[k] + IF k = 1 THEN 1 ELSE 0
                    /\ nodenumelem[k] > 0 => (nodenumelem[k] - 1) * PowerOf2[k] < peak
  BY DEF LevelsThinOut
<1>1. maxlevel \in 1 .. MYSKL_MAXLEVELS
  BY DEF Init
<1>2. k \in 1 .. MYSKL_MAXLEVELS /\ k \in 0 .. MYSKL_MAXLEVELS /\ k < maxlevel
  BY <1>1
<1>3. levels[k] = 0
  BY <1>2 DEF Init
<1>4. nodenumelem[k] = 0
  BY <1>2 DEF Init
<1> QED BY <1>3, <1>4

LEMMA StepShares == ListInv /\ LevelsThinOut /\ [Next]_vars => LevelsThinOut'
<1> SUFFICES ASSUME ListInv, LevelsThinOut, [Next]_vars, ~use_rand'
             PROVE  \A k \in 1 .. maxlevel' - 1 :
                       /\ levels'[k] <= nodenumelem'[k] + IF k = 1 THEN 1 ELSE 0
                       /\ nodenumelem'[k] > 0 => (nodenumelem'[k] - 1) * PowerOf2[k] < peak'
  BY DEF LevelsThinOut
<1>1. UNCHANGED <<use_rand, maxlevel>>
  BY DEF Next, InsertRand, InsertPlain, Delete, DrawDouble, vars, genVars
<1> SUFFICES ASSUME NEW k \in 1 .. maxlevel - 1
             PROVE  /\ levels'[k] <= nodenumelem'[k] + IF k = 1 THEN 1 ELSE 0
                    /\ nodenumelem'[k] > 0 => (nodenumelem'[k] - 1) * PowerOf2[k] < peak'
  BY <1>1
<1> DEFINE l == levels[k]
           c == nodenumelem[k]
           l2 == levels'[k]
           c2 == nodenumelem'[k]
           one == IF k = 1 THEN 1 ELSE 0
           q == PowerOf2[k]
           top == peak'
<1>2. /\ l <= c + one /\ (c > 0 => (c - 1) * q < peak)
      /\ ~use_rand
  BY <1>1 DEF LevelsThinOut
<1>3. k \in Heights /\ k \in 0 .. MYSKL_MAXLEVELS /\ k < maxlevel /\ maxlevel \in Nat \ {0} /\ k \in 0 .. Width
  <2>1. maxlevel \in 1 .. MYSKL_MAXLEVELS
    BY DEF ListInv, Heights
  <2>2. k \in 1 .. MYSKL_MAXLEVELS /\ k < maxlevel
    BY <2>1
  <2> QED BY <2>1, <2>2 DEF Heights
<1>4. l \in Nat /\ c \in Nat /\ one \in 0 .. 1 /\ q \in Nat \ {0} /\ peak \in Nat /\ nodenum \in Nat
      /\ levels \in [Heights -> Nat] /\ nodenumelem \in [0 .. MYSKL_MAXLEVELS -> 0 .. MaxCount]
  <2>1. levels \in [Heights -> Nat] /\ nodenumelem \in [0 .. MYSKL_MAXLEVELS -> 0 .. MaxCount]
        /\ peak \in Nat /\ nodenum \in 0 .. MaxNodes
    BY DEF ListInv
  <2>2. l \in Nat /\ c \in 0 .. MaxCount
    BY <1>3, <2>1
  <2>3. q \in Nat \ {0}
    BY <1>3, Powers
  <2> HIDE DEF l, c, q
  <2> QED BY <2>1, <2>2, <2>3
<1>5. SUFFICES l2 <= c2 + one /\ (c2 > 0 => (c2 - 1) * q < top)
  OBVIOUS
<1>6. CASE InsertRand
  BY <1>2, <1>6 DEF InsertRand
<1>7. CASE InsertPlain
  <2>1. CASE nodenum = 0
    <3>1. Place(1) /\ nodenumelem' = nodenumelem /\ peak' = peak
      BY <1>7, <2>1 DEF InsertPlain
    <3>2. l = 0
      <4>1. PICK total : Sums(total, levels, nodenum)
        BY DEF ListInv
      <4>2. levels[k] <= nodenum
        BY <1>3, <1>4, <4>1, SumBounds
      <4> QED BY <1>4, <2>1, <4>2
    <3>3. l2 = l \/ (k = 1 /\ l2 = l + 1)
      BY <1>3, <1>4, <3>1 DEF Place
    <3>4. l2 <= c2 + one
      <4>1. c2 = c
        BY <3>1
      <4>2. c \in Nat /\ one \in 0 .. 1 /\ (l2 = 0 \/ (one = 1 /\ l2 = 1))
        BY <1>4, <3>2, <3>3
      <4> HIDE DEF l2, c, c2, one
      <4> QED BY <4>1, <4>2
    <3> QED BY <1>2, <3>1, <3>4
  <2>2. CASE nodenum # 0
    <3> DEFINE p == PlainLevel
    <3>1. p \in 1 .. maxlevel /\ (p = maxlevel \/ nodenumelem[p] * PowerOf2[p] < nodenum)
      BY <1>3, PlainLevelIs
    <3>2. /\ nodenumelem' = [nodenumelem EXCEPT ![p] = @ + 1]
          /\ peak' = (IF nodenum > peak THEN nodenum ELSE peak)
          /\ Place(p)
      BY <1>7, <2>2 DEF InsertPlain
    <3> HIDE DEF p
    <3>3. top \in Nat /\ top >= peak /\ top >= nodenum
      BY <1>4, <3>2
    <3>4. CASE p = k
      <4>1. c2 = c + 1 /\ (l2 = l \/ l2 = l + 1)
        BY <1>3, <1>4, <3>2, <3>4 DEF Place
      <4>2. c * q < nodenum
        BY <1>3, <3>1, <3>4
      <4> DEFINE z == c * q
      <4>3. z \in Nat /\ (c2 - 1) * q = z
        <5>1. c2 - 1 = c
          BY <1>4, <4>1
        <5> HIDE DEF c, q, c2
        <5> QED BY <1>4, <5>1
      <4>4. z < nodenum
        BY <4>2
      <4> HIDE DEF z
      <4>5. (c2 - 1) * q < top
        <5> HIDE DEF c2, q, top
        <5>1. z < top
          BY <1>4, <3>3, <4>3, <4>4
        <5> QED BY <4>3, <5>1
      <4>6. l2 <= c2 + one
        <5>1. l \in Nat /\ c \in Nat /\ one \in 0 .. 1 /\ l <= c + one
          BY <1>2, <1>4
        <5> HIDE DEF l, l2, c, c2, one
        <5> QED BY <4>1, <5>1
      <4> QED BY <4>5, <4>6
    <3>5. CASE p # k
      <4>1. c2 = c /\ l2 = l
        BY <1>3, <1>4, <3>2, <3>5 DEF Place
      <4> DEFINE z == (c - 1) * q
      <4>2. c > 0 => z < peak
        BY <1>2
      <4>3. z \in Int
        <5> HIDE DEF c, q
        <5> QED BY <1>4
      <4>4. (c2 - 1) * q = z
        BY <4>1
      <4> HIDE DEF z, top
      <4>5. c > 0 => z < top
        BY <1>4, <3>3, <4>2, <4>3
      <4> QED BY <1>2, <4>1, <4>4, <4>5
    <3> QED BY <3>4, <3>5
  <2> QED BY <2>1, <2>2
<1>8. ASSUME NEW lev \in 1 .. maxlevel, Delete(lev)
      PROVE  l2 <= c2 + one /\ (c2 > 0 => (c2 - 1) * q < top)
  <2>1. c2 = c /\ top = peak /\ (l2 = l \/ l2 = l - 1)
    BY <1>3, <1>4, <1>8 DEF Delete
  <2>2. l2 <= c2 + one
    <3>1. l \in Nat /\ c \in Nat /\ one \in 0 .. 1 /\ l <= c + one
      BY <1>2, <1>4
    <3> HIDE DEF l, l2, c, c2, one
    <3> QED BY <2>1, <3>1
  <2> QED BY <1>2, <2>1, <2>2
<1>9. CASE UNCHANGED genVars
  BY <1>2, <1>9 DEF genVars
<1>10. DrawDouble \/ UNCHANGED vars => UNCHANGED genVars
  BY DEF DrawDouble, vars
<1> QED BY <1>6, <1>7, <1>8, <1>9, <1>10 DEF Next

(* Without random numbers no level has more nodes than its counter, and the *)
(* counter no more than its share of the longest list (genLevel with        *)
(* MYSKL_NO_RAND), in whatever order nodes come and go.                     *)
THEOREM Thinning == Spec => []LevelsThinOut
<1>1. Init => ListInv /\ LevelsThinOut
  BY InitList, InitShares
<1>2. ListInv /\ LevelsThinOut /\ [Next]_vars => ListInv' /\ LevelsThinOut'
  BY StepList, StepShares
<1> QED BY <1>1, <1>2, PTL DEF Spec

-----------------------------------------------------------------------------
(* Tempering loses nothing                                                  *)

(* A word xored with its own higher bits: from the highest bit down.         *)
LEMMA RightOnce ==
    ASSUME NEW v \in Words, NEW w \in Words, NEW n \in 1 .. Width,
           BitXor(v, ShiftRight(v, n)) = BitXor(w, ShiftRight(w, n))
    PROVE  v = w
<1> DEFINE Same(i) == Bit(v, i) <=> Bit(w, i)
           holds == {j \in 0 .. Width : \A i \in 0 .. Width - 1 : i >= Width - j => Same(i)}
<1>1. \A x \in Words : \A i \in 0 .. Width - 1 :
        Bit(BitXor(x, ShiftRight(x, n)), i) <=> ~(Bit(x, i) <=> (i + n < Width /\ Bit(x, i + n)))
  <2>1. n \in 0 .. Width
    OBVIOUS
  <2>2. ASSUME NEW x \in Words, NEW i \in 0 .. Width - 1
        PROVE  Bit(BitXor(x, ShiftRight(x, n)), i) <=> ~(Bit(x, i) <=> (i + n < Width /\ Bit(x, i + n)))
    <3>1. ShiftRight(x, n) \in Words /\ (Bit(ShiftRight(x, n), i) <=> i + n < Width /\ Bit(x, i + n))
      BY <2>1, RightBits
    <3>2. Bit(BitXor(x, ShiftRight(x, n)), i) <=> ~(Bit(x, i) <=> Bit(ShiftRight(x, n), i))
      BY <3>1, BitAssumption DEF BitAssumption
    <3> QED BY <3>1, <3>2
  <2> QED BY <2>2
<1>2. 0 \in holds
  <2>1. \A i \in 0 .. Width - 1 : ~(i >= Width - 0)
    OBVIOUS
  <2> QED BY <2>1
<1>3. ASSUME NEW j \in 1 .. Width, j - 1 \in holds
      PROVE  j \in holds
  <2> DEFINE k == Width - j
  <2>1. k \in 0 .. Width - 1
    OBVIOUS
  <2>2. \A i \in 0 .. Width - 1 : i >= k => i = k \/ i >= Width - (j - 1)
    OBVIOUS
  <2>3. k + n < Width => k + n \in 0 .. Width - 1 /\ k + n >= Width - (j - 1)
    OBVIOUS
  <2> HIDE DEF k, Same
  <2>4. k + n < Width => Same(k + n)
    BY <1>3, <2>3
  <2>5. Same(k)
    <3>1. Bit(BitXor(v, ShiftRight(v, n)), k) <=> ~(Bit(v, k) <=> (k + n < Width /\ Bit(v, k + n)))
      BY <1>1, <2>1
    <3>2. Bit(BitXor(w, ShiftRight(w, n)), k) <=> ~(Bit(w, k) <=> (k + n < Width /\ Bit(w, k + n)))
      BY <1>1, <2>1
    <3> QED BY <2>4, <3>1, <3>2 DEF Same
  <2>6. \A i \in 0 .. Width - 1 : i >= k => Same(i)
    BY <1>3, <2>2, <2>5
  <2> QED BY <2>6 DEF k
<1>4. Width \in holds
  <2>1. \A j \in 0 .. Width : j \in holds
    <3>1. Width \in Nat
      OBVIOUS
    <3> HIDE DEF holds
    <3> QED BY <1>2, <1>3, <3>1, Upwards
  <2>2. Width \in 0 .. Width
    OBVIOUS
  <2> HIDE DEF holds
  <2> QED BY <2>1, <2>2
<1>5. \A i \in 0 .. Width - 1 : Same(i)
  <2>1. \A i \in 0 .. Width - 1 : i >= Width - Width
    OBVIOUS
  <2> HIDE DEF Same
  <2> QED BY <1>4, <2>1
<1> QED BY <1>5, SameBits

(* And with some of its own lower bits: from the lowest bit up.              *)
LEMMA LeftOnce ==
    ASSUME NEW v \in Words, NEW w \in Words, NEW n \in 1 .. Width, NEW mask \in Words,
           BitXor(v, BitAnd(ShiftLeft(v, n), mask)) = BitXor(w, BitAnd(ShiftLeft(w, n), mask))
    PROVE  v = w
<1> DEFINE Same(i) == Bit(v, i) <=> Bit(w, i)
           Of(x) == BitXor(x, BitAnd(ShiftLeft(x, n), mask))
           holds == {j \in 0 .. Width : \A i \in 0 .. Width - 1 : i < j => Same(i)}
<1>1. \A x \in Words : \A i \in 0 .. Width - 1 :
        Bit(Of(x), i) <=> ~(Bit(x, i) <=> (i >= n /\ Bit(x, i - n) /\ Bit(mask, i)))
  <2>1. n \in 0 .. Width
    OBVIOUS
  <2>2. ASSUME NEW x \in Words, NEW i \in 0 .. Width - 1
        PROVE  Bit(Of(x), i) <=> ~(Bit(x, i) <=> (i >= n /\ Bit(x, i - n) /\ Bit(mask, i)))
    <3> DEFINE s == ShiftLeft(x, n)
               a == BitAnd(s, mask)
    <3>1. s \in Words /\ (Bit(s, i) <=> i >= n /\ Bit(x, i - n))
      BY <2>1, LeftBits
    <3> HIDE DEF s
    <3>2. a \in Words /\ (Bit(a, i) <=> Bit(s, i) /\ Bit(mask, i))
      BY <3>1, BitAssumption DEF BitAssumption
    <3> HIDE DEF a
    <3>3. Bit(BitXor(x, a), i) <=> ~(Bit(x, i) <=> Bit(a, i))
      BY <3>2, BitAssumption DEF BitAssumption
    <3>4. Of(x) = BitXor(x, a)
      BY DEF a, s
    <3> HIDE DEF Of
    <3> QED BY <3>1, <3>2, <3>3, <3>4
  <2> QED BY <2>2
<1>2. Of(v) = Of(w)
  OBVIOUS
<1> HIDE DEF Of
<1>3. 0 \in holds
  OBVIOUS
<1>4. ASSUME NEW j \in 1 .. Width, j - 1 \in holds
      PROVE  j \in holds
  <2> DEFINE k == j - 1
  <2>1. k \in 0 .. Width - 1
    OBVIOUS
  <2>2. \A i \in 0 .. Width - 1 : i < j => i = k \/ i < k
    OBVIOUS
  <2>3. k >= n => k - n \in 0 .. Width - 1 /\ k - n < k
    OBVIOUS
  <2>4. \A i \in 0 .. Width - 1 : i < k => Same(i)
    BY <1>4
  <2> HIDE DEF k, Same
  <2>5. k >= n => Same(k - n)
    BY <2>3, <2>4
  <2>6. Same(k)
    <3>1. Bit(Of(v), k) <=> ~(Bit(v, k) <=> (k >= n /\ Bit(v, k - n) /\ Bit(mask, k)))
      BY <1>1, <2>1
    <3>2. Bit(Of(w), k) <=> ~(Bit(w, k) <=> (k >= n /\ Bit(w, k - n) /\ Bit(mask, k)))
      BY <1>1, <2>1
    <3> QED BY <1>2, <2>5, <3>1, <3>2 DEF Same
  <2>7. \A i \in 0 .. Width - 1 : i < j => Same(i)
    BY <2>2, <2>4, <2>6
  <2> QED BY <2>7
<1>5. Width \in holds
  <2>1. \A j \in 0 .. Width : j \in holds
    <3>1. Width \in Nat
      OBVIOUS
    <3> HIDE DEF holds
    <3> QED BY <1>3, <1>4, <3>1, Upwards
  <2>2. Width \in 0 .. Width
    OBVIOUS
  <2> HIDE DEF holds
  <2> QED BY <2>1, <2>2
<1>6. \A i \in 0 .. Width - 1 : Same(i)
  <2>1. \A i \in 0 .. Width - 1 : i < Width
    OBVIOUS
  <2> HIDE DEF Same
  <2> QED BY <1>5, <2>1
<1> QED BY <1>6, SameBits

(* The two kinds of line in rand_int.                                       *)
DownXor(w, n)       == BitXor(w, ShiftRight(w, n))
UpXor(w, n, mask)   == BitXor(w, BitAnd(ShiftLeft(w, n), mask))

LEMMA XorTypes ==
    ASSUME NEW w \in Words, NEW n \in 1 .. Width, NEW mask \in Words
    PROVE  DownXor(w, n) \in Words /\ UpXor(w, n, mask) \in Words
<1>1. n \in 0 .. Width
  OBVIOUS
<1>2. ShiftRight(w, n) \in Words /\ ShiftLeft(w, n) \in Words
  BY <1>1, RightBits, LeftBits
<1> QED BY <1>2, WordsAre DEF DownXor, UpXor

LEMMA TemperSteps ==
    ASSUME NEW w
    PROVE  Temper(w) = DownXor(UpXor(UpXor(DownXor(w, ShiftU), ShiftS, TEMPERING_MASK_B),
                                     ShiftT, TEMPERING_MASK_C), ShiftL)
BY DEF Temper, DownXor, UpXor

LEMMA TemperOnce ==
    /\ \A w \in Words : Temper(w) \in Words
    /\ \A v, w \in Words : Temper(v) = Temper(w) => v = w
<1> DEFINE A(w) == DownXor(w, ShiftU)
           B(w) == UpXor(w, ShiftS, TEMPERING_MASK_B)
           C(w) == UpXor(w, ShiftT, TEMPERING_MASK_C)
           D(w) == DownXor(w, ShiftL)
<1>1. /\ ShiftU \in 1 .. Width /\ ShiftS \in 1 .. Width /\ ShiftT \in 1 .. Width /\ ShiftL \in 1 .. Width
      /\ TEMPERING_MASK_B \in Words /\ TEMPERING_MASK_C \in Words
  OBVIOUS
<1>2. \A w \in Words : A(w) \in Words /\ B(w) \in Words /\ C(w) \in Words /\ D(w) \in Words
  BY <1>1, XorTypes
<1>3. \A v, w \in Words : /\ A(v) = A(w) => v = w
                          /\ B(v) = B(w) => v = w
                          /\ C(v) = C(w) => v = w
                          /\ D(v) = D(w) => v = w
  BY <1>1, RightOnce, LeftOnce DEF DownXor, UpXor
<1>4. \A w : Temper(w) = D(C(B(A(w))))
  BY TemperSteps
<1> HIDE DEF A, B, C, D
<1>5. \A w \in Words : Temper(w) \in Words
  BY <1>2, <1>4
<1>6. ASSUME NEW v \in Words, NEW w \in Words, Temper(v) = Temper(w)
      PROVE  v = w
  <2>1. A(v) \in Words /\ A(w) \in Words /\ B(A(v)) \in Words /\ B(A(w)) \in Words
        /\ C(B(A(v))) \in Words /\ C(B(A(w))) \in Words
    BY <1>2
  <2>2. C(B(A(v))) = C(B(A(w)))
    BY <1>3, <1>4, <1>6, <2>1
  <2>3. B(A(v)) = B(A(w))
    BY <1>3, <2>1, <2>2
  <2>4. A(v) = A(w)
    BY <1>3, <2>1, <2>3
  <2> QED BY <1>3, <2>4
<1> QED BY <1>5, <1>6

LEMMA WordsFinite == IsFiniteSet(Words)
<1> DEFINE b == Modulus - 1
<1>1. b \in Int /\ 0 \in Int
  BY Masks
<1> HIDE DEF b
<1>2. IsFiniteSet(0 .. b)
  BY <1>1, FS_Interval
<1> QED BY <1>2 DEF b, Words

(* So every word is one that comes out of it.                                *)
LEMMA TemperedOnto == Tempered \in Injection(Words, Words) /\ Tempered \in Surjection(Words, Words)
<1>1. Tempered \in Injection(Words, Words)
  <2>1. Tempered \in [Words -> Words]
    BY TemperOnce DEF Tempered
  <2>2. \A v, w \in Words : Tempered[v] = Tempered[w] => v = w
    BY TemperOnce DEF Tempered
  <2> QED BY <2>1, <2>2 DEF Injection, IsInjective
<1>2. Tempered \in Surjection(Words, Words)
  BY <1>1, WordsFinite, FS_Injection
<1> QED BY <1>1, <1>2

(* As many words are tempered to one of the first n as there are of these.   *)
LEMMA TemperedBelow ==
    ASSUME NEW n \in Nat, n <= Modulus
    PROVE  Cardinality({w \in Words : Tempered[w] < n}) = n
<1> DEFINE S == {w \in Words : Tempered[w] < n}
           T == 0 .. n - 1
           f == [w \in S |-> Tempered[w]]
<1>1. T \subseteq Words
  <2> DEFINE m == Modulus
  <2>1. m \in Nat /\ n <= m
    BY Masks
  <2> HIDE DEF m
  <2>2. 0 .. n - 1 \subseteq 0 .. m - 1
    BY <2>1
  <2> QED BY <2>2 DEF m, Words
<1>2. \A x \in Words : x < n <=> x \in T
  BY WordsAre
<1>3. IsFiniteSet(T) /\ Cardinality(T) = n
  <2>1. n - 1 \in Int /\ 0 \in Int
    OBVIOUS
  <2>2. IsFiniteSet(0 .. n - 1) /\ Cardinality(0 .. n - 1) = IF 0 > n - 1 THEN 0 ELSE (n - 1) - 0 + 1
    BY <2>1, FS_Interval
  <2>3. (IF 0 > n - 1 THEN 0 ELSE (n - 1) - 0 + 1) = n
    OBVIOUS
  <2> QED BY <2>2, <2>3
<1>4. \A w \in Words : Tempered[w] \in Words
  BY TemperedOnto DEF Injection
<1>5. \A v, w \in Words : Tempered[v] = Tempered[w] => v = w
  BY TemperedOnto DEF Injection, IsInjective
<1>6. \A x \in Words : \E w \in Words : Tempered[w] = x
  BY TemperedOnto DEF Surjection
<1> HIDE DEF T
<1>7. f \in [S -> T]
  BY <1>2, <1>4
<1>8. \A v, w \in S : f[v] = f[w] => v = w
  BY <1>5
<1>9. \A x \in T : \E w \in S : f[w] = x
  BY <1>1, <1>2, <1>6
<1> HIDE DEF f
<1>10. f \in Bijection(S, T)
  BY <1>7, <1>8, <1>9 DEF Bijection, Injection, Surjection, IsInjective
<1>11. ExistsBijection(S, T)
  BY <1>10 DEF ExistsBijection
<1>12. IsFiniteSet(S)
  <2>1. S \in SUBSET Words
    OBVIOUS
  <2> QED BY <2>1, WordsFinite, FS_Subset
<1> HIDE DEF S
<1>13. Cardinality(T) = Cardinality(S)
  BY <1>11, <1>12, FS_Bijection
<1> QED BY <1>3, <1>13 DEF S

-----------------------------------------------------------------------------
(* The words that lead above a level                                        *)

(* 2^k and 2^(Width - k) make up all the words.                              *)
LEMMA PowersSplit ==
    ASSUME NEW k \in 0 .. Width
    PROVE  PowerOf2[k] * PowerOf2[Width - k] = Modulus
<1> DEFINE holds == {j \in 0 .. Width : PowerOf2[j] * PowerOf2[Width - j] = Modulus}
<1>1. 0 \in holds
  <2> DEFINE m == Modulus
  <2>1. Width - 0 = Width /\ 0 \in 0 .. Width
    OBVIOUS
  <2>2. PowerOf2[0] = 1 /\ PowerOf2[Width] = m /\ m \in Nat
    BY Powers, Masks DEF Modulus
  <2> HIDE DEF m
  <2>3. 1 * m = m
    BY <2>2
  <2> QED BY <2>1, <2>2, <2>3 DEF m
<1>2. ASSUME NEW j \in 1 .. Width, j - 1 \in holds
      PROVE  j \in holds
  <2> DEFINE a == PowerOf2[j - 1]
             b == PowerOf2[Width - j]
  <2>1. j \in 0 .. Width /\ Width - (j - 1) \in 1 .. Width /\ (Width - (j - 1)) - 1 = Width - j
        /\ j - 1 \in 0 .. Width /\ Width - j \in 0 .. Width
    OBVIOUS
  <2>2. PowerOf2[j] = 2 * a /\ PowerOf2[Width - (j - 1)] = 2 * b /\ a \in Nat /\ b \in Nat
    BY <2>1, Powers
  <2>3. a * (2 * b) = Modulus
    BY <1>2, <2>2
  <2> HIDE DEF a, b
  <2>4. (2 * a) * b = a * (2 * b)
    BY <2>2
  <2> QED BY <2>1, <2>2, <2>3, <2>4 DEF b
<1>3. \A j \in 0 .. Width : j \in holds
  <2>1. Width \in Nat
    OBVIOUS
  <2> HIDE DEF holds
  <2> QED BY <1>1, <1>2, <2>1, Upwards
<1> QED BY <1>3

(* What the loop compares with: its bound at level k is 2^(Width - k) - 1.   *)
LEMMA BoundIs ==
    ASSUME NEW k \in 0 .. Width
    PROVE  RAND_MAX_N \div PowerOf2[k] = PowerOf2[Width - k] - 1
<1> DEFINE p == PowerOf2[k]
           q == PowerOf2[Width - k]
<1>1. Width - k \in 0 .. Width
  OBVIOUS
<1>2. p \in Nat \ {0} /\ q \in Nat \ {0} /\ RAND_MAX_N = p * q - 1
  BY <1>1, Powers, PowersSplit DEF RAND_MAX_N
<1> HIDE DEF p, q
<1>3. (p * q - 1) \div p = q - 1
  BY <1>2
<1> QED BY <1>2, <1>3 DEF p, q

(* The bounds get lower from level to level.                                *)
LEMMA BoundsFall ==
    ASSUME NEW k \in 0 .. Width, NEW j \in 0 .. k
    PROVE  PowerOf2[Width - k] <= PowerOf2[Width - j]
<1> DEFINE holds == {i \in 0 .. Width : \A h \in 0 .. i : PowerOf2[h] <= PowerOf2[i]}
<1>1. 0 \in holds
  BY Powers
<1>2. ASSUME NEW i \in 1 .. Width, i - 1 \in holds
      PROVE  i \in holds
  <2> DEFINE a == PowerOf2[i - 1]
             b == PowerOf2[i]
  <2>1. b = 2 * a /\ a \in Nat \ {0} /\ i \in 0 .. Width
    BY Powers
  <2>2. ASSUME NEW h \in 0 .. i
        PROVE  PowerOf2[h] <= b
    <3>1. h \in 0 .. Width /\ (h = i \/ h \in 0 .. i - 1)
      OBVIOUS
    <3> DEFINE c == PowerOf2[h]
    <3>2. c \in Nat /\ b \in Nat
      BY <2>1, <3>1, Powers
    <3>3. c = b \/ c <= a
      BY <1>2, <3>1
    <3> HIDE DEF a, b, c
    <3>4. c <= b
      BY <2>1, <3>2, <3>3
    <3> QED BY <3>4 DEF c
  <2> QED BY <2>1, <2>2
<1>3. \A i \in 0 .. Width : i \in holds
  <2>1. Width \in Nat
    OBVIOUS
  <2> HIDE DEF holds
  <2> QED BY <1>1, <1>2, <2>1, Upwards
<1>4. Width - j \in 0 .. Width /\ Width - k \in 0 .. Width - j
  OBVIOUS
<1>5. Width - j \in holds
  <2> HIDE DEF holds
  <2> QED BY <1>3, <1>4
<1> QED BY <1>4, <1>5

LEMMA LeadsAbove ==
    ASSUME ListInv, NEW t \in Words, NEW k \in 0 .. maxlevel - 1
    PROVE  RandLevel(t) > k <=> k <= curlevel /\ t < PowerOf2[Width - k]
<1>1. maxlevel \in Nat \ {0} /\ curlevel \in Nat \ {0} /\ k \in 0 .. Width /\ t \in Nat
  <2>1. maxlevel \in 1 .. MYSKL_MAXLEVELS
    BY DEF ListInv, Heights
  <2>2. curlevel \in 1 .. maxlevel
    BY DEF ListInv
  <2>3. t \in Nat
    BY WordsAre
  <2> QED BY <2>1, <2>2, <2>3
<1> DEFINE Above(lev) == ~(t > RAND_MAX_N \div PowerOf2[lev]) /\ ~(lev > curlevel)
<1>2. RandLevel(t) > k <=> \A lev \in 1 .. k : Above(lev)
  BY <1>1, RandLevelIs, Zenon
<1>3. ASSUME NEW lev \in 0 .. k
      PROVE  ~(t > RAND_MAX_N \div PowerOf2[lev]) <=> t < PowerOf2[Width - lev]
  <2>1. lev \in 0 .. Width /\ Width - lev \in 0 .. Width
    BY <1>1
  <2> DEFINE q == PowerOf2[Width - lev]
  <2>2. RAND_MAX_N \div PowerOf2[lev] = q - 1 /\ q \in Nat
    BY <2>1, BoundIs, Powers
  <2> HIDE DEF q
  <2>3. ~(t > q - 1) <=> t < q
    BY <1>1, <2>2
  <2> QED BY <2>2, <2>3 DEF q
<1>4. CASE k = 0
  <2>1. t < PowerOf2[Width - k]
    <3> DEFINE m == Modulus
    <3>1. Width - k = Width /\ PowerOf2[Width] = m
      BY <1>4 DEF Modulus
    <3>2. m \in Nat /\ t \in 0 .. m - 1
      BY Masks DEF Words
    <3> HIDE DEF m
    <3>3. t < m
      BY <3>2
    <3> QED BY <3>1, <3>3
  <2>2. k <= curlevel /\ \A lev \in 1 .. k : FALSE
    BY <1>1, <1>4
  <2> HIDE DEF Above
  <2> QED BY <1>2, <2>1, <2>2
<1>5. CASE k # 0
  <2>1. k \in 1 .. k /\ k \in 0 .. k /\ \A lev \in 1 .. k : lev \in 0 .. k
    BY <1>1, <1>5
  <2>2. ASSUME \A lev \in 1 .. k : Above(lev)
        PROVE  k <= curlevel /\ t < PowerOf2[Width - k]
    <3>1. Above(k)
      BY <2>1, <2>2
    <3> QED BY <1>1, <1>3, <2>1, <3>1
  <2>3. ASSUME k <= curlevel, t < PowerOf2[Width - k], NEW lev \in 1 .. k
        PROVE  Above(lev)
    <3> DEFINE a == PowerOf2[Width - k]
               b == PowerOf2[Width - lev]
    <3>1. lev \in 0 .. k /\ Width - k \in 0 .. Width /\ Width - lev \in 0 .. Width
      BY <1>1
    <3>2. a \in Nat /\ b \in Nat /\ a <= b /\ t < a
      BY <1>1, <2>3, <3>1, Powers, BoundsFall
    <3> HIDE DEF a, b
    <3>3. t < b
      BY <1>1, <3>2
    <3>4. ~(t > RAND_MAX_N \div PowerOf2[lev])
      BY <1>3, <3>1, <3>3 DEF b
    <3>5. ~(lev > curlevel)
      BY <1>1, <2>3
    <3> QED BY <3>4, <3>5
  <2> HIDE DEF Above
  <2> QED BY <1>2, <2>2, <2>3
<1> QED BY <1>4, <1>5

LEMMA Halves == ListInv => LevelsHalve
<1> SUFFICES ASSUME ListInv, NEW k \in 0 .. maxlevel - 1
             PROVE  Cardinality({w \in Words : RandLevel(Tempered[w]) > k}) =
                      IF k <= curlevel THEN PowerOf2[Width - k] ELSE 0
  BY DEF LevelsHalve
<1>1. \A w \in Words : Tempered[w] \in Words
  BY TemperedOnto DEF Injection
<1> DEFINE n == PowerOf2[Width - k]
<1>2. \A w \in Words : RandLevel(Tempered[w]) > k <=> k <= curlevel /\ Tempered[w] < n
  BY <1>1, LeadsAbove
<1>3. n \in Nat /\ n <= Modulus
  <2>1. maxlevel \in 1 .. MYSKL_MAXLEVELS
    BY DEF ListInv, Heights
  <2>2. k \in 0 .. Width /\ 0 \in 0 .. k /\ Width - k \in 0 .. Width /\ Width - 0 = Width
    BY <2>1
  <2>3. PowerOf2[Width - k] <= PowerOf2[Width - 0]
    BY <2>2, BoundsFall
  <2> QED BY <2>2, <2>3, Powers DEF Modulus
<1> HIDE DEF n
<1>4. CASE k <= curlevel
  <2>1. {w \in Words : RandLevel(Tempered[w]) > k} = {w \in Words : Tempered[w] < n}
    BY <1>2, <1>4
  <2>2. Cardinality({w \in Words : Tempered[w] < n}) = n
    BY <1>3, TemperedBelow
  <2> QED BY <1>4, <2>1, <2>2 DEF n
<1>5. CASE ~(k <= curlevel)
  <2>1. {w \in Words : RandLevel(Tempered[w]) > k} = {}
    BY <1>2, <1>5
  <2> QED BY <1>5, <2>1, FS_EmptySet
<1> QED BY <1>4, <1>5

(* With random numbers exactly one word in 2^k leads genLevel above level k, *)
(* up to the level the list lets a node have: the tempering of rand_int is  *)
(* one-to-one and loses no word, whatever its masks and shifts are, and the *)
(* divisions of genLevel round the right way.                               *)
THEOREM Halving == Spec => []LevelsHalve
<1>1. IInv => LevelsHalve
  BY Halves DEF IInv
<1> QED BY <1>1, Invariance, PTL
=================================================================================
