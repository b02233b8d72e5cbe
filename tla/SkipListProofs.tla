---------------------------- MODULE SkipListProofs ----------------------------
(***************************************************************************)
(* Theorems about SkipList, for any nodes, keys and heights.               *)
(***************************************************************************)
EXTENDS SkipList, FiniteSetTheorems, WellFoundedInduction, SequenceTheorems, TLAPS

-----------------------------------------------------------------------------
(* Induction over the numbers, for a set in place of a predicate            *)

(* Every set of natural numbers that has a member has a least one.           *)
LEMMA LeastNumber ==
    ASSUME NEW S \in SUBSET Nat, S # {}
    PROVE  \E m \in S : \A k \in S : m <= k
<1>1. PICK m \in S : \A k \in S : <<k, m>> \notin OpToRel(<, Nat)
  BY NatLessThanWellFounded, WFMin, Zenon
<1>2. \A k \in S : ~(k < m)
  BY <1>1, Zenon DEF OpToRel
<1> QED BY <1>2

(* What is true of 0, and of i + 1 when it is true of i, is true up to n:    *)
(* holds is the set of numbers it is true of.                                *)
LEMMA Upwards ==
    ASSUME NEW n \in Nat, NEW holds, 0 \in holds,
           \A i \in 1 .. n : i - 1 \in holds => i \in holds
    PROVE  \A i \in 0 .. n : i \in holds
<1> DEFINE fails == {i \in 0 .. n : i \notin holds}
<1>1. SUFFICES ASSUME fails # {}
               PROVE  FALSE
  OBVIOUS
<1>2. PICK m \in fails : \A k \in fails : m <= k
  <2>1. fails \in SUBSET Nat
    OBVIOUS
  <2> HIDE DEF fails
  <2> QED BY <1>1, <2>1, LeastNumber
<1>3. m \in 1 .. n /\ m - 1 \in holds
  BY <1>2
<1> QED BY <1>2, <1>3

(* f begins with first, and has at i what step[i] makes of what is before.   *)
Iterates(f, first, step) ==
    f[0] = first /\ \A i \in DOMAIN step : f[i] = step[i][f[i - 1]]

(* What steps make of first, one after the other, is a function.             *)
LEMMA Iterate ==
    ASSUME NEW n \in Nat, NEW A, NEW first \in A, NEW step \in [1 .. n -> [A -> A]]
    PROVE  \E f \in [0 .. n -> A] : Iterates(f, first, step)
<1> DEFINE Upto(f, k) == f[0] = first /\ \A i \in 1 .. k : f[i] = step[i][f[i - 1]]
           holds == {k \in 0 .. n : \E f \in [0 .. n -> A] : Upto(f, k)}
<1>1. 0 \in holds
  <2> DEFINE f == [i \in 0 .. n |-> first]
  <2>1. f \in [0 .. n -> A] /\ Upto(f, 0)
    OBVIOUS
  <2> HIDE DEF f, Upto
  <2> QED BY <2>1
<1>2. ASSUME NEW k \in 1 .. n, k - 1 \in holds
      PROVE  k \in holds
  <2>1. PICK f \in [0 .. n -> A] : Upto(f, k - 1)
    BY <1>2
  <2> DEFINE turn == step[k][f[k - 1]]
             g    == [f EXCEPT ![k] = turn]
  <2>2. turn \in A /\ k - 1 \in 0 .. n /\ k \in 0 .. n /\ k - 1 # k /\ 0 # k
    BY <2>1
  <2>3. g \in [0 .. n -> A] /\ g[k] = turn /\ \A i \in 0 .. n : i # k => g[i] = f[i]
    BY <2>1, <2>2
  <2>4. ASSUME NEW i \in 1 .. k
        PROVE  g[i] = step[i][g[i - 1]]
    <3>1. CASE i = k
      BY <2>2, <2>3, <3>1
    <3>2. CASE i # k
      <4>1. i \in 1 .. k - 1 /\ i \in 0 .. n /\ i - 1 \in 0 .. n /\ i - 1 # k
        BY <3>2
      <4> HIDE DEF g
      <4> QED BY <2>1, <2>3, <3>2, <4>1
    <3> QED BY <3>1, <3>2
  <2>5. Upto(g, k)
    BY <2>1, <2>2, <2>3, <2>4
  <2> HIDE DEF g, Upto
  <2> QED BY <2>2, <2>3, <2>5
<1>3. n \in holds
  <2>1. \A k \in 0 .. n : k \in holds
    <3> HIDE DEF holds
    <3> QED BY <1>1, <1>2, Upwards
  <2> HIDE DEF holds
  <2> QED BY <2>1
<1>4. PICK f \in [0 .. n -> A] : Upto(f, n)
  BY <1>3
<1>5. Iterates(f, first, step)
  BY <1>4 DEF Iterates
<1> QED BY <1>4, <1>5

-----------------------------------------------------------------------------

USE ListAssumption DEF ListAssumption

(* A set of numbers up to n that is not empty has a greatest one.            *)
LEMMA GreatestNumber ==
    ASSUME NEW n \in Nat, NEW S \in SUBSET (0 .. n), S # {}
    PROVE  \E m \in S : \A k \in S : k <= m
<1> DEFINE D == {n - k : k \in S}
<1>1. D \in SUBSET Nat /\ D # {}
  <2>1. \A k \in S : n - k \in Nat
    OBVIOUS
  <2>2. PICK k \in S : TRUE
    OBVIOUS
  <2>3. n - k \in D
    OBVIOUS
  <2> QED BY <2>1, <2>3
<1>2. PICK d \in D : \A e \in D : d <= e
  <2> HIDE DEF D
  <2> QED BY <1>1, LeastNumber
<1>3. PICK m \in S : d = n - m
  BY <1>2
<1>4. \A k \in S : k <= m
  <2> SUFFICES ASSUME NEW k \in S PROVE k <= m
    OBVIOUS
  <2>1. n - k \in D
    OBVIOUS
  <2>2. n - m <= n - k
    BY <1>2, <1>3, <2>1
  <2> QED BY <2>2
<1> QED BY <1>4

-----------------------------------------------------------------------------
(* The nodes in order                                                       *)

(* The list s as places 0 to Len(s) + 1: the header is at both ends.         *)
Cell(s, p) == IF p \in 1 .. Len(s) THEN s[p] ELSE NIL

(* What is at place p has level i.                                           *)
Tall(s, i, p) == p \in 0 .. Len(s) + 1 /\ (p \in 1 .. Len(s) => sz[s[p]] > i)

(* Places p and q are next to each other on level i.                         *)
Adjacent(s, i, p, q) ==
    /\ p \in 0 .. Len(s) /\ q \in 1 .. Len(s) + 1 /\ p < q
    /\ Tall(s, i, p) /\ Tall(s, i, q)
    /\ \A r \in 1 .. Len(s) : p < r /\ r < q => ~Tall(s, i, r)

(* The nodes of the list, each once, in the order of their keys.             *)
Sorted(s) ==
    /\ s \in Seq(Nodes)
    /\ \A n \in Nodes : sz[n] # 0 <=> \E p \in 1 .. Len(s) : s[p] = n
    /\ \A p, q \in 1 .. Len(s) : s[p] = s[q] => p = q
    /\ \A p \in 1 .. Len(s) : key[s[p]] \in Keys
    /\ \A p, q \in 1 .. Len(s) : p < q => key[s[p]] <= key[s[q]]

(* The links lead from neighbour to neighbour, and nowhere at the levels a   *)
(* node does not have.                                                       *)
Linking(s) ==
    /\ \A i \in Levels, p, q \in 0 .. Len(s) + 1 :
          Adjacent(s, i, p, q) => /\ next[Cell(s, p)][i] = Cell(s, q)
                                  /\ prev[Cell(s, q)][i] = Cell(s, p)
    /\ \A i \in Levels, n \in Nodes : sz[n] <= i => next[n][i] = NIL /\ prev[n][i] = NIL

(* The counters and the tail.                                                *)
Counted(s) ==
    /\ nodenum = Len(s)
    /\ tail = Cell(s, Len(s))
    /\ \A p \in 1 .. Len(s) : sz[s[p]] <= curlevel
    /\ curlevel > 1 => \E p \in 1 .. Len(s) : sz[s[p]] = curlevel

Shape(s) == Sorted(s) /\ Linking(s) /\ Counted(s)

IInv == TypeOK /\ \E s : Shape(s)

(* What the nodes in order are, as numbers and members.                      *)
LEMMA SortedIs ==
    ASSUME TypeOK, NEW s, Sorted(s)
    PROVE  /\ Len(s) \in Nat /\ DOMAIN s = 1 .. Len(s)
           /\ \A p \in 1 .. Len(s) : /\ s[p] \in Nodes /\ s[p] # NIL /\ s[p] \in Cells
                                     /\ sz[s[p]] \in 1 .. MaxLevel /\ key[s[p]] \in Nat
<1>1. s \in Seq(Nodes)
  BY DEF Sorted
<1>2. Len(s) \in Nat /\ DOMAIN s = 1 .. Len(s)
  BY <1>1
<1>3. ASSUME NEW p \in 1 .. Len(s)
      PROVE  /\ s[p] \in Nodes /\ s[p] # NIL /\ s[p] \in Cells
             /\ sz[s[p]] \in 1 .. MaxLevel /\ key[s[p]] \in Nat
  <2> DEFINE n == s[p]
  <2>1. n \in Nodes
    BY <1>1
  <2>2. sz[n] # 0 /\ key[n] \in Keys
    BY <2>1 DEF Sorted
  <2> HIDE DEF n
  <2>3. sz[n] \in 0 .. MaxLevel /\ n \in Cells /\ n # NIL /\ key[n] \in Nat
    BY <2>1, <2>2 DEF TypeOK, Cells
  <2>4. sz[n] \in 1 .. MaxLevel
    <3> DEFINE h == sz[n]
    <3>1. h \in 0 .. MaxLevel /\ h # 0
      BY <2>2, <2>3
    <3> HIDE DEF h
    <3>2. h \in 1 .. MaxLevel
      BY <3>1
    <3> QED BY <3>2 DEF h
  <2> QED BY <2>1, <2>3, <2>4 DEF n
<1> QED BY <1>2, <1>3

(* The header is at both ends, and a cell has one place between them.        *)
LEMMA CellIs ==
    ASSUME TypeOK, NEW s, Sorted(s)
    PROVE  /\ \A p : Cell(s, p) \in Cells
           /\ Cell(s, 0) = NIL /\ Cell(s, Len(s) + 1) = NIL
           /\ \A p \in 1 .. Len(s) : Cell(s, p) = s[p] /\ Cell(s, p) \in Nodes /\ Cell(s, p) # NIL
           /\ \A p, q \in 0 .. Len(s) : Cell(s, p) = Cell(s, q) => p = q
           /\ \A p, q \in 1 .. Len(s) + 1 : Cell(s, p) = Cell(s, q) => p = q
<1>1. /\ Len(s) \in Nat
      /\ \A p \in 1 .. Len(s) : s[p] \in Nodes /\ s[p] # NIL
      /\ \A p, q \in 1 .. Len(s) : s[p] = s[q] => p = q
  BY SortedIs DEF Sorted
<1>2. \A p \in 1 .. Len(s) : Cell(s, p) = s[p]
  BY DEF Cell
<1>3. \A p : p \notin 1 .. Len(s) => Cell(s, p) = NIL
  BY DEF Cell
<1>4. /\ 0 \notin 1 .. Len(s) /\ Len(s) + 1 \notin 1 .. Len(s)
      /\ \A p \in 0 .. Len(s) : p # 0 => p \in 1 .. Len(s)
      /\ \A p \in 1 .. Len(s) + 1 : p # Len(s) + 1 => p \in 1 .. Len(s)
  BY <1>1
<1>5. \A p : Cell(s, p) \in Cells
  BY <1>1, <1>2, <1>3 DEF Cells
<1>6. \A p, q \in 0 .. Len(s) : Cell(s, p) = Cell(s, q) => p = q
  BY <1>1, <1>2, <1>3, <1>4, Zenon
<1>7. \A p, q \in 1 .. Len(s) + 1 : Cell(s, p) = Cell(s, q) => p = q
  BY <1>1, <1>2, <1>3, <1>4, Zenon
<1> QED BY <1>1, <1>2, <1>3, <1>4, <1>5, <1>6, <1>7

(* On every level each place has one neighbour ahead and one behind.         *)
LEMMA NeighbourAhead ==
    ASSUME TypeOK, NEW s, Sorted(s), NEW i \in Levels, NEW p \in 0 .. Len(s), Tall(s, i, p)
    PROVE  \E q : Adjacent(s, i, p, q)
<1>1. Len(s) \in Nat
  BY SortedIs
<1> DEFINE S == {r \in 1 .. Len(s) + 1 : p < r /\ Tall(s, i, r)}
<1>2. Len(s) + 1 \in S
  BY <1>1 DEF Tall
<1>3. PICK q \in S : \A r \in S : q <= r
  <2>1. S \in SUBSET Nat /\ S # {}
    BY <1>1, <1>2
  <2> HIDE DEF S
  <2> QED BY <2>1, LeastNumber
<1>4. \A r \in 1 .. Len(s) : p < r /\ r < q => ~Tall(s, i, r)
  BY <1>1, <1>3
<1> QED BY <1>3, <1>4 DEF Adjacent

(* What is on a level has a neighbour behind it: the greatest place that is  *)
(* on it.                                                                    *)
LEMMA NeighbourBehind ==
    ASSUME TypeOK, NEW s, Sorted(s), NEW i \in Levels, NEW q \in 1 .. Len(s) + 1, Tall(s, i, q)
    PROVE  \E p : Adjacent(s, i, p, q)
<1>1. Len(s) \in Nat
  BY SortedIs
<1> DEFINE S == {r \in 0 .. Len(s) : r < q /\ Tall(s, i, r)}
<1>2. 0 \in S
  BY <1>1 DEF Tall
<1>3. PICK p \in S : \A r \in S : r <= p
  <2>1. S \in SUBSET (0 .. Len(s)) /\ S # {}
    BY <1>1, <1>2
  <2> HIDE DEF S
  <2> QED BY <1>1, <2>1, GreatestNumber
<1>4. \A r \in 1 .. Len(s) : p < r /\ r < q => ~Tall(s, i, r)
  BY <1>1, <1>3
<1> QED BY <1>3, <1>4 DEF Adjacent

(* And no second neighbour, ahead or behind.                                 *)
LEMMA OneNeighbour ==
    ASSUME TypeOK, NEW s, Sorted(s), NEW i \in Levels, NEW p, NEW q, NEW r, Adjacent(s, i, p, q)
    PROVE  /\ Adjacent(s, i, p, r) => r = q
           /\ Adjacent(s, i, r, q) => r = p
<1>1. Len(s) \in Nat
  BY SortedIs
<1> QED BY <1>1 DEF Adjacent, Tall

(* The links of a level, from neighbour to neighbour.                        *)
LEMMA LinksAre ==
    ASSUME TypeOK, NEW s, Shape(s), NEW i \in Levels, NEW p, NEW q, Adjacent(s, i, p, q)
    PROVE  next[Cell(s, p)][i] = Cell(s, q) /\ prev[Cell(s, q)][i] = Cell(s, p)
<1>1. Len(s) \in Nat
  BY SortedIs DEF Shape
<1>2. p \in 0 .. Len(s) + 1 /\ q \in 0 .. Len(s) + 1
  BY <1>1 DEF Adjacent
<1> QED BY <1>2 DEF Shape, Linking

-----------------------------------------------------------------------------
(* Search paths                                                             *)

(* The key at place p is less than k.                                        *)
Under(s, k, p) == p \in 0 .. Len(s) /\ (p # 0 => key[s[p]] < k)

(* The last place on level i whose key is less than k.                       *)
LastUnder(s, i, k, p) ==
    /\ Under(s, k, p) /\ Tall(s, i, p)
    /\ \A r \in 0 .. Len(s) : Under(s, k, r) /\ Tall(s, i, r) => r <= p

Below(s, i, k) == CHOOSE p : LastUnder(s, i, k, p)

(* The header has no key, so that there is such a place.                     *)
LEMMA BelowIs ==
    ASSUME TypeOK, NEW s, Sorted(s), NEW i \in Levels, NEW k \in Keys
    PROVE  LastUnder(s, i, k, Below(s, i, k)) /\ Below(s, i, k) \in 0 .. Len(s)
<1>1. Len(s) \in Nat
  BY SortedIs
<1> DEFINE S == {r \in 0 .. Len(s) : Under(s, k, r) /\ Tall(s, i, r)}
<1>2. 0 \in S
  BY <1>1 DEF Tall, Under
<1>3. PICK p \in S : \A r \in S : r <= p
  <2>1. S \in SUBSET (0 .. Len(s)) /\ S # {}
    BY <1>1, <1>2
  <2> HIDE DEF S
  <2> QED BY <1>1, <2>1, GreatestNumber
<1>4. LastUnder(s, i, k, p)
  BY <1>3 DEF LastUnder
<1>5. LastUnder(s, i, k, Below(s, i, k))
  BY <1>4, Zenon DEF Below
<1> QED BY <1>5 DEF LastUnder, Under

(* The places with keys less than k come first.                              *)
LEMMA UnderFirst ==
    ASSUME TypeOK, NEW s, Sorted(s), NEW k \in Keys, NEW q, Under(s, k, q), NEW p \in 0 .. q
    PROVE  Under(s, k, p)
<1>1. /\ Len(s) \in Nat /\ \A r \in 1 .. Len(s) : key[s[r]] \in Nat
      /\ \A a, b \in 1 .. Len(s) : a < b => key[s[a]] <= key[s[b]]
  BY SortedIs DEF Sorted
<1>2. k \in Nat /\ q \in 0 .. Len(s) /\ p \in 0 .. Len(s)
  BY <1>1 DEF Under
<1> QED BY <1>1, <1>2 DEF Under

(* A node on a level is on the levels below.                                 *)
LEMMA TallBelow ==
    ASSUME TypeOK, NEW s, Sorted(s), NEW i \in Levels, NEW j \in 0 .. i, NEW p, Tall(s, i, p)
    PROVE  Tall(s, j, p)
<1>1. \A r \in 1 .. Len(s) : sz[s[r]] \in 1 .. MaxLevel
  BY SortedIs
<1> QED BY <1>1 DEF Tall, Levels

(* The function by which Advance walks.                                      *)
Advances(f, i, k) ==
    f = [d \in Cells |-> IF next[d][i] # NIL /\ key[next[d][i]] < k THEN f[next[d][i]] ELSE d]

(* Advance is a function of that kind, when there is one.                    *)
LEMMA AdvanceIsSome ==
    ASSUME NEW c, NEW i, NEW k, \E f : Advances(f, i, k)
    PROVE  \E f : Advances(f, i, k) /\ Advance(c, i, k) = f[c]
BY Zenon DEF Advances, Advance

(* One turn of the inner loop, from place p on.                              *)
LEMMA AdvanceTurn ==
    ASSUME TypeOK, NEW s, Shape(s), NEW i \in Levels, NEW k \in Keys,
           NEW p \in 0 .. Len(s), Tall(s, i, p), NEW q, Adjacent(s, i, p, q)
    PROVE  /\ next[Cell(s, p)][i] = Cell(s, q)
           /\ next[Cell(s, p)][i] # NIL /\ key[next[Cell(s, p)][i]] < k <=> Under(s, k, q)
<1>1. Len(s) \in Nat /\ Sorted(s)
  BY SortedIs DEF Shape
<1>2. next[Cell(s, p)][i] = Cell(s, q)
  BY LinksAre
<1>3. q \in 1 .. Len(s) + 1
  BY DEF Adjacent
<1>4. CASE q = Len(s) + 1
  BY <1>1, <1>2, <1>4, CellIs DEF Under
<1>5. CASE q \in 1 .. Len(s)
  BY <1>1, <1>2, <1>5, CellIs DEF Under
<1> QED BY <1>1, <1>2, <1>3, <1>4, <1>5

(* There is one: from each cell of the level to the last cell with a         *)
(* smaller key.                                                              *)
LEMMA AdvancesExist ==
    ASSUME TypeOK, NEW s, Shape(s), NEW i \in Levels, NEW k \in Keys
    PROVE  \E f : Advances(f, i, k)
<1> DEFINE last == Cell(s, Below(s, i, k))
           Goes(d) == d = NIL \/ (sz[d] > i /\ key[d] < k)
           f == [d \in Cells |-> IF Goes(d) THEN last ELSE d]
<1>1. /\ Len(s) \in Nat /\ Sorted(s)
      /\ LastUnder(s, i, k, Below(s, i, k)) /\ Below(s, i, k) \in 0 .. Len(s)
      /\ \A r \in 1 .. Len(s) : s[r] \in Nodes /\ s[r] # NIL /\ key[s[r]] \in Nat
  BY SortedIs, BelowIs DEF Shape
<1>2. i \in Nat /\ k \in Nat
  BY DEF Levels
<1>3. ASSUME NEW p \in 0 .. Len(s), Tall(s, i, p)
      PROVE  Goes(Cell(s, p)) <=> Under(s, k, p)
  <2>1. CASE p = 0
    BY <1>1, <2>1, CellIs DEF Under
  <2>2. CASE p \in 1 .. Len(s)
    BY <1>1, <2>2, <1>3, CellIs DEF Under, Tall
  <2> QED BY <1>1, <2>1, <2>2
<1>4. ASSUME NEW d \in Cells
      PROVE  f[d] = IF next[d][i] # NIL /\ key[next[d][i]] < k THEN f[next[d][i]] ELSE d
  <2>1. CASE d \in Nodes /\ sz[d] <= i
    <3>1. next[d][i] = NIL
      BY <2>1 DEF Shape, Linking
    <3>2. d # NIL /\ ~(sz[d] > i)
      BY <1>2, <2>1 DEF TypeOK, Cells
    <3> QED BY <3>1, <3>2
  <2>2. CASE ~(d \in Nodes /\ sz[d] <= i)
    <3>1. PICK p \in 0 .. Len(s) : d = Cell(s, p) /\ Tall(s, i, p)
      <4>1. CASE d = NIL
        BY <1>1, <4>1, CellIs DEF Tall
      <4>2. CASE d # NIL
        <5>1. d \in Nodes /\ sz[d] \in Nat /\ sz[d] > i /\ sz[d] # 0
          BY <1>2, <2>2, <4>2 DEF Cells, TypeOK
        <5>2. PICK p \in 1 .. Len(s) : s[p] = d
          BY <1>1, <5>1 DEF Sorted
        <5> QED BY <1>1, <5>1, <5>2 DEF Tall, Cell
      <4> QED BY <4>1, <4>2
    <3>2. PICK q : Adjacent(s, i, p, q)
      BY <1>1, <3>1, NeighbourAhead
    <3>3. /\ next[d][i] = Cell(s, q)
          /\ next[d][i] # NIL /\ key[next[d][i]] < k <=> Under(s, k, q)
      BY <3>1, <3>2, AdvanceTurn
    <3>4. q \in 1 .. Len(s) + 1 /\ Tall(s, i, q) /\ p < q
      BY <3>2 DEF Adjacent
    <3>5. CASE Under(s, k, q)
      <4>1. Under(s, k, p)
        BY <1>1, <3>1, <3>4, <3>5, UnderFirst
      <4>2. q \in 0 .. Len(s)
        BY <3>5 DEF Under
      <4>3. Goes(d) /\ Goes(next[d][i])
        BY <1>3, <3>1, <3>3, <3>4, <3>5, <4>1, <4>2
      <4>4. next[d][i] \in Cells
        BY DEF TypeOK
      <4> QED BY <3>3, <3>5, <4>3, <4>4
    <3>6. CASE ~Under(s, k, q)
      <4>1. CASE Under(s, k, p)
        <5>1. ASSUME NEW r \in 0 .. Len(s), Under(s, k, r), Tall(s, i, r), r > p
              PROVE  FALSE
          <6>1. r < q
            BY <1>1, <3>4, <3>6, <5>1, UnderFirst
          <6> QED BY <1>1, <3>2, <5>1, <6>1 DEF Adjacent
        <5>2. Below(s, i, k) = p
          BY <1>1, <3>1, <4>1, <5>1 DEF LastUnder
        <5> QED BY <1>3, <3>1, <3>3, <3>6, <4>1, <5>2
      <4>2. CASE ~Under(s, k, p)
        BY <1>3, <3>1, <3>3, <3>6, <4>2
      <4> QED BY <4>1, <4>2
    <3> QED BY <3>5, <3>6
  <2> QED BY <2>1, <2>2
<1> HIDE DEF last, Goes
<1>5. Advances(f, i, k)
  BY <1>4 DEF Advances
<1> QED BY <1>5

(* The inner loop ends at the last cell on its level whose key is less.      *)
LEMMA AdvanceIs ==
    ASSUME TypeOK, NEW s, Shape(s), NEW i \in Levels, NEW k \in Keys,
           NEW p, Under(s, k, p), Tall(s, i, p)
    PROVE  Advance(Cell(s, p), i, k) = Cell(s, Below(s, i, k))
<1> DEFINE m == Below(s, i, k)
<1>1. PICK f : Advances(f, i, k) /\ Advance(Cell(s, p), i, k) = f[Cell(s, p)]
  BY AdvancesExist, AdvanceIsSome
<1>2. /\ Len(s) \in Nat /\ Sorted(s) /\ LastUnder(s, i, k, m) /\ m \in 0 .. Len(s)
  BY SortedIs, BelowIs DEF Shape
<1> HIDE DEF m
<1>3. \A d \in Cells : f[d] = IF next[d][i] # NIL /\ key[next[d][i]] < k
                              THEN f[next[d][i]] ELSE d
  BY <1>1 DEF Advances
<1>4. ASSUME NEW a \in 0 .. Len(s), Under(s, k, a), Tall(s, i, a), NEW q, Adjacent(s, i, a, q)
      PROVE  f[Cell(s, a)] = IF Under(s, k, q) THEN f[Cell(s, q)] ELSE Cell(s, a)
  BY <1>2, <1>3, <1>4, AdvanceTurn, CellIs
<1> DEFINE fails == {a \in 0 .. Len(s) : Under(s, k, a) /\ Tall(s, i, a) /\ f[Cell(s, a)] # Cell(s, m)}
<1>5. ASSUME fails # {}
      PROVE  FALSE
  <2>1. PICK a \in fails : \A b \in fails : b <= a
    <3>1. fails \in SUBSET (0 .. Len(s))
      OBVIOUS
    <3> HIDE DEF fails
    <3> QED BY <1>2, <1>5, <3>1, GreatestNumber
  <2>2. PICK q : Adjacent(s, i, a, q)
    BY <1>2, <2>1, NeighbourAhead
  <2>3. f[Cell(s, a)] = IF Under(s, k, q) THEN f[Cell(s, q)] ELSE Cell(s, a)
    BY <1>4, <2>1, <2>2
  <2>4. q \in 1 .. Len(s) + 1 /\ Tall(s, i, q) /\ a < q
    BY <2>2 DEF Adjacent
  <2>5. CASE Under(s, k, q)
    <3>1. q \in 0 .. Len(s)
      BY <2>5 DEF Under
    <3>2. q \notin fails
      BY <1>2, <2>1, <2>4, <3>1
    <3> QED BY <2>1, <2>3, <2>4, <2>5, <3>1, <3>2
  <2>6. CASE ~Under(s, k, q)
    <3>1. ASSUME a < m
          PROVE  FALSE
      <4>1. m < q
        BY <1>2, <2>4, <2>6, UnderFirst DEF LastUnder
      <4> QED BY <1>2, <2>2, <3>1, <4>1 DEF Adjacent, LastUnder
    <3>2. a <= m
      BY <1>2, <2>1 DEF LastUnder
    <3>3. a = m
      BY <1>2, <2>1, <3>1, <3>2
    <3> QED BY <2>1, <2>3, <2>6, <3>3
  <2> QED BY <2>5, <2>6
<1>6. p \in 0 .. Len(s)
  BY DEF Under
<1>7. f[Cell(s, p)] = Cell(s, m)
  BY <1>5, <1>6
<1> QED BY <1>1, <1>7 DEF m

(* The function by which Path goes down.                                     *)
Descends(f, top, k) ==
    f = [i \in 0 .. top - 1 |-> Advance(IF i = top - 1 THEN NIL ELSE f[i + 1], i, k)]

(* Path is a function of that kind, when there is one.                       *)
LEMMA PathIsSome ==
    ASSUME NEW top, NEW k, \E f : Descends(f, top, k)
    PROVE  \E f : Descends(f, top, k) /\ Path(top, k) = f
BY Zenon DEF Descends, Path

(* update[i] is the last cell on level i whose key is less than k.           *)
LEMMA PathIs ==
    ASSUME TypeOK, NEW s, Shape(s), NEW top \in 1 .. MaxLevel, NEW k \in Keys
    PROVE  \A i \in 0 .. top - 1 : Path(top, k)[i] = Cell(s, Below(s, i, k))
<1>1. /\ Len(s) \in Nat /\ Sorted(s) /\ top \in Nat /\ MaxLevel \in Nat
      /\ Tall(s, top - 1, 0) /\ Under(s, k, 0) /\ Cell(s, 0) = NIL
  BY SortedIs, CellIs DEF Shape, Tall, Under
<1>2. 0 .. top - 1 \subseteq Levels /\ top - 1 \in Levels
  BY <1>1 DEF Levels
<1>3. Advance(NIL, top - 1, k) = Cell(s, Below(s, top - 1, k))
  BY <1>1, <1>2, AdvanceIs
<1>4. ASSUME NEW i \in 0 .. top - 1, i # top - 1
      PROVE  Advance(Cell(s, Below(s, i + 1, k)), i, k) = Cell(s, Below(s, i, k))
  <2>1. i \in Levels /\ i + 1 \in Levels /\ i \in 0 .. i + 1
    BY <1>1, <1>2, <1>4
  <2>2. LastUnder(s, i + 1, k, Below(s, i + 1, k))
    BY <1>1, <2>1, BelowIs
  <2>3. Under(s, k, Below(s, i + 1, k)) /\ Tall(s, i, Below(s, i + 1, k))
    BY <1>1, <2>1, <2>2, TallBelow DEF LastUnder
  <2> QED BY <2>1, <2>3, AdvanceIs
<1> DEFINE g == [i \in 0 .. top - 1 |-> Cell(s, Below(s, i, k))]
<1>5. Descends(g, top, k)
  <2>1. ASSUME NEW i \in 0 .. top - 1
        PROVE  g[i] = Advance(IF i = top - 1 THEN NIL ELSE g[i + 1], i, k)
    <3>1. CASE i = top - 1
      BY <1>3, <3>1
    <3>2. CASE i # top - 1
      <4>1. i + 1 \in 0 .. top - 1
        BY <1>1, <3>2
      <4>2. g[i + 1] = Cell(s, Below(s, i + 1, k)) /\ g[i] = Cell(s, Below(s, i, k))
        BY <4>1
      <4> HIDE DEF g
      <4> QED BY <1>4, <3>2, <4>2
    <3> QED BY <3>1, <3>2
  <2> QED BY <2>1 DEF Descends
<1> HIDE DEF g
<1>6. PICK f : Descends(f, top, k) /\ Path(top, k) = f
  BY <1>5, PathIsSome
<1>7. \A i \in 0 .. top - 1 : f[i] = Advance(IF i = top - 1 THEN NIL ELSE f[i + 1], i, k)
  BY <1>6 DEF Descends
<1> DEFINE fails == {i \in 0 .. top - 1 : f[i] # Cell(s, Below(s, i, k))}
<1>8. ASSUME fails # {}
      PROVE  FALSE
  <2>1. PICK i \in fails : \A j \in fails : j <= i
    <3>1. fails \in SUBSET (0 .. top - 1) /\ top - 1 \in Nat
      BY <1>1
    <3> HIDE DEF fails
    <3> QED BY <1>8, <3>1, GreatestNumber
  <2>2. CASE i = top - 1
    BY <1>3, <1>7, <2>1, <2>2
  <2>3. CASE i # top - 1
    <3>1. i + 1 \in 0 .. top - 1 /\ i + 1 \notin fails
      BY <1>1, <2>1, <2>3
    <3>2. f[i + 1] = Cell(s, Below(s, i + 1, k))
      BY <3>1
    <3> QED BY <1>4, <1>7, <2>1, <2>3, <3>2
  <2> QED BY <2>2, <2>3
<1> QED BY <1>6, <1>8

(* The path ends in front of the first node whose key is not less than k.    *)
LEMMA StopIs ==
    ASSUME TypeOK, NEW s, Shape(s), NEW k \in Keys
    PROVE  /\ Path(curlevel, k)[0] = Cell(s, Below(s, 0, k))
           /\ Stop(k) = Cell(s, Below(s, 0, k) + 1)
           /\ Adjacent(s, 0, Below(s, 0, k), Below(s, 0, k) + 1)
           /\ \A p \in 1 .. Len(s) : key[s[p]] < k <=> p <= Below(s, 0, k)
<1> DEFINE m == Below(s, 0, k)
<1>1. /\ Len(s) \in Nat /\ Sorted(s) /\ k \in Nat /\ 0 \in Levels
      /\ \A p \in 1 .. Len(s) : sz[s[p]] \in 1 .. MaxLevel /\ key[s[p]] \in Nat
  BY SortedIs DEF Shape, Levels
<1>2. LastUnder(s, 0, k, m) /\ m \in 0 .. Len(s)
  BY <1>1, BelowIs
<1>3. Path(curlevel, k)[0] = Cell(s, m)
  <2>1. curlevel \in 1 .. MaxLevel /\ 0 \in 0 .. curlevel - 1
    BY DEF TypeOK
  <2> QED BY <2>1, PathIs
<1> HIDE DEF m
<1>4. \A p \in 0 .. Len(s) + 1 : Tall(s, 0, p)
  BY <1>1 DEF Tall
<1>5. Adjacent(s, 0, m, m + 1)
  BY <1>1, <1>2, <1>4 DEF Adjacent
<1>6. Stop(k) = Cell(s, m + 1)
  BY <1>1, <1>3, <1>5, LinksAre DEF Stop
<1>7. \A p \in 1 .. Len(s) : p <= m => Under(s, k, p)
  BY <1>1, <1>2, UnderFirst DEF LastUnder
<1>8. \A p \in 1 .. Len(s) : key[s[p]] < k <=> p <= m
  BY <1>1, <1>2, <1>4, <1>7 DEF LastUnder, Under
<1> QED BY <1>3, <1>5, <1>6, <1>8 DEF m

-----------------------------------------------------------------------------
(* A node more or a node less                                               *)

(* Where place p is when a node is put behind place m.                       *)
Up(m, p) == IF p <= m THEN p ELSE p + 1

Grow(s, m, n) == [j \in 1 .. Len(s) + 1 |-> IF j <= m THEN s[j] ELSE IF j = m + 1 THEN n ELSE s[j - 1]]

(* s without what is behind place m.                                         *)
Shrink(s, m) == [j \in 1 .. Len(s) - 1 |-> s[Up(m, j)]]

(* The places of s among those of s with a node more.                        *)
LEMMA UpIs ==
    ASSUME NEW N \in Nat, NEW m \in 0 .. N
    PROVE  /\ \A p \in 0 .. N + 1 : Up(m, p) \in 0 .. N + 2 /\ Up(m, p) # m + 1
           /\ \A p \in 0 .. N : Up(m, p) \in 0 .. N + 1
           /\ \A p \in 1 .. N : Up(m, p) \in 1 .. N + 1
           /\ \A p, q \in 0 .. N + 1 : p < q <=> Up(m, p) < Up(m, q)
           /\ \A a \in 0 .. N + 2 : a = m + 1 \/ \E p \in 0 .. N + 1 : a = Up(m, p)
           /\ \A a \in 1 .. N + 1 : a = m + 1 \/ \E p \in 1 .. N : a = Up(m, p)
<1>1. ASSUME NEW a \in 0 .. N + 2, a # m + 1
      PROVE  \E p \in 0 .. N + 1 : a = Up(m, p)
  <2>1. CASE a <= m
    BY <2>1 DEF Up
  <2>2. CASE a > m
    <3>1. a - 1 \in 0 .. N + 1 /\ ~(a - 1 <= m) /\ (a - 1) + 1 = a
      BY <1>1, <2>2
    <3> QED BY <3>1 DEF Up
  <2> QED BY <2>1, <2>2
<1>2. ASSUME NEW a \in 1 .. N + 1, a # m + 1
      PROVE  \E p \in 1 .. N : a = Up(m, p)
  <2>1. CASE a <= m
    BY <2>1 DEF Up
  <2>2. CASE a > m
    <3>1. a - 1 \in 1 .. N /\ ~(a - 1 <= m) /\ (a - 1) + 1 = a
      BY <1>2, <2>2
    <3> QED BY <3>1 DEF Up
  <2> QED BY <2>1, <2>2
<1>3. \A p, q \in 0 .. N + 1 : p < q <=> Up(m, p) < Up(m, q)
  BY DEF Up
<1>4. \A p \in 0 .. N + 1 : Up(m, p) \in 0 .. N + 2 /\ Up(m, p) # m + 1
  BY DEF Up
<1>5. /\ \A p \in 0 .. N : Up(m, p) \in 0 .. N + 1
      /\ \A p \in 1 .. N : Up(m, p) \in 1 .. N + 1
  BY DEF Up
<1> QED BY <1>1, <1>2, <1>3, <1>4, <1>5

(* t is s with n behind place m.                                             *)
Grew(s, m, n, t) ==
    /\ t \in Seq(Nodes) /\ Len(t) = Len(s) + 1
    /\ t[m + 1] = n /\ Cell(t, m + 1) = n
    /\ \A p \in 1 .. Len(s) : t[Up(m, p)] = s[p]
    /\ \A p \in 0 .. Len(s) + 1 : Cell(t, Up(m, p)) = Cell(s, p)

(* A node put behind place m leaves the other cells in their order.          *)
LEMMA GrowIs ==
    ASSUME NEW s \in Seq(Nodes), NEW m \in 0 .. Len(s), NEW n \in Nodes
    PROVE  Grew(s, m, n, Grow(s, m, n))
<1> DEFINE t == Grow(s, m, n)
<1>1. Len(s) \in Nat /\ \A p \in 1 .. Len(s) : s[p] \in Nodes
  OBVIOUS
<1>2. t \in [1 .. Len(s) + 1 -> Nodes]
  BY <1>1 DEF Grow
<1>3. t \in Seq(Nodes) /\ Len(t) = Len(s) + 1
  <2> HIDE DEF t
  <2> QED BY <1>1, <1>2
<1>4. t[m + 1] = n
  BY <1>1 DEF Grow
<1>5. ASSUME NEW p \in 1 .. Len(s)
      PROVE  t[Up(m, p)] = s[p]
  <2>1. CASE p <= m
    BY <1>1, <2>1 DEF Grow, Up
  <2>2. CASE p > m
    <3>1. Up(m, p) = p + 1 /\ p + 1 \in 1 .. Len(s) + 1 /\ (p + 1) - 1 = p
          /\ ~(p + 1 <= m) /\ p + 1 # m + 1
      BY <1>1, <2>2 DEF Up
    <3>2. t[p + 1] = s[(p + 1) - 1]
      BY <3>1 DEF Grow
    <3> QED BY <3>1, <3>2
  <2> QED BY <2>1, <2>2
<1> HIDE DEF t
<1>6. ASSUME NEW p \in 0 .. Len(s) + 1
      PROVE  Cell(t, Up(m, p)) = Cell(s, p)
  <2>1. CASE p \in 1 .. Len(s)
    <3>1. Up(m, p) \in 1 .. Len(s) + 1
      BY <1>1, <2>1 DEF Up
    <3> QED BY <1>3, <1>5, <2>1, <3>1 DEF Cell
  <2>2. CASE p \notin 1 .. Len(s)
    <3>1. Up(m, p) \notin 1 .. Len(s) + 1
      BY <1>1, <2>2 DEF Up
    <3> QED BY <1>3, <2>2, <3>1 DEF Cell
  <2> QED BY <2>1, <2>2
<1>7. Cell(t, m + 1) = n
  BY <1>1, <1>3, <1>4 DEF Cell
<1> QED BY <1>3, <1>4, <1>5, <1>6, <1>7, Zenon DEF t, Grew

(* A node taken away leaves the other cells in their order.                  *)
LEMMA ShrinkIs ==
    ASSUME NEW s \in Seq(Nodes), NEW m \in 0 .. Len(s) - 1
    PROVE  /\ Shrink(s, m) \in Seq(Nodes) /\ Len(Shrink(s, m)) = Len(s) - 1
           /\ \A p \in 1 .. Len(s) - 1 : Shrink(s, m)[p] = s[Up(m, p)]
           /\ \A p \in 0 .. Len(s) : Cell(Shrink(s, m), p) = Cell(s, Up(m, p))
<1> DEFINE t == Shrink(s, m)
<1>1. Len(s) \in Nat /\ \A p \in 1 .. Len(s) : s[p] \in Nodes
  OBVIOUS
<1>2. \A p \in 1 .. Len(s) - 1 : Up(m, p) \in 1 .. Len(s)
  BY <1>1 DEF Up
<1>3. t \in [1 .. Len(s) - 1 -> Nodes]
  BY <1>1, <1>2 DEF Shrink
<1>4. \A p \in 1 .. Len(s) - 1 : t[p] = s[Up(m, p)]
  BY DEF Shrink
<1> HIDE DEF t
<1>5. t \in Seq(Nodes) /\ Len(t) = Len(s) - 1
  <2>1. Len(s) - 1 \in Nat
    BY <1>1
  <2> QED BY <1>3, <2>1
<1>6. ASSUME NEW p \in 0 .. Len(s)
      PROVE  Cell(t, p) = Cell(s, Up(m, p))
  <2>1. CASE p \in 1 .. Len(s) - 1
    BY <1>2, <1>4, <1>5, <2>1 DEF Cell
  <2>2. CASE p \notin 1 .. Len(s) - 1
    <3>1. Up(m, p) \notin 1 .. Len(s)
      BY <1>1, <2>2 DEF Up
    <3> QED BY <1>5, <2>2, <3>1 DEF Cell
  <2> QED BY <2>1, <2>2
<1> QED BY <1>4, <1>5, <1>6 DEF t

(* A node of the given height and key behind the nodes with smaller keys.    *)
Arrives(s, m, n, k, lev) ==
    /\ n \in Nodes /\ sz[n] = 0 /\ k \in Keys /\ lev \in 1 .. MaxLevel
    /\ m \in 0 .. Len(s) /\ \A p \in 1 .. Len(s) : key[s[p]] < k <=> p <= m
    /\ sz' = [sz EXCEPT ![n] = lev]
    /\ key' = [key EXCEPT ![n] = k]

(* The node that arrives was not in the list.                                *)
LEMMA ArrivalIs ==
    ASSUME TypeOK, NEW s, Sorted(s), NEW m, NEW n, NEW k, NEW lev, Arrives(s, m, n, k, lev)
    PROVE  /\ sz'[n] = lev /\ key'[n] = k
           /\ \A c \in Cells : c # n => sz'[c] = sz[c]
           /\ \A c \in Nodes : c # n => key'[c] = key[c]
           /\ \A p \in 1 .. Len(s) : s[p] # n
<1>1. sz \in [Cells -> 0 .. MaxLevel] /\ key \in [Nodes -> Keys \cup {0}] /\ n \in Cells
  BY DEF TypeOK, Arrives, Cells
<1>2. n \in Nodes /\ sz' = [sz EXCEPT ![n] = lev] /\ key' = [key EXCEPT ![n] = k]
  BY DEF Arrives
<1>3. \A p \in 1 .. Len(s) : s[p] # n
  BY DEF Sorted, Arrives
<1> QED BY <1>1, <1>2, <1>3

(* The other nodes keep their levels when one arrives.                       *)
LEMMA GrowTall ==
    ASSUME TypeOK, NEW s, Sorted(s), NEW m, NEW n, NEW k, NEW lev, Arrives(s, m, n, k, lev),
           NEW i \in Levels
    PROVE  /\ \A p \in 0 .. Len(s) + 1 : Tall(Grow(s, m, n), i, Up(m, p))' <=> Tall(s, i, p)
           /\ Tall(Grow(s, m, n), i, m + 1)' <=> lev > i
<1> DEFINE t == Grow(s, m, n)
<1>1. /\ s \in Seq(Nodes) /\ Len(s) \in Nat /\ m \in 0 .. Len(s) /\ n \in Nodes
      /\ \A p \in 1 .. Len(s) : s[p] \in Cells
  BY SortedIs DEF Arrives, Sorted
<1>2. /\ Len(t) = Len(s) + 1 /\ t[m + 1] = n
      /\ \A p \in 1 .. Len(s) : t[Up(m, p)] = s[p]
  BY <1>1, GrowIs DEF Grew
<1> HIDE DEF t
<1>3. \A p \in 1 .. Len(s) : sz'[s[p]] = sz[s[p]]
  BY <1>1, ArrivalIs
<1>4. ASSUME NEW p \in 0 .. Len(s) + 1
      PROVE  Tall(t, i, Up(m, p))' <=> Tall(s, i, p)
  <2>1. CASE p \in 1 .. Len(s)
    <3>1. Up(m, p) \in 1 .. Len(s) + 1
      BY <1>1, <2>1, UpIs
    <3>2. sz'[t[Up(m, p)]] = sz[s[p]]
      BY <1>2, <1>3, <2>1
    <3> QED BY <1>1, <1>2, <2>1, <3>1, <3>2 DEF Tall
  <2>2. CASE p \notin 1 .. Len(s)
    <3>1. Up(m, p) \notin 1 .. Len(s) + 1 /\ Up(m, p) \in 0 .. Len(s) + 2
      BY <1>1, <2>2 DEF Up
    <3> QED BY <1>1, <1>2, <2>2, <3>1 DEF Tall
  <2> QED BY <2>1, <2>2
<1>5. Tall(t, i, m + 1)' <=> lev > i
  <2>1. sz'[t[m + 1]] = lev
    BY <1>2, ArrivalIs
  <2>2. m + 1 \in 1 .. Len(s) + 1
    BY <1>1
  <2> QED BY <1>1, <1>2, <2>1, <2>2 DEF Tall
<1> QED BY <1>4, <1>5 DEF t

(* The nodes stay in the order of their keys when one arrives.               *)
LEMMA GrowSorted ==
    ASSUME TypeOK, NEW s, Sorted(s), NEW m, NEW n, NEW k, NEW lev, Arrives(s, m, n, k, lev)
    PROVE  Sorted(Grow(s, m, n))'
<1> DEFINE t == Grow(s, m, n)
<1>1. /\ s \in Seq(Nodes) /\ Len(s) \in Nat /\ m \in 0 .. Len(s) /\ n \in Nodes /\ k \in Keys
      /\ lev # 0 /\ k \in Nat
      /\ \A p \in 1 .. Len(s) : s[p] \in Nodes /\ s[p] \in Cells /\ key[s[p]] \in Nat
  BY SortedIs DEF Arrives, Sorted
<1>2. /\ t \in Seq(Nodes) /\ Len(t) = Len(s) + 1 /\ t[m + 1] = n
      /\ \A p \in 1 .. Len(s) : t[Up(m, p)] = s[p]
  <2>1. s \in Seq(Nodes) /\ m \in 0 .. Len(s) /\ n \in Nodes
    BY <1>1
  <2>2. Grew(s, m, n, t)
    BY <2>1, GrowIs, Zenon
  <2> HIDE DEF t
  <2> QED BY <2>2, Zenon DEF Grew
<1> HIDE DEF t
<1>3. /\ \A p \in 1 .. Len(s) : Up(m, p) \in 1 .. Len(s) + 1
      /\ \A p, q \in 1 .. Len(s) : p < q <=> Up(m, p) < Up(m, q)
      /\ \A a \in 1 .. Len(s) + 1 : a = m + 1 \/ \E p \in 1 .. Len(s) : a = Up(m, p)
      /\ m + 1 \in 1 .. Len(s) + 1
  <2>1. Len(s) \in Nat /\ m \in 0 .. Len(s)
    BY <1>1
  <2>2. \A p \in 1 .. Len(s) : p \in 0 .. Len(s) + 1
    BY <2>1
  <2>3. /\ \A p \in 1 .. Len(s) : Up(m, p) \in 1 .. Len(s) + 1
        /\ \A p, q \in 0 .. Len(s) + 1 : p < q <=> Up(m, p) < Up(m, q)
        /\ \A a \in 1 .. Len(s) + 1 : a = m + 1 \/ \E p \in 1 .. Len(s) : a = Up(m, p)
    BY <2>1, UpIs, Zenon
  <2>4. m + 1 \in 1 .. Len(s) + 1
    BY <2>1
  <2> QED BY <2>2, <2>3, <2>4, Zenon
<1>4. /\ sz'[n] # 0 /\ key'[n] = k
      /\ \A c \in Nodes : c # n => sz'[c] = sz[c] /\ key'[c] = key[c]
      /\ \A p \in 1 .. Len(s) : s[p] # n
  BY <1>1, ArrivalIs DEF Cells
<1>5. /\ \A c \in Nodes : sz[c] # 0 <=> \E p \in 1 .. Len(s) : s[p] = c
      /\ \A p, q \in 1 .. Len(s) : s[p] = s[q] => p = q
      /\ \A p \in 1 .. Len(s) : key[s[p]] \in Keys
      /\ \A p, q \in 1 .. Len(s) : p < q => key[s[p]] <= key[s[q]]
  BY DEF Sorted
<1>6. \A p \in 1 .. Len(s) : key'[s[p]] = key[s[p]]
  BY <1>1, <1>4
<1>7. ASSUME NEW c \in Nodes
      PROVE  sz'[c] # 0 <=> \E a \in 1 .. Len(s) + 1 : t[a] = c
  <2>1. CASE c = n
    BY <1>2, <1>3, <1>4, <2>1, Zenon
  <2>2. CASE c # n
    <3>1. sz'[c] # 0 <=> \E p \in 1 .. Len(s) : s[p] = c
      BY <1>4, <1>5, <2>2
    <3>2. (\E p \in 1 .. Len(s) : s[p] = c) <=> \E a \in 1 .. Len(s) + 1 : t[a] = c
      BY <1>2, <1>3, <2>2
    <3> QED BY <3>1, <3>2
  <2> QED BY <2>1, <2>2
<1>8. ASSUME NEW a \in 1 .. Len(s) + 1, NEW b \in 1 .. Len(s) + 1
      PROVE  t[a] = t[b] => a = b
  <2>1. ASSUME NEW c \in 1 .. Len(s) + 1, c # m + 1
        PROVE  t[c] # n /\ \E p \in 1 .. Len(s) : c = Up(m, p) /\ t[c] = s[p]
    BY <1>2, <1>3, <1>4, <2>1
  <2>2. CASE a = m + 1 \/ b = m + 1
    BY <1>2, <2>1, <2>2
  <2>3. CASE a # m + 1 /\ b # m + 1
    BY <1>5, <2>1, <2>3
  <2> QED BY <2>2, <2>3
<1>9. ASSUME NEW a \in 1 .. Len(s) + 1
      PROVE  key'[t[a]] \in Keys
  <2>1. CASE a = m + 1
    BY <1>1, <1>2, <1>4, <2>1
  <2>2. CASE a # m + 1
    <3>1. PICK p \in 1 .. Len(s) : a = Up(m, p)
      BY <1>3, <2>2
    <3>2. t[a] = s[p]
      BY <1>2, <3>1
    <3> QED BY <1>5, <1>6, <3>2
  <2> QED BY <2>1, <2>2
<1>10. ASSUME NEW a \in 1 .. Len(s) + 1, NEW b \in 1 .. Len(s) + 1, a < b
       PROVE  key'[t[a]] <= key'[t[b]]
  <2>1. \A p \in 1 .. Len(s) : key[s[p]] < k <=> p <= m
    BY DEF Arrives
  <2>2. CASE a = m + 1
    <3>1. PICK q \in 1 .. Len(s) : b = Up(m, q)
      BY <1>3, <1>10, <2>2
    <3>2. ~(q <= m)
      BY <1>1, <1>10, <2>2, <3>1 DEF Up
    <3>3. key'[t[a]] = k /\ key'[t[b]] = key[s[q]] /\ ~(key[s[q]] < k)
      BY <1>2, <1>4, <1>6, <2>1, <2>2, <3>1, <3>2
    <3> QED BY <1>1, <3>3
  <2>3. CASE b = m + 1
    <3>1. PICK p \in 1 .. Len(s) : a = Up(m, p)
      BY <1>3, <1>10, <2>3
    <3>2. p <= m
      BY <1>1, <1>10, <2>3, <3>1 DEF Up
    <3>3. key'[t[b]] = k /\ key'[t[a]] = key[s[p]] /\ key[s[p]] < k
      BY <1>2, <1>4, <1>6, <2>1, <2>3, <3>1, <3>2
    <3> QED BY <1>1, <3>3
  <2>4. CASE a # m + 1 /\ b # m + 1
    <3>1. PICK p, q \in 1 .. Len(s) : a = Up(m, p) /\ b = Up(m, q)
      BY <1>3, <2>4
    <3>2. p < q
      BY <1>3, <1>10, <3>1
    <3>3. key'[t[a]] = key[s[p]] /\ key'[t[b]] = key[s[q]]
      BY <1>2, <1>6, <3>1
    <3> QED BY <1>5, <3>2, <3>3
  <2> QED BY <2>2, <2>3, <2>4
<1> QED BY <1>2, <1>7, <1>8, <1>9, <1>10 DEF t, Sorted

(* Neighbours afterwards were neighbours before, or one of them is the new   *)
(* node and the other what is below it, or behind that.                      *)
LEMMA GrowAdjacent ==
    ASSUME TypeOK, NEW s, Sorted(s), NEW m, NEW n, NEW k, NEW lev, Arrives(s, m, n, k, lev),
           NEW i \in Levels, NEW a, NEW b, Adjacent(Grow(s, m, n), i, a, b)'
    PROVE  \/ \E p, q : /\ a = Up(m, p) /\ b = Up(m, q) /\ Adjacent(s, i, p, q)
                        /\ lev > i => p # Below(s, i, k)
           \/ lev > i /\ a = Up(m, Below(s, i, k)) /\ b = m + 1
           \/ lev > i /\ a = m + 1 /\ \E q : b = Up(m, q) /\ Adjacent(s, i, Below(s, i, k), q)
<1> DEFINE t == Grow(s, m, n)
<1>1. /\ s \in Seq(Nodes) /\ Len(s) \in Nat /\ m \in 0 .. Len(s) /\ n \in Nodes /\ k \in Keys
      /\ \A p \in 1 .. Len(s) : key[s[p]] < k <=> p <= m
  BY SortedIs DEF Arrives, Sorted
<1>2. Len(t) = Len(s) + 1
  BY <1>1, GrowIs DEF Grew
<1>3. PICK B \in 0 .. Len(s) : B = Below(s, i, k) /\ LastUnder(s, i, k, B)
  BY <1>1, BelowIs
<1>4. /\ \A p \in 0 .. Len(s) + 1 : Tall(t, i, Up(m, p))' <=> Tall(s, i, p)
      /\ Tall(t, i, m + 1)' <=> lev > i
  BY GrowTall
<1> HIDE DEF t
<1>5. /\ a \in 0 .. Len(s) + 1 /\ b \in 1 .. Len(s) + 2 /\ a < b
      /\ Tall(t, i, a)' /\ Tall(t, i, b)'
      /\ \A r \in 1 .. Len(s) + 1 : a < r /\ r < b => ~Tall(t, i, r)'
  <2>1. Adjacent(t, i, a, b)'
    BY DEF t
  <2> QED BY <1>1, <1>2, <2>1 DEF Adjacent
<1>6. \A p \in 0 .. Len(s) : Under(s, k, p) <=> p <= m
  BY <1>1 DEF Under
<1>7. B <= m /\ Tall(s, i, B) /\ \A p \in 0 .. Len(s) : p <= m /\ Tall(s, i, p) => p <= B
  BY <1>3, <1>6 DEF LastUnder
<1>8. /\ \A p, q \in 0 .. Len(s) + 1 : p < q <=> Up(m, p) < Up(m, q)
      /\ \A p \in 1 .. Len(s) : Up(m, p) \in 1 .. Len(s) + 1
      /\ \A c \in 0 .. Len(s) + 2 : c = m + 1 \/ \E p \in 0 .. Len(s) + 1 : c = Up(m, p)
  BY <1>1, UpIs
<1>9. CASE a # m + 1 /\ b # m + 1
  <2>1. PICK p, q \in 0 .. Len(s) + 1 : a = Up(m, p) /\ b = Up(m, q)
    BY <1>1, <1>5, <1>8, <1>9
  <2>2. p < q /\ Tall(s, i, p) /\ Tall(s, i, q)
    BY <1>4, <1>5, <1>8, <2>1
  <2>3. ASSUME NEW r \in 1 .. Len(s), p < r, r < q
        PROVE  ~Tall(s, i, r)
    <3>1. r \in 0 .. Len(s) + 1 /\ Up(m, r) \in 1 .. Len(s) + 1 /\ a < Up(m, r) /\ Up(m, r) < b
      BY <1>1, <1>8, <2>1, <2>3
    <3> QED BY <1>4, <1>5, <3>1
  <2>4. Adjacent(s, i, p, q)
    BY <1>1, <2>1, <2>2, <2>3 DEF Adjacent
  <2>5. ASSUME lev > i, p = B
        PROVE  FALSE
    <3>1. q > m
      <4>1. q <= Len(s) /\ q <= m => q <= B
        BY <1>1, <1>7, <2>1, <2>2
      <4> QED BY <1>1, <1>3, <2>1, <2>2, <2>5, <4>1
    <3>2. a < m + 1 /\ m + 1 < b /\ m + 1 \in 1 .. Len(s) + 1
      BY <1>1, <1>3, <1>7, <2>1, <2>5, <3>1 DEF Up
    <3> QED BY <1>4, <1>5, <2>5, <3>2
  <2> QED BY <1>3, <2>1, <2>4, <2>5
<1>10. CASE b = m + 1
  <2>1. a # m + 1
    BY <1>1, <1>5, <1>10
  <2>2. PICK p \in 0 .. Len(s) + 1 : a = Up(m, p)
    BY <1>1, <1>5, <1>8, <2>1
  <2>3. p <= m /\ p \in 0 .. Len(s) /\ Tall(s, i, p) /\ lev > i
    BY <1>1, <1>4, <1>5, <1>10, <2>2 DEF Up
  <2>4. p <= B
    BY <1>7, <2>3
  <2>5. ASSUME p < B
        PROVE  FALSE
    <3>1. B \in 1 .. Len(s) + 1 /\ a < B /\ B < b /\ Up(m, B) = B
      BY <1>1, <1>3, <1>7, <1>10, <2>2, <2>3, <2>5 DEF Up
    <3>2. Tall(t, i, B)'
      <4>1. B \in 0 .. Len(s) + 1
        BY <1>1, <1>3
      <4>2. Tall(t, i, Up(m, B))'
        BY <1>4, <1>7, <4>1
      <4> QED BY <3>1, <4>2
    <3> QED BY <1>5, <3>1, <3>2
  <2>6. p = B
    BY <1>1, <1>3, <2>3, <2>4, <2>5
  <2> QED BY <1>3, <1>10, <2>2, <2>3, <2>6
<1>11. CASE a = m + 1
  <2>1. b # m + 1 /\ lev > i
    BY <1>1, <1>4, <1>5, <1>11
  <2>2. PICK q \in 0 .. Len(s) + 1 : b = Up(m, q)
    BY <1>1, <1>5, <1>8, <2>1
  <2>3. q > m /\ Tall(s, i, q) /\ q \in 1 .. Len(s) + 1
    BY <1>1, <1>4, <1>5, <1>11, <2>2 DEF Up
  <2>4. ASSUME NEW r \in 1 .. Len(s), B < r, r < q
        PROVE  ~Tall(s, i, r)
    <3>1. CASE r <= m
      BY <1>1, <1>3, <1>7, <2>4, <3>1
    <3>2. CASE r > m
      <4>1. Up(m, r) = r + 1 /\ Up(m, q) = q + 1
        BY <1>1, <2>3, <3>2 DEF Up
      <4>2. r \in 0 .. Len(s) + 1 /\ r + 1 \in 1 .. Len(s) + 1 /\ a < r + 1 /\ r + 1 < b
        BY <1>1, <1>11, <2>2, <2>3, <2>4, <3>2, <4>1
      <4>3. ~Tall(t, i, r + 1)'
        BY <1>5, <4>2
      <4> QED BY <1>4, <4>1, <4>2, <4>3
    <3> QED BY <1>1, <3>1, <3>2
  <2>5. Adjacent(s, i, B, q)
    BY <1>1, <1>3, <1>7, <2>3, <2>4 DEF Adjacent
  <2> QED BY <1>3, <1>11, <2>1, <2>2, <2>5
<1> QED BY <1>9, <1>10, <1>11

(* The path holds the last cells whose keys are less than k.                 *)
PathTo(s, k, lev, update) == \A i \in 0 .. lev - 1 : update[i] = Cell(s, Below(s, i, k))

(* What Link writes.                                                         *)
LEMMA LinkWrites ==
    ASSUME TypeOK, NEW n, NEW k, NEW v, NEW lev, NEW update, Link(n, k, v, lev, update),
           NEW c \in Cells, NEW i \in Levels, lev \in 1 .. MaxLevel
    PROVE  /\ i >= lev => next'[c][i] = next[c][i] /\ prev'[c][i] = prev[c][i]
           /\ i < lev =>
                 /\ c = n => next'[c][i] = next[update[i]][i] /\ prev'[c][i] = update[i]
                 /\ c # n /\ c = update[i] => next'[c][i] = n
                 /\ c # n /\ c # update[i] => next'[c][i] = next[c][i]
                 /\ c # n /\ c = next[update[i]][i] => prev'[c][i] = n
                 /\ c # n /\ c # next[update[i]][i] => prev'[c][i] = prev[c][i]
<1>1. next'[c][i] = IF i >= lev THEN next[c][i]
                    ELSE IF c = n THEN next[update[i]][i]
                    ELSE IF c = update[i] THEN n
                    ELSE next[c][i]
  BY DEF Link
<1>2. prev'[c][i] = IF i >= lev THEN prev[c][i]
                    ELSE IF c = n THEN update[i]
                    ELSE IF c = next[update[i]][i] THEN n
                    ELSE prev[c][i]
  BY DEF Link
<1>3. i < lev => ~(i >= lev)
  BY DEF Levels
<1> QED BY <1>1, <1>2, <1>3

(* After Link the links lead from neighbour to neighbour again.              *)
LEMMA LinkLinks ==
    ASSUME TypeOK, NEW s, Shape(s), NEW m, NEW n, NEW k, NEW v, NEW lev, NEW update,
           Arrives(s, m, n, k, lev), PathTo(s, k, lev, update), Link(n, k, v, lev, update)
    PROVE  Linking(Grow(s, m, n))'
<1> DEFINE t == Grow(s, m, n)
<1>1. /\ s \in Seq(Nodes) /\ Len(s) \in Nat /\ m \in 0 .. Len(s) /\ n \in Nodes /\ k \in Keys
      /\ Sorted(s) /\ lev \in 1 .. MaxLevel /\ n \in Cells /\ n # NIL
  BY SortedIs DEF Shape, Arrives, Sorted, Cells
<1>2. /\ Len(t) = Len(s) + 1 /\ Cell(t, m + 1) = n
      /\ \A p \in 0 .. Len(s) + 1 : Cell(t, Up(m, p)) = Cell(s, p)
  BY <1>1, GrowIs DEF Grew
<1>3. \A p : Cell(s, p) # n /\ Cell(s, p) \in Cells
  BY <1>1, ArrivalIs, CellIs DEF Cell
<1> DEFINE B(i) == Below(s, i, k)
<1>4. ASSUME NEW i \in Levels, lev > i
      PROVE  /\ update[i] = Cell(s, B(i)) /\ B(i) \in 0 .. Len(s)
             /\ \E r : Adjacent(s, i, B(i), r) /\ next[update[i]][i] = Cell(s, r)
  <2>1. i \in 0 .. lev - 1
    BY <1>1, <1>4 DEF Levels
  <2>2. update[i] = Cell(s, B(i))
    BY <2>1 DEF PathTo
  <2>3. LastUnder(s, i, k, B(i)) /\ B(i) \in 0 .. Len(s)
    BY <1>1, BelowIs
  <2> HIDE DEF B
  <2>4. PICK r : Adjacent(s, i, B(i), r)
    BY <1>1, <2>3, NeighbourAhead DEF LastUnder
  <2>5. next[Cell(s, B(i))][i] = Cell(s, r)
    BY <2>4, LinksAre
  <2> QED BY <2>2, <2>3, <2>4, <2>5
<1>5. \A i \in Levels : i \in Nat
  BY DEF Levels
<1>6. ASSUME NEW i \in Levels, NEW a, NEW b, Adjacent(t, i, a, b)'
      PROVE  next'[Cell(t, a)][i] = Cell(t, b) /\ prev'[Cell(t, b)][i] = Cell(t, a)
  <2>1. CASE \E p, q : /\ a = Up(m, p) /\ b = Up(m, q) /\ Adjacent(s, i, p, q)
                       /\ lev > i => p # B(i)
    <3>1. PICK p, q : /\ a = Up(m, p) /\ b = Up(m, q) /\ Adjacent(s, i, p, q)
                      /\ lev > i => p # B(i)
      BY <2>1
    <3>2. /\ p \in 0 .. Len(s) /\ q \in 1 .. Len(s) + 1
          /\ p \in 0 .. Len(s) + 1 /\ q \in 0 .. Len(s) + 1
      BY <1>1, <3>1 DEF Adjacent
    <3>3. Cell(t, a) = Cell(s, p) /\ Cell(t, b) = Cell(s, q)
      BY <1>2, <3>1, <3>2
    <3>4. next[Cell(s, p)][i] = Cell(s, q) /\ prev[Cell(s, q)][i] = Cell(s, p)
      BY <3>1, LinksAre
    <3>5. CASE i >= lev
      <4>1. /\ next'[Cell(s, p)][i] = next[Cell(s, p)][i]
            /\ prev'[Cell(s, q)][i] = prev[Cell(s, q)][i]
        BY <1>1, <1>3, <3>5, LinkWrites
      <4> QED BY <3>3, <3>4, <4>1
    <3>6. CASE i < lev
      <4>1. PICK r : Adjacent(s, i, B(i), r) /\ next[update[i]][i] = Cell(s, r)
        BY <1>1, <1>4, <1>5, <3>6
      <4>2. r \in 1 .. Len(s) + 1 /\ update[i] = Cell(s, B(i)) /\ B(i) \in 0 .. Len(s)
        BY <1>1, <1>4, <1>5, <3>6, <4>1 DEF Adjacent
      <4>3. lev > i
        BY <1>1, <1>5, <3>6
      <4>4. p # B(i) /\ q # r
        <5>1. p # B(i)
          BY <3>1, <4>3
        <5> HIDE DEF B
        <5> QED BY <1>1, <3>1, <4>1, <5>1, OneNeighbour
      <4>5. Cell(s, p) # update[i] /\ Cell(s, q) # next[update[i]][i]
        <5> HIDE DEF B
        <5> QED BY <1>1, <3>2, <4>1, <4>2, <4>4, CellIs
      <4>6. /\ next'[Cell(s, p)][i] = next[Cell(s, p)][i]
            /\ prev'[Cell(s, q)][i] = prev[Cell(s, q)][i]
        BY <1>1, <1>3, <3>6, <4>5, LinkWrites
      <4> QED BY <3>3, <3>4, <4>6
    <3> QED BY <1>1, <1>5, <3>5, <3>6
  <2>2. CASE lev > i /\ a = Up(m, B(i)) /\ b = m + 1
    <3>1. update[i] = Cell(s, B(i)) /\ B(i) \in 0 .. Len(s) /\ B(i) \in 0 .. Len(s) + 1
      BY <1>1, <1>4, <2>2
    <3>2. i < lev
      BY <1>1, <1>5, <2>2
    <3> HIDE DEF B
    <3>3. Cell(t, a) = Cell(s, B(i)) /\ Cell(t, b) = n
      BY <1>2, <2>2, <3>1
    <3>4. next'[Cell(s, B(i))][i] = n /\ prev'[n][i] = update[i]
      BY <1>1, <1>3, <3>1, <3>2, LinkWrites
    <3> QED BY <3>1, <3>3, <3>4
  <2>3. CASE lev > i /\ a = m + 1 /\ \E q : b = Up(m, q) /\ Adjacent(s, i, B(i), q)
    <3>1. PICK q : b = Up(m, q) /\ Adjacent(s, i, B(i), q)
      BY <2>3
    <3>2. PICK r : Adjacent(s, i, B(i), r) /\ next[update[i]][i] = Cell(s, r)
      BY <1>4, <2>3
    <3>3. i < lev
      BY <1>1, <1>5, <2>3
    <3> HIDE DEF B
    <3>4. r = q /\ q \in 0 .. Len(s) + 1
      BY <1>1, <3>1, <3>2, OneNeighbour DEF Adjacent
    <3>5. Cell(t, a) = n /\ Cell(t, b) = Cell(s, q)
      BY <1>2, <2>3, <3>1, <3>4
    <3>6. next'[n][i] = next[update[i]][i]
      BY <1>1, <3>3, LinkWrites
    <3>7. prev'[Cell(s, q)][i] = n
      BY <1>1, <1>3, <3>2, <3>3, <3>4, LinkWrites
    <3> QED BY <3>2, <3>4, <3>5, <3>6, <3>7
  <2> HIDE DEF t
  <2> QED BY <1>1, <1>6, <2>1, <2>2, <2>3, GrowAdjacent DEF t
<1>7. ASSUME NEW i \in Levels, NEW c \in Nodes, sz'[c] <= i
      PROVE  next'[c][i] = NIL /\ prev'[c][i] = NIL
  <2>1. c \in Cells
    BY DEF Cells
  <2>2. CASE c = n
    <3>1. i >= lev /\ sz[c] <= i
      <4>1. sz'[n] = lev /\ sz[n] = 0
        <5>1. Sorted(s)
          BY <1>1
        <5>2. sz'[n] = lev
          BY <5>1, ArrivalIs
        <5>3. sz[n] = 0
          BY DEF Arrives
        <5> QED BY <5>2, <5>3
      <4>2. lev <= i
        BY <1>7, <2>2, <4>1
      <4> QED BY <1>1, <1>5, <2>2, <4>1, <4>2
    <3>2. next[c][i] = NIL /\ prev[c][i] = NIL
      BY <3>1 DEF Shape, Linking
    <3> QED BY <1>1, <2>1, <3>1, <3>2, LinkWrites
  <2>3. CASE c # n
    <3>1. sz[c] <= i /\ sz[c] \in Nat
      <4>1. sz'[c] = sz[c]
        <5>1. Sorted(s)
          BY <1>1
        <5> QED BY <2>1, <2>3, <5>1, ArrivalIs
      <4>2. sz[c] \in Nat
        BY <2>1 DEF TypeOK
      <4> QED BY <1>7, <4>1, <4>2
    <3>2. next[c][i] = NIL /\ prev[c][i] = NIL
      BY <3>1 DEF Shape, Linking
    <3>3. CASE i >= lev
      BY <1>1, <2>1, <3>2, <3>3, LinkWrites
    <3>4. CASE i < lev
      <4>1. ASSUME NEW p, Tall(s, i, p), c = Cell(s, p)
            PROVE  FALSE
        BY <1>1, <1>5, <3>1, <4>1 DEF Tall, Cell
      <4>2. PICK r : Adjacent(s, i, B(i), r) /\ next[update[i]][i] = Cell(s, r)
        BY <1>1, <1>4, <1>5, <3>4
      <4>3. update[i] = Cell(s, B(i))
        BY <1>1, <1>4, <1>5, <3>4
      <4> HIDE DEF B
      <4>4. c # update[i] /\ c # next[update[i]][i]
        BY <4>1, <4>2, <4>3 DEF Adjacent
      <4> QED BY <1>1, <2>1, <2>3, <3>2, <3>4, <4>4, LinkWrites
    <3> QED BY <1>1, <1>5, <3>3, <3>4
  <2> QED BY <2>2, <2>3
<1> HIDE DEF t
<1> QED BY <1>6, <1>7 DEF Linking, t

(* After Link the counters and the tail are right again.                     *)
LEMMA LinkCounts ==
    ASSUME TypeOK, NEW s, Shape(s), NEW m, NEW n, NEW k, NEW v, NEW lev, NEW update,
           Arrives(s, m, n, k, lev), PathTo(s, k, lev, update), m = Below(s, 0, k),
           Link(n, k, v, lev, update)
    PROVE  Counted(Grow(s, m, n))'
<1> DEFINE t == Grow(s, m, n)
<1>1. /\ s \in Seq(Nodes) /\ Len(s) \in Nat /\ m \in 0 .. Len(s) /\ n \in Nodes /\ k \in Keys
      /\ Sorted(s) /\ lev \in 1 .. MaxLevel /\ 0 \in Levels /\ curlevel \in 1 .. MaxLevel
      /\ \A p \in 1 .. Len(s) : s[p] \in Cells /\ sz[s[p]] \in 1 .. MaxLevel
  <2>1. Sorted(s) /\ 0 \in Levels /\ curlevel \in 1 .. MaxLevel
    BY DEF Shape, Levels, TypeOK
  <2>2. m \in 0 .. Len(s) /\ n \in Nodes /\ k \in Keys /\ lev \in 1 .. MaxLevel
    BY DEF Arrives
  <2>3. s \in Seq(Nodes)
    BY <2>1 DEF Sorted
  <2> QED BY <2>1, <2>2, <2>3, SortedIs
<1>2. /\ Len(t) = Len(s) + 1 /\ Cell(t, m + 1) = n /\ t[m + 1] = n
      /\ \A p \in 1 .. Len(s) : t[Up(m, p)] = s[p]
      /\ \A p \in 0 .. Len(s) + 1 : Cell(t, Up(m, p)) = Cell(s, p)
  <2>1. s \in Seq(Nodes) /\ m \in 0 .. Len(s) /\ n \in Nodes
    BY <1>1
  <2>2. Grew(s, m, n, t)
    BY <2>1, GrowIs, Zenon
  <2> HIDE DEF t
  <2> QED BY <2>2, Zenon DEF Grew
<1> HIDE DEF t
<1>3. nodenum' = Len(t)
  BY <1>2 DEF Link, Shape, Counted
<1>4. tail' = Cell(t, Len(t))
  <2>1. next[update[0]][0] = Cell(s, m + 1)
    <3>1. update[0] = Cell(s, m)
      BY <1>1 DEF PathTo
    <3>2. Adjacent(s, 0, m, m + 1)
      BY <1>1, StopIs
    <3> QED BY <1>1, <3>1, <3>2, LinksAre
  <2>2. CASE m = Len(s)
    BY <1>1, <1>2, <2>1, <2>2, CellIs DEF Link
  <2>3. CASE m # Len(s)
    <3>1. Cell(s, m + 1) # NIL
      BY <1>1, <2>3, CellIs
    <3>2. Up(m, Len(s)) = Len(s) + 1 /\ Len(s) \in 0 .. Len(s) + 1
      BY <1>1, <2>3 DEF Up
    <3>3. tail = Cell(s, Len(s))
      BY DEF Shape, Counted
    <3> QED BY <1>2, <2>1, <3>1, <3>2, <3>3 DEF Link
  <2> QED BY <2>2, <2>3
<1>5. curlevel' = IF lev > curlevel THEN lev ELSE curlevel
  BY DEF Link
<1>6. /\ \A p \in 1 .. Len(s) : sz[s[p]] <= curlevel
      /\ curlevel > 1 => \E p \in 1 .. Len(s) : sz[s[p]] = curlevel
  BY DEF Shape, Counted
<1>7. /\ sz'[t[m + 1]] = lev /\ m + 1 \in 1 .. Len(s) + 1
      /\ \A p \in 1 .. Len(s) : Up(m, p) \in 1 .. Len(s) + 1 /\ sz'[t[Up(m, p)]] = sz[s[p]]
  <2>1. \A p \in 1 .. Len(s) : s[p] # n /\ s[p] \in Cells
    BY <1>1, ArrivalIs
  <2>2. sz'[n] = lev /\ \A c \in Cells : c # n => sz'[c] = sz[c]
    <3>1. Sorted(s)
      BY <1>1
    <3> QED BY <3>1, ArrivalIs
  <2>3. m + 1 \in 1 .. Len(s) + 1 /\ \A p \in 1 .. Len(s) : Up(m, p) \in 1 .. Len(s) + 1
    <3>1. Len(s) \in Nat /\ m \in 0 .. Len(s)
      BY <1>1
    <3>2. m + 1 \in 1 .. Len(s) + 1
      BY <3>1
    <3> QED BY <3>1, <3>2, UpIs, Zenon
  <2>4. \A p \in 1 .. Len(s) : sz'[s[p]] = sz[s[p]]
    BY <2>1, <2>2, Zenon
  <2> QED BY <1>2, <2>2, <2>3, <2>4, Zenon
<1>8. \A a \in 1 .. Len(s) + 1 : a = m + 1 \/ \E p \in 1 .. Len(s) : a = Up(m, p)
  BY <1>1, UpIs
<1> DEFINE new == curlevel'
           size == sz'
<1>9. new = IF lev > curlevel THEN lev ELSE curlevel
  BY <1>5
<1>10. /\ size[t[m + 1]] = lev
       /\ \A p \in 1 .. Len(s) : size[t[Up(m, p)]] = sz[s[p]]
  BY <1>7
<1>11. (\A a \in 1 .. Len(t) : size[t[a]] <= new) /\ (new > 1 => \E a \in 1 .. Len(t) : size[t[a]] = new)
       => Counted(t)'
  BY <1>3, <1>4 DEF Counted
<1> HIDE DEF new, size
<1>12. ASSUME NEW a \in 1 .. Len(t)
       PROVE  size[t[a]] <= new
  <2>1. CASE a = m + 1
    <3>1. size[t[a]] = lev
      BY <1>10, <2>1
    <3>2. lev \in Int /\ curlevel \in Int
      BY <1>1
    <3> QED BY <1>9, <3>1, <3>2
  <2>2. CASE a # m + 1
    <3>1. PICK p \in 1 .. Len(s) : a = Up(m, p)
      BY <1>2, <1>8, <2>2
    <3>2. size[t[a]] = sz[s[p]] /\ sz[s[p]] <= curlevel
      BY <1>6, <1>10, <3>1
    <3>3. sz[s[p]] \in Int /\ curlevel \in Int /\ lev \in Int
      <4>1. sz[s[p]] \in 1 .. MaxLevel /\ curlevel \in 1 .. MaxLevel /\ lev \in 1 .. MaxLevel
        BY <1>1, Zenon
      <4> QED BY <4>1
    <3>4. sz[s[p]] <= new
      BY <1>9, <3>2, <3>3
    <3> QED BY <3>2, <3>4
  <2> QED BY <2>1, <2>2
<1>13. ASSUME new > 1
       PROVE  \E a \in 1 .. Len(t) : size[t[a]] = new
  <2>1. CASE lev > curlevel
    BY <1>2, <1>7, <1>9, <1>10, <2>1
  <2>2. CASE ~(lev > curlevel)
    <3>1. PICK p \in 1 .. Len(s) : sz[s[p]] = curlevel
      BY <1>6, <1>9, <1>13, <2>2
    <3>2. new = curlevel
      BY <1>9, <2>2
    <3>3. Up(m, p) \in 1 .. Len(t) /\ size[t[Up(m, p)]] = sz[s[p]]
      BY <1>2, <1>7, <1>10, <3>1
    <3> QED BY <3>1, <3>2, <3>3
  <2> QED BY <2>1, <2>2
<1> QED BY <1>11, <1>12, <1>13 DEF t

(* Link keeps the types.                                                     *)
LEMMA LinkTypes ==
    ASSUME TypeOK, NEW n \in Nodes, NEW k \in Keys, NEW v \in Items, NEW lev \in 1 .. MaxLevel,
           NEW update, \A i \in 0 .. lev - 1 : update[i] \in Cells,
           Link(n, k, v, lev, update)
    PROVE  TypeOK'
<1>1. n \in Cells /\ NIL \in Cells /\ n # NIL
  BY DEF Cells
<1>2. \A i \in Levels : i < lev => i \in 0 .. lev - 1
  BY DEF Levels
<1>3. next' \in [Cells -> [Levels -> Cells]]
  <2>1. \A c \in Cells, i \in Levels : next'[c][i] \in Cells
    <3> SUFFICES ASSUME NEW c \in Cells, NEW i \in Levels
                 PROVE  next'[c][i] \in Cells
      OBVIOUS
    <3>1. next[c][i] \in Cells /\ (i < lev => next[update[i]][i] \in Cells)
      BY <1>2 DEF TypeOK
    <3>2. i >= lev \/ i < lev
      BY DEF Levels
    <3> QED BY <1>1, <3>1, <3>2, LinkWrites
  <2>2. \A c \in Cells : next'[c] \in [Levels -> Cells]
    BY <2>1 DEF Link
  <2> QED BY <2>2 DEF Link
<1>4. prev' \in [Cells -> [Levels -> Cells]]
  <2>1. \A c \in Cells, i \in Levels : prev'[c][i] \in Cells
    <3> SUFFICES ASSUME NEW c \in Cells, NEW i \in Levels
                 PROVE  prev'[c][i] \in Cells
      OBVIOUS
    <3>1. prev[c][i] \in Cells /\ (i < lev => update[i] \in Cells)
      BY <1>2 DEF TypeOK
    <3>2. i >= lev \/ i < lev
      BY DEF Levels
    <3> QED BY <1>1, <3>1, <3>2, LinkWrites
  <2>2. \A c \in Cells : prev'[c] \in [Levels -> Cells]
    BY <2>1 DEF Link
  <2> QED BY <2>2 DEF Link
<1>5. sz' \in [Cells -> 0 .. MaxLevel] /\ sz'[NIL] = MaxLevel
  BY <1>1 DEF TypeOK, Link
<1>6. key' \in [Nodes -> Keys \cup {0}] /\ item' \in [Nodes -> Items \cup {NULL}]
  BY DEF TypeOK, Link
<1>7. curlevel' \in 1 .. MaxLevel /\ nodenum' \in Nat
  BY DEF TypeOK, Link
<1>8. tail' \in Cells
  BY <1>1 DEF TypeOK, Link
<1> QED BY <1>3, <1>4, <1>5, <1>6, <1>7, <1>8 DEF TypeOK

(* Link, behind the nodes with smaller keys, keeps the shape.                *)
LEMMA LinkKeeps ==
    ASSUME TypeOK, NEW s, Shape(s), NEW n \in Nodes, sz[n] = 0, NEW k \in Keys, NEW v \in Items,
           NEW lev \in 1 .. MaxLevel, NEW update, PathTo(s, k, lev, update),
           Link(n, k, v, lev, update), NEW m, m = Below(s, 0, k)
    PROVE  TypeOK' /\ Shape(Grow(s, m, n))'
<1>1. Sorted(s) /\ 0 \in Levels
  BY DEF Shape, Levels
<1>2. m \in 0 .. Len(s)
  BY <1>1, BelowIs
<1>3. \A p \in 1 .. Len(s) : key[s[p]] < k <=> p <= m
  BY <1>2, StopIs
<1>4. Arrives(s, m, n, k, lev)
  BY <1>2, <1>3 DEF Arrives, Link
<1>5. Shape(Grow(s, m, n))'
  BY <1>1, <1>2, <1>4, GrowSorted, LinkLinks, LinkCounts DEF Shape
<1>6. \A i \in 0 .. lev - 1 : update[i] \in Cells
  BY <1>1, CellIs DEF PathTo
<1>7. TypeOK'
  BY <1>6, LinkTypes
<1> QED BY <1>5, <1>7

(* Without its place m + 1.                                                  *)
Leaves(s, m) ==
    /\ m \in 0 .. Len(s) - 1
    /\ sz' = [sz EXCEPT ![s[m + 1]] = 0]
    /\ key' = [key EXCEPT ![s[m + 1]] = 0]

(* The node that leaves is in the list once.                                 *)
LEMMA LeavingIs ==
    ASSUME TypeOK, NEW s, Sorted(s), NEW m, Leaves(s, m)
    PROVE  /\ s[m + 1] \in Nodes /\ sz'[s[m + 1]] = 0
           /\ \A c \in Cells : c # s[m + 1] => sz'[c] = sz[c]
           /\ \A c \in Nodes : c # s[m + 1] => key'[c] = key[c]
           /\ \A p \in 1 .. Len(s) : p # m + 1 => s[p] # s[m + 1]
<1>1. sz \in [Cells -> 0 .. MaxLevel] /\ key \in [Nodes -> Keys \cup {0}]
  BY DEF TypeOK
<1>2. /\ Len(s) \in Nat /\ m \in 0 .. Len(s) - 1
      /\ sz' = [sz EXCEPT ![s[m + 1]] = 0] /\ key' = [key EXCEPT ![s[m + 1]] = 0]
  BY SortedIs DEF Leaves
<1>3. m + 1 \in 1 .. Len(s)
  BY <1>2
<1>4. s[m + 1] \in Nodes /\ s[m + 1] \in Cells
  BY <1>3, SortedIs
<1>5. \A p \in 1 .. Len(s) : p # m + 1 => s[p] # s[m + 1]
  BY <1>3 DEF Sorted
<1> QED BY <1>1, <1>2, <1>4, <1>5

(* The other nodes keep their levels when one leaves.                        *)
LEMMA ShrinkTall ==
    ASSUME TypeOK, NEW s, Sorted(s), NEW m, Leaves(s, m), NEW i \in Levels
    PROVE  \A p \in 0 .. Len(s) : Tall(Shrink(s, m), i, p)' <=> Tall(s, i, Up(m, p))
<1> DEFINE t == Shrink(s, m)
<1>1. /\ s \in Seq(Nodes) /\ Len(s) \in Nat /\ m \in 0 .. Len(s) - 1
      /\ \A p \in 1 .. Len(s) : s[p] \in Cells
  BY SortedIs DEF Leaves, Sorted
<1>2. Len(t) = Len(s) - 1 /\ \A p \in 1 .. Len(s) - 1 : t[p] = s[Up(m, p)]
  BY <1>1, ShrinkIs
<1> HIDE DEF t
<1>3. \A p \in 1 .. Len(s) : p # m + 1 => sz'[s[p]] = sz[s[p]]
  <2>1. \A p \in 1 .. Len(s) : p # m + 1 => s[p] # s[m + 1] /\ s[p] \in Cells
    BY <1>1, LeavingIs
  <2>2. \A c \in Cells : c # s[m + 1] => sz'[c] = sz[c]
    BY LeavingIs
  <2> QED BY <2>1, <2>2, Zenon
<1>4. ASSUME NEW p \in 0 .. Len(s)
      PROVE  Tall(t, i, p)' <=> Tall(s, i, Up(m, p))
  <2>1. CASE p \in 1 .. Len(s) - 1
    <3>1. Up(m, p) \in 1 .. Len(s) /\ Up(m, p) # m + 1 /\ Up(m, p) \in 0 .. Len(s) + 1
      BY <1>1, <2>1 DEF Up
    <3>2. sz'[t[p]] = sz[s[Up(m, p)]]
      BY <1>2, <1>3, <2>1, <3>1
    <3> QED BY <1>1, <1>2, <2>1, <3>1, <3>2 DEF Tall
  <2>2. CASE p \notin 1 .. Len(s) - 1
    <3>1. Up(m, p) \notin 1 .. Len(s) /\ Up(m, p) \in 0 .. Len(s) + 1
      BY <1>1, <2>2 DEF Up
    <3> QED BY <1>1, <1>2, <2>2, <3>1 DEF Tall
  <2> QED BY <2>1, <2>2
<1> QED BY <1>4 DEF t

(* The nodes stay in the order of their keys when one leaves.                *)
LEMMA ShrinkSorted ==
    ASSUME TypeOK, NEW s, Sorted(s), NEW m, Leaves(s, m)
    PROVE  Sorted(Shrink(s, m))'
<1> DEFINE t == Shrink(s, m)
           x == s[m + 1]
<1>1. /\ s \in Seq(Nodes) /\ Len(s) \in Nat /\ m \in 0 .. Len(s) - 1 /\ m + 1 \in 1 .. Len(s)
      /\ \A p \in 1 .. Len(s) : s[p] \in Nodes /\ s[p] \in Cells
  BY SortedIs DEF Leaves, Sorted
<1>2. t \in Seq(Nodes) /\ Len(t) = Len(s) - 1 /\ \A p \in 1 .. Len(s) - 1 : t[p] = s[Up(m, p)]
  BY <1>1, ShrinkIs
<1> HIDE DEF t
<1>3. /\ \A p \in 1 .. Len(s) - 1 : Up(m, p) \in 1 .. Len(s) /\ Up(m, p) # m + 1
      /\ \A p, q \in 1 .. Len(s) - 1 : p < q <=> Up(m, p) < Up(m, q)
      /\ \A p, q \in 1 .. Len(s) - 1 : Up(m, p) = Up(m, q) => p = q
  BY <1>1 DEF Up
<1>4. \A a \in 1 .. Len(s) : a = m + 1 \/ \E p \in 1 .. Len(s) - 1 : a = Up(m, p)
  <2> SUFFICES ASSUME NEW a \in 1 .. Len(s), a # m + 1
               PROVE  \E p \in 1 .. Len(s) - 1 : a = Up(m, p)
    OBVIOUS
  <2>1. CASE a <= m
    <3>1. a \in 1 .. Len(s) - 1 /\ a = Up(m, a)
      BY <1>1, <2>1 DEF Up
    <3> QED BY <3>1
  <2>2. CASE a > m
    <3>1. a - 1 \in 1 .. Len(s) - 1 /\ ~(a - 1 <= m) /\ (a - 1) + 1 = a
      BY <1>1, <2>2
    <3> QED BY <3>1 DEF Up
  <2> QED BY <1>1, <2>1, <2>2
<1>5. /\ x \in Nodes /\ sz'[x] = 0
      /\ \A c \in Nodes : c # x => sz'[c] = sz[c] /\ key'[c] = key[c]
      /\ \A p \in 1 .. Len(s) : p # m + 1 => s[p] # x
  BY <1>1, LeavingIs DEF Cells
<1>6. /\ \A c \in Nodes : sz[c] # 0 <=> \E p \in 1 .. Len(s) : s[p] = c
      /\ \A p, q \in 1 .. Len(s) : s[p] = s[q] => p = q
      /\ \A p \in 1 .. Len(s) : key[s[p]] \in Keys
      /\ \A p, q \in 1 .. Len(s) : p < q => key[s[p]] <= key[s[q]]
  BY DEF Sorted
<1> HIDE DEF x
<1>7. \A p \in 1 .. Len(s) - 1 : t[p] \in Nodes /\ t[p] # x /\ key'[t[p]] = key[s[Up(m, p)]]
  BY <1>1, <1>2, <1>3, <1>5
<1>8. ASSUME NEW c \in Nodes
      PROVE  sz'[c] # 0 <=> \E a \in 1 .. Len(s) - 1 : t[a] = c
  <2>1. CASE c = x
    BY <1>5, <1>7, <2>1
  <2>2. CASE c # x
    <3>1. sz'[c] # 0 <=> \E p \in 1 .. Len(s) : s[p] = c
      BY <1>5, <1>6, <2>2
    <3>2. ASSUME NEW p \in 1 .. Len(s), s[p] = c
          PROVE  \E a \in 1 .. Len(s) - 1 : t[a] = c
      <4>1. p # m + 1
        BY <2>2, <3>2 DEF x
      <4> QED BY <1>2, <1>4, <3>2, <4>1
    <3>3. ASSUME NEW a \in 1 .. Len(s) - 1, t[a] = c
          PROVE  \E p \in 1 .. Len(s) : s[p] = c
      BY <1>2, <1>3, <3>3
    <3> QED BY <3>1, <3>2, <3>3
  <2> QED BY <2>1, <2>2
<1>9. ASSUME NEW a \in 1 .. Len(s) - 1, NEW b \in 1 .. Len(s) - 1
      PROVE  t[a] = t[b] => a = b
  BY <1>2, <1>3, <1>6
<1>10. ASSUME NEW a \in 1 .. Len(s) - 1
       PROVE  key'[t[a]] \in Keys
  BY <1>3, <1>6, <1>7
<1>11. ASSUME NEW a \in 1 .. Len(s) - 1, NEW b \in 1 .. Len(s) - 1, a < b
       PROVE  key'[t[a]] <= key'[t[b]]
  <2>1. Up(m, a) \in 1 .. Len(s) /\ Up(m, b) \in 1 .. Len(s) /\ Up(m, a) < Up(m, b)
    BY <1>3, <1>11
  <2>2. key[s[Up(m, a)]] <= key[s[Up(m, b)]]
    BY <1>6, <2>1
  <2>3. key'[t[a]] = key[s[Up(m, a)]] /\ key'[t[b]] = key[s[Up(m, b)]]
    BY <1>7
  <2> QED BY <2>2, <2>3
<1> QED BY <1>2, <1>8, <1>9, <1>10, <1>11 DEF t, Sorted

(* Neighbours afterwards were neighbours before, or the node that left was   *)
(* between them.                                                             *)
LEMMA ShrinkAdjacent ==
    ASSUME TypeOK, NEW s, Sorted(s), NEW m, Leaves(s, m),
           NEW i \in Levels, NEW a, NEW b, Adjacent(Shrink(s, m), i, a, b)'
    PROVE  /\ a \in 0 .. Len(s) /\ b \in 0 .. Len(s) /\ Up(m, a) # m + 1 /\ Up(m, b) # m + 1
           /\ \/ Adjacent(s, i, Up(m, a), Up(m, b))
              \/ Adjacent(s, i, Up(m, a), m + 1) /\ Adjacent(s, i, m + 1, Up(m, b))
<1> DEFINE t == Shrink(s, m)
<1>1. s \in Seq(Nodes) /\ Len(s) \in Nat /\ m \in 0 .. Len(s) - 1
  BY SortedIs DEF Leaves, Sorted
<1>2. Len(t) = Len(s) - 1
  BY <1>1, ShrinkIs
<1>3. \A p \in 0 .. Len(s) : Tall(t, i, p)' <=> Tall(s, i, Up(m, p))
  BY ShrinkTall
<1> HIDE DEF t
<1>4. /\ a \in 0 .. Len(s) - 1 /\ b \in 1 .. Len(s) /\ a < b
      /\ Tall(t, i, a)' /\ Tall(t, i, b)'
      /\ \A r \in 1 .. Len(s) - 1 : a < r /\ r < b => ~Tall(t, i, r)'
  <2>1. Adjacent(t, i, a, b)'
    BY DEF t
  <2> QED BY <1>1, <1>2, <2>1 DEF Adjacent
<1> DEFINE p == Up(m, a)
           q == Up(m, b)
<1>5. /\ p \in 0 .. Len(s) /\ q \in 1 .. Len(s) + 1 /\ p < q /\ p # m + 1 /\ q # m + 1
      /\ Tall(s, i, p) /\ Tall(s, i, q)
  <2>1. /\ p \in 0 .. Len(s) /\ q \in 1 .. Len(s) + 1 /\ p < q /\ p # m + 1 /\ q # m + 1
    BY <1>1, <1>4 DEF Up
  <2>2. a \in 0 .. Len(s) /\ b \in 0 .. Len(s)
    BY <1>1, <1>4
  <2> QED BY <1>3, <1>4, <2>1, <2>2
<1>6. ASSUME NEW r \in 1 .. Len(s), p < r, r < q, r # m + 1
      PROVE  ~Tall(s, i, r)
  <2>1. PICK c \in 1 .. Len(s) - 1 : r = Up(m, c) /\ a < c /\ c < b
    <3>1. CASE r <= m
      <4>1. r \in 1 .. Len(s) - 1 /\ r = Up(m, r) /\ a < r /\ r < b
        BY <1>1, <1>4, <1>6, <3>1 DEF Up
      <4> QED BY <4>1
    <3>2. CASE r > m
      <4>1. r - 1 \in 1 .. Len(s) - 1 /\ r = Up(m, r - 1) /\ a < r - 1 /\ r - 1 < b
        BY <1>1, <1>4, <1>6, <3>2 DEF Up
      <4> QED BY <4>1
    <3> QED BY <1>1, <3>1, <3>2
  <2>2. c \in 0 .. Len(s)
    BY <1>1
  <2> QED BY <1>3, <1>4, <2>1, <2>2
<1> HIDE DEF p, q
<1>7. CASE p < m + 1 /\ m + 1 < q /\ Tall(s, i, m + 1)
  <2>1. Adjacent(s, i, p, m + 1) /\ Adjacent(s, i, m + 1, q)
    BY <1>1, <1>5, <1>6, <1>7 DEF Adjacent
  <2> QED BY <1>1, <1>4, <1>5, <2>1 DEF p, q
<1>8. CASE ~(p < m + 1 /\ m + 1 < q /\ Tall(s, i, m + 1))
  <2>1. \A r \in 1 .. Len(s) : p < r /\ r < q => ~Tall(s, i, r)
    BY <1>6, <1>8
  <2>2. Adjacent(s, i, p, q)
    BY <1>5, <2>1 DEF Adjacent
  <2> QED BY <1>1, <1>4, <1>5, <2>2 DEF p, q
<1> QED BY <1>7, <1>8

(* On its levels, the node behind the path is next to what the path holds.   *)
LEMMA BelowNext ==
    ASSUME TypeOK, NEW s, Shape(s), NEW k \in Keys, NEW m, m = Below(s, 0, k), m # Len(s),
           NEW i \in Levels, Tall(s, i, m + 1)
    PROVE  Adjacent(s, i, Below(s, i, k), m + 1)
<1>1. Sorted(s) /\ Len(s) \in Nat /\ 0 \in Levels
  BY SortedIs DEF Shape, Levels
<1>2. m \in 0 .. Len(s) /\ \A p \in 1 .. Len(s) : key[s[p]] < k <=> p <= m
  BY <1>1, BelowIs, StopIs
<1>3. PICK B \in 0 .. Len(s) : B = Below(s, i, k) /\ LastUnder(s, i, k, B)
  BY <1>1, BelowIs
<1>4. \A p \in 0 .. Len(s) : Under(s, k, p) <=> p <= m
  BY <1>2 DEF Under
<1>5. B <= m /\ Tall(s, i, B) /\ \A p \in 0 .. Len(s) : p <= m /\ Tall(s, i, p) => p <= B
  BY <1>3, <1>4 DEF LastUnder
<1>6. ASSUME NEW r \in 1 .. Len(s), B < r, r < m + 1
      PROVE  ~Tall(s, i, r)
  BY <1>1, <1>2, <1>5, <1>6
<1>7. Adjacent(s, i, B, m + 1)
  BY <1>1, <1>2, <1>5, <1>6 DEF Adjacent
<1> QED BY <1>3, <1>7

(* The path leads to the node, which is behind place m, on all its levels.   *)
Leading(s, k, m, x, update) ==
    /\ k \in Keys /\ m = Below(s, 0, k) /\ m # Len(s) /\ x = s[m + 1]
    /\ PathTo(s, k, curlevel, update)

(* What the path leads to is a node of the list.                             *)
LEMMA LeadingIs ==
    ASSUME TypeOK, NEW s, Shape(s), NEW k, NEW m, NEW x, NEW update, Leading(s, k, m, x, update)
    PROVE  /\ Sorted(s) /\ Len(s) \in Nat /\ k \in Keys /\ curlevel \in 1 .. MaxLevel
           /\ m \in 0 .. Len(s) - 1 /\ m + 1 \in 1 .. Len(s) /\ x \in Nodes /\ x \in Cells
           /\ x = Cell(s, m + 1) /\ x = s[m + 1] /\ sz[x] \in 1 .. MaxLevel
<1>1. Sorted(s) /\ Len(s) \in Nat /\ 0 \in Levels /\ curlevel \in 1 .. MaxLevel
  BY SortedIs DEF Shape, Levels, TypeOK
<1>2. m \in 0 .. Len(s)
  BY <1>1, BelowIs DEF Leading
<1>3. m \in 0 .. Len(s) - 1 /\ m + 1 \in 1 .. Len(s)
  BY <1>1, <1>2 DEF Leading
<1> QED BY <1>1, <1>3, SortedIs, CellIs DEF Leading

(* deleteI takes the node out of each of its levels, and of no other.        *)
LEMMA LinkedIs ==
    ASSUME TypeOK, NEW s, Shape(s), NEW k, NEW m, NEW x, NEW update, Leading(s, k, m, x, update),
           NEW i \in Levels
    PROVE  /\ i \in Linked(x, update) <=> sz[x] > i
           /\ sz[x] > i => /\ Tall(s, i, m + 1)
                           /\ update[i] = Cell(s, Below(s, i, k))
                           /\ Adjacent(s, i, Below(s, i, k), m + 1)
                           /\ \E r : Adjacent(s, i, m + 1, r) /\ next[x][i] = Cell(s, r)
<1>1. /\ Sorted(s) /\ Len(s) \in Nat /\ k \in Keys /\ curlevel \in 1 .. MaxLevel
      /\ m \in 0 .. Len(s) - 1 /\ m + 1 \in 1 .. Len(s) /\ x \in Nodes
      /\ x = Cell(s, m + 1) /\ x = s[m + 1] /\ sz[x] \in 1 .. MaxLevel
  BY LeadingIs
<1>2. m = Below(s, 0, k) /\ m # Len(s) /\ \A j \in 0 .. curlevel - 1 : update[j] = Cell(s, Below(s, j, k))
  BY DEF Leading, PathTo
<1>3. sz[x] <= curlevel /\ 0 .. curlevel - 1 \subseteq Levels
  BY <1>1 DEF Shape, Counted, Levels
<1>4. ASSUME NEW j \in Levels
      PROVE  /\ Tall(s, j, m + 1) <=> sz[x] > j
             /\ sz[x] > j => Adjacent(s, j, Below(s, j, k), m + 1)
  <2>1. Tall(s, j, m + 1) <=> sz[x] > j
    BY <1>1 DEF Tall
  <2> QED BY <1>1, <1>2, <2>1, BelowNext
<1>5. ASSUME NEW j \in 0 .. curlevel - 1
      PROVE  next[update[j]][j] = x <=> sz[x] > j
  <2>1. j \in Levels /\ update[j] = Cell(s, Below(s, j, k))
    BY <1>2, <1>3
  <2>2. CASE sz[x] > j
    BY <1>1, <1>4, <2>1, <2>2, LinksAre
  <2>3. CASE next[update[j]][j] = x
    <3>1. Below(s, j, k) \in 0 .. Len(s) /\ Tall(s, j, Below(s, j, k))
      BY <1>1, <2>1, BelowIs DEF LastUnder
    <3>2. PICK r : Adjacent(s, j, Below(s, j, k), r)
      BY <1>1, <2>1, <3>1, NeighbourAhead
    <3>3. next[update[j]][j] = Cell(s, r)
      BY <2>1, <3>2, LinksAre
    <3>4. r \in 1 .. Len(s) + 1 /\ Tall(s, j, r) /\ m + 1 \in 1 .. Len(s) + 1
      BY <1>1, <3>2 DEF Adjacent
    <3>5. r = m + 1
      BY <1>1, <2>3, <3>3, <3>4, CellIs
    <3>6. Tall(s, j, m + 1)
      BY <3>4, <3>5
    <3> QED BY <1>4, <2>1, <2>3, <3>6
  <2> QED BY <2>2, <2>3
<1>6. i \in Nat
  BY DEF Levels
<1>7. i \in Linked(x, update) <=> sz[x] > i
  <2>1. i \in Linked(x, update) <=> i \in 0 .. curlevel - 1 /\ \A j \in 0 .. i : next[update[j]][j] = x
    BY DEF Linked
  <2>2. CASE i \in 0 .. curlevel - 1
    <3>1. \A j \in 0 .. i : j \in 0 .. curlevel - 1
      BY <1>1, <2>2
    <3>2. \A j \in 0 .. i : next[update[j]][j] = x <=> sz[x] > j
      BY <1>5, <3>1
    <3>3. i \in 0 .. i
      BY <1>6
    <3>4. sz[x] > i => \A j \in 0 .. i : sz[x] > j
      BY <1>1, <1>6
    <3> QED BY <2>1, <2>2, <3>2, <3>3, <3>4
  <2>3. CASE i \notin 0 .. curlevel - 1
    BY <1>1, <1>3, <1>6, <2>1, <2>3
  <2> QED BY <2>2, <2>3
<1>8. ASSUME sz[x] > i
      PROVE  /\ Tall(s, i, m + 1)
             /\ update[i] = Cell(s, Below(s, i, k))
             /\ Adjacent(s, i, Below(s, i, k), m + 1)
             /\ \E r : Adjacent(s, i, m + 1, r) /\ next[x][i] = Cell(s, r)
  <2>1. i \in 0 .. curlevel - 1
    BY <1>1, <1>3, <1>6, <1>8
  <2>2. Tall(s, i, m + 1) /\ Adjacent(s, i, Below(s, i, k), m + 1)
    BY <1>4, <1>8
  <2>3. m + 1 \in 0 .. Len(s)
    BY <1>1
  <2>4. PICK r : Adjacent(s, i, m + 1, r)
    BY <1>1, <2>2, <2>3, NeighbourAhead
  <2>5. next[x][i] = Cell(s, r)
    BY <1>1, <2>4, LinksAre
  <2> QED BY <1>2, <2>1, <2>2, <2>4, <2>5
<1> QED BY <1>7, <1>8

(* What Unlink writes.                                                       *)
LEMMA UnlinkWrites ==
    ASSUME NEW x, NEW update, Unlink(x, update), NEW c \in Cells, NEW i \in Levels
    PROVE  /\ c = x => next'[c][i] = NIL /\ prev'[c][i] = NIL
           /\ c # x => /\ i \in Linked(x, update) /\ c = update[i] => next'[c][i] = next[x][i]
                       /\ ~(i \in Linked(x, update) /\ c = update[i]) => next'[c][i] = next[c][i]
                       /\ i \in Linked(x, update) /\ c = next[x][i] => prev'[c][i] = update[i]
                       /\ ~(i \in Linked(x, update) /\ c = next[x][i]) => prev'[c][i] = prev[c][i]
<1>1. next'[c][i] = IF c = x THEN NIL
                    ELSE IF i \in Linked(x, update) /\ c = update[i] THEN next[x][i]
                    ELSE next[c][i]
  BY DEF Unlink, Over
<1>2. prev'[c][i] = IF c = x THEN NIL
                    ELSE IF i \in Linked(x, update) /\ c = next[x][i] THEN update[i]
                    ELSE prev[c][i]
  BY DEF Unlink, Back
<1> QED BY <1>1, <1>2, Zenon

(* After Unlink the links lead from neighbour to neighbour again.            *)
LEMMA UnlinkLinks ==
    ASSUME TypeOK, NEW s, Shape(s), NEW k, NEW m, NEW x, NEW update, Leading(s, k, m, x, update),
           Leaves(s, m), Unlink(x, update)
    PROVE  Linking(Shrink(s, m))'
<1> DEFINE t == Shrink(s, m)
<1>1. /\ Sorted(s) /\ Len(s) \in Nat /\ k \in Keys
      /\ m \in 0 .. Len(s) - 1 /\ m + 1 \in 1 .. Len(s) /\ x \in Nodes /\ x \in Cells
      /\ x = Cell(s, m + 1) /\ x = s[m + 1] /\ x # NIL
  BY LeadingIs
<1>2. \A p \in 0 .. Len(s) : Cell(t, p) = Cell(s, Up(m, p))
  <2>1. s \in Seq(Nodes)
    BY <1>1 DEF Sorted
  <2> QED BY <1>1, <2>1, ShrinkIs
<1> HIDE DEF t
<1>3. ASSUME NEW i \in Levels, NEW p, NEW q, Adjacent(s, i, p, q), p # m + 1, q # m + 1
      PROVE  /\ next'[Cell(s, p)][i] = Cell(s, q)
             /\ prev'[Cell(s, q)][i] = Cell(s, p)
  <2>1. /\ p \in 0 .. Len(s) /\ q \in 1 .. Len(s) + 1
        /\ m + 1 \in 0 .. Len(s) /\ m + 1 \in 1 .. Len(s) + 1
    BY <1>1, <1>3 DEF Adjacent
  <2>2. /\ Cell(s, p) \in Cells /\ Cell(s, q) \in Cells
        /\ Cell(s, p) # x /\ Cell(s, q) # x
    BY <1>1, <1>3, <2>1, CellIs
  <2>3. next[Cell(s, p)][i] = Cell(s, q) /\ prev[Cell(s, q)][i] = Cell(s, p)
    BY <1>3, LinksAre
  <2>4. ASSUME i \in Linked(x, update)
        PROVE  Cell(s, p) # update[i] /\ Cell(s, q) # next[x][i]
    <3>1. PICK B \in 0 .. Len(s) : B = Below(s, i, k)
      BY <1>1, BelowIs
    <3>2. /\ update[i] = Cell(s, B) /\ Adjacent(s, i, B, m + 1)
          /\ \E r : Adjacent(s, i, m + 1, r) /\ next[x][i] = Cell(s, r)
      BY <2>4, <3>1, LinkedIs
    <3>3. PICK r : Adjacent(s, i, m + 1, r) /\ next[x][i] = Cell(s, r)
      BY <3>2
    <3>4. p # B /\ q # r
      BY <1>1, <1>3, <3>2, <3>3, OneNeighbour
    <3>5. r \in 1 .. Len(s) + 1
      BY <3>3 DEF Adjacent
    <3> QED BY <1>1, <2>1, <3>2, <3>3, <3>4, <3>5, CellIs
  <2> QED BY <2>2, <2>3, <2>4, UnlinkWrites
<1>4. ASSUME NEW i \in Levels, NEW p, NEW q, Adjacent(s, i, p, m + 1), Adjacent(s, i, m + 1, q)
      PROVE  /\ next'[Cell(s, p)][i] = Cell(s, q)
             /\ prev'[Cell(s, q)][i] = Cell(s, p)
  <2>1. /\ p \in 0 .. Len(s) /\ q \in 1 .. Len(s) + 1 /\ p # m + 1 /\ q # m + 1
        /\ m + 1 \in 0 .. Len(s) /\ m + 1 \in 1 .. Len(s) + 1 /\ Tall(s, i, m + 1)
    BY <1>1, <1>4 DEF Adjacent
  <2>2. /\ Cell(s, p) \in Cells /\ Cell(s, q) \in Cells
        /\ Cell(s, p) # x /\ Cell(s, q) # x
    BY <1>1, <2>1, CellIs
  <2>3. sz[x] > i
    BY <1>1, <2>1 DEF Tall
  <2>4. PICK B \in 0 .. Len(s) : B = Below(s, i, k)
    BY <1>1, BelowIs
  <2>5. /\ i \in Linked(x, update) /\ update[i] = Cell(s, B) /\ Adjacent(s, i, B, m + 1)
    BY <2>3, <2>4, LinkedIs
  <2>6. p = B
    BY <1>1, <1>4, <2>5, OneNeighbour
  <2>7. next[x][i] = Cell(s, q)
    BY <1>1, <1>4, LinksAre
  <2> QED BY <2>2, <2>5, <2>6, <2>7, UnlinkWrites
<1>5. ASSUME NEW i \in Levels, NEW a, NEW b, Adjacent(t, i, a, b)'
      PROVE  next'[Cell(t, a)][i] = Cell(t, b) /\ prev'[Cell(t, b)][i] = Cell(t, a)
  <2>1. /\ a \in 0 .. Len(s) /\ b \in 0 .. Len(s) /\ Up(m, a) # m + 1 /\ Up(m, b) # m + 1
        /\ \/ Adjacent(s, i, Up(m, a), Up(m, b))
           \/ Adjacent(s, i, Up(m, a), m + 1) /\ Adjacent(s, i, m + 1, Up(m, b))
    BY <1>1, <1>5, ShrinkAdjacent DEF t
  <2>2. Cell(t, a) = Cell(s, Up(m, a)) /\ Cell(t, b) = Cell(s, Up(m, b))
    BY <1>2, <2>1
  <2> QED BY <1>3, <1>4, <2>1, <2>2
<1>6. ASSUME NEW i \in Levels, NEW c \in Nodes, sz'[c] <= i
      PROVE  next'[c][i] = NIL /\ prev'[c][i] = NIL
  <2>1. c \in Cells
    BY DEF Cells
  <2>2. CASE c = x
    BY <2>1, <2>2, UnlinkWrites
  <2>3. CASE c # x
    <3>1. sz'[c] = sz[c]
      BY <1>1, <2>1, <2>3, LeavingIs
    <3>2. sz[c] <= i /\ sz[c] \in Nat /\ i \in Nat
      BY <1>6, <2>1, <3>1 DEF TypeOK, Levels
    <3>3. next[c][i] = NIL /\ prev[c][i] = NIL
      BY <3>2 DEF Shape, Linking
    <3>4. ASSUME NEW p, Tall(s, i, p), c = Cell(s, p)
          PROVE  FALSE
      BY <1>1, <3>2, <3>4 DEF Tall, Cell
    <3>5. ASSUME i \in Linked(x, update)
          PROVE  c # update[i] /\ c # next[x][i]
      <4>1. PICK B \in 0 .. Len(s) : B = Below(s, i, k)
        BY <1>1, BelowIs
      <4>2. /\ update[i] = Cell(s, B) /\ Adjacent(s, i, B, m + 1)
            /\ \E r : Adjacent(s, i, m + 1, r) /\ next[x][i] = Cell(s, r)
        BY <3>5, <4>1, LinkedIs
      <4> QED BY <3>4, <4>2 DEF Adjacent
    <3> QED BY <2>1, <2>3, <3>3, <3>5, UnlinkWrites
  <2> QED BY <2>2, <2>3
<1> QED BY <1>5, <1>6 DEF Linking, t

(* The function by which AdjustCurLevel goes down.                           *)
Lowers(f, header) == f = [c \in 1 .. MaxLevel |-> IF c > 1 /\ header[c - 1] = NIL THEN f[c - 1] ELSE c]

(* There is one: level by level from below.                                  *)
LEMMA LowersExist ==
    ASSUME NEW header
    PROVE  \E f : Lowers(f, header)
<1> DEFINE S(c) == {d \in 1 .. c : d = 1 \/ header[d - 1] # NIL}
           Top(d, c) == d \in S(c) /\ \A e \in S(c) : e <= d
           f == [c \in 1 .. MaxLevel |-> CHOOSE d : Top(d, c)]
<1>1. ASSUME NEW c \in 1 .. MaxLevel
      PROVE  Top(f[c], c)
  <2>1. S(c) \in SUBSET (0 .. c) /\ 1 \in S(c) /\ c \in Nat
    OBVIOUS
  <2>2. PICK d \in S(c) : \A e \in S(c) : e <= d
    <3>1. S(c) # {}
      BY <2>1
    <3> HIDE DEF S
    <3> QED BY <2>1, <3>1, GreatestNumber
  <2>3. Top(d, c)
    BY <2>2
  <2>4. f[c] = CHOOSE e : Top(e, c)
    OBVIOUS
  <2> HIDE DEF Top, f
  <2> QED BY <2>3, <2>4, Zenon
<1> HIDE DEF f
<1>2. ASSUME NEW c \in 1 .. MaxLevel
      PROVE  f[c] = IF c > 1 /\ header[c - 1] = NIL THEN f[c - 1] ELSE c
  <2>1. Top(f[c], c) /\ f[c] \in 1 .. c /\ c \in Nat
    BY <1>1
  <2>2. CASE c > 1 /\ header[c - 1] = NIL
    <3>1. c - 1 \in 1 .. MaxLevel /\ c - 1 \in Nat
      BY <2>2
    <3>2. Top(f[c - 1], c - 1) /\ f[c - 1] \in 1 .. c - 1
      BY <1>1, <3>1
    <3>3. f[c - 1] \in S(c) /\ f[c] \in S(c - 1)
      BY <2>1, <2>2, <3>1, <3>2
    <3>4. f[c - 1] <= f[c] /\ f[c] <= f[c - 1]
      BY <2>1, <3>2, <3>3
    <3>5. f[c] = f[c - 1]
      <4> DEFINE a == f[c]
                 b == f[c - 1]
      <4>1. a \in 1 .. c /\ b \in 1 .. c - 1 /\ a <= b /\ b <= a
        BY <2>1, <3>2, <3>4
      <4> HIDE DEF a, b
      <4>2. a = b
        BY <2>1, <4>1
      <4> QED BY <4>2 DEF a, b
    <3> QED BY <2>2, <3>5
  <2>3. CASE ~(c > 1 /\ header[c - 1] = NIL)
    <3>1. c \in S(c)
      BY <2>1, <2>3
    <3>2. c <= f[c]
      BY <2>1, <3>1
    <3> QED BY <2>1, <2>3, <3>2
  <2> QED BY <2>2, <2>3
<1>3. f = [c \in 1 .. MaxLevel |-> IF c > 1 /\ header[c - 1] = NIL THEN f[c - 1] ELSE c]
  <2>1. f \in [1 .. MaxLevel -> {f[c] : c \in 1 .. MaxLevel}]
    BY DEF f
  <2> QED BY <1>2, <2>1
<1> QED BY <1>3 DEF Lowers

(* AdjustCurLevel is a function of that kind, when there is one.             *)
LEMMA AdjustIsSome ==
    ASSUME NEW header, \E f : Lowers(f, header)
    PROVE  \E f : Lowers(f, header) /\ AdjustCurLevel(header) = f[curlevel]
BY Zenon DEF Lowers, AdjustCurLevel

(* adjustCurLevel ends at the highest level in use, but not below the first. *)
LEMMA AdjustIs ==
    ASSUME curlevel \in 1 .. MaxLevel, NEW header
    PROVE  /\ AdjustCurLevel(header) \in 1 .. curlevel
           /\ AdjustCurLevel(header) > 1 => header[AdjustCurLevel(header) - 1] # NIL
           /\ \A c \in 2 .. curlevel : c > AdjustCurLevel(header) => header[c - 1] = NIL
<1>1. PICK f : Lowers(f, header) /\ AdjustCurLevel(header) = f[curlevel]
  BY LowersExist, AdjustIsSome
<1>2. \A c \in 1 .. MaxLevel : f[c] = IF c > 1 /\ header[c - 1] = NIL THEN f[c - 1] ELSE c
  BY <1>1 DEF Lowers
<1> DEFINE Good(c) == /\ f[c] \in 1 .. c
                      /\ f[c] > 1 => header[f[c] - 1] # NIL
                      /\ \A d \in 2 .. c : d > f[c] => header[d - 1] = NIL
           fails == {c \in 1 .. MaxLevel : ~Good(c)}
<1>3. ASSUME fails # {}
      PROVE  FALSE
  <2>1. PICK c \in fails : \A d \in fails : c <= d
    <3>1. fails \in SUBSET Nat
      OBVIOUS
    <3> HIDE DEF fails
    <3> QED BY <1>3, <3>1, LeastNumber
  <2>2. CASE c > 1 /\ header[c - 1] = NIL
    <3>1. c - 1 \in 1 .. MaxLevel /\ c - 1 \notin fails /\ f[c] = f[c - 1]
      BY <1>2, <2>1, <2>2
    <3>2. Good(c - 1)
      BY <3>1
    <3>3. Good(c)
      <4> DEFINE a == f[c]
      <4>1. /\ a \in 1 .. c - 1 /\ (a > 1 => header[a - 1] # NIL)
            /\ \A d \in 2 .. c - 1 : d > a => header[d - 1] = NIL
        BY <3>1, <3>2
      <4> HIDE DEF a
      <4>2. \A d \in 2 .. c : d = c \/ d \in 2 .. c - 1
        BY <2>1
      <4>3. /\ a \in 1 .. c /\ (a > 1 => header[a - 1] # NIL)
            /\ \A d \in 2 .. c : d > a => header[d - 1] = NIL
        BY <2>1, <2>2, <4>1, <4>2
      <4> QED BY <4>3 DEF a
    <3> QED BY <2>1, <3>3
  <2>3. CASE ~(c > 1 /\ header[c - 1] = NIL)
    <3>1. f[c] = c
      BY <1>2, <2>1, <2>3
    <3> QED BY <2>1, <2>3, <3>1
  <2> QED BY <2>2, <2>3
<1>4. Good(curlevel)
  BY <1>3
<1> QED BY <1>1, <1>4

(* The header of a level leads somewhere when a node has the level.          *)
LEMMA UnlinkHeader ==
    ASSUME TypeOK, NEW s, Shape(s), NEW k, NEW m, NEW x, NEW update, Leading(s, k, m, x, update),
           Leaves(s, m), Unlink(x, update), NEW i \in Levels
    PROVE  next'[NIL][i] # NIL <=> \E a \in 1 .. Len(s) - 1 : sz'[Shrink(s, m)[a]] > i
<1> DEFINE t == Shrink(s, m)
           size == sz'
<1>1. /\ Sorted(s) /\ Len(s) \in Nat /\ Len(s) - 1 \in Nat /\ m \in 0 .. Len(s) - 1
      /\ s \in Seq(Nodes)
  <2>1. Sorted(s) /\ Len(s) \in Nat /\ m \in 0 .. Len(s) - 1
    BY LeadingIs
  <2> QED BY <2>1 DEF Sorted
<1>2. /\ t \in Seq(Nodes) /\ Len(t) = Len(s) - 1
      /\ \A a \in 1 .. Len(t) : t[a] \in Nodes /\ t[a] # NIL
      /\ Cell(t, 0) = NIL /\ \A a \in 1 .. Len(t) : Cell(t, a) = t[a]
      /\ Cell(t, Len(t) + 1) = NIL
  <2>1. t \in Seq(Nodes) /\ Len(t) = Len(s) - 1
    BY <1>1, ShrinkIs
  <2> HIDE DEF t
  <2> QED BY <1>1, <2>1 DEF Cell
<1>3. \A q \in 1 .. Len(t) + 1 : Adjacent(t, i, 0, q)' => next'[NIL][i] = Cell(t, q)
  <2>1. Linking(t)'
    BY UnlinkLinks
  <2> HIDE DEF t
  <2>2. \A q \in 1 .. Len(t) + 1 : 0 \in 0 .. Len(t) + 1 /\ q \in 0 .. Len(t) + 1
    BY <1>1, <1>2
  <2> QED BY <1>2, <2>1, <2>2 DEF Linking
<1> HIDE DEF t
<1>4. Len(t) \in Nat
  BY <1>1, <1>2
<1> DEFINE S == {r \in 1 .. Len(t) + 1 : r = Len(t) + 1 \/ size[t[r]] > i}
<1>5. PICK q \in S : \A r \in S : q <= r
  <2>1. S \in SUBSET Nat /\ Len(t) + 1 \in S
    BY <1>4
  <2> HIDE DEF S
  <2> QED BY <2>1, LeastNumber
<1>6. Adjacent(t, i, 0, q)'
  <2>1. Tall(t, i, 0)' /\ Tall(t, i, q)'
    BY <1>4, <1>5 DEF Tall
  <2>2. \A r \in 1 .. Len(t) : r < q => ~Tall(t, i, r)'
    BY <1>4, <1>5 DEF Tall
  <2> QED BY <1>4, <1>5, <2>1, <2>2 DEF Adjacent
<1>7. next'[NIL][i] = Cell(t, q)
  BY <1>3, <1>5, <1>6
<1> HIDE DEF size
<1>8. CASE q = Len(t) + 1
  <2>1. \A a \in 1 .. Len(t) : ~(size[t[a]] > i)
    BY <1>4, <1>5, <1>8
  <2> QED BY <1>2, <1>7, <1>8, <2>1 DEF t, size
<1>9. CASE q # Len(t) + 1
  <2>1. q \in 1 .. Len(t) /\ size[t[q]] > i
    BY <1>4, <1>5, <1>9
  <2> QED BY <1>2, <1>7, <2>1 DEF t, size
<1> QED BY <1>8, <1>9

(* After Unlink the counters, the highest level and the tail are right       *)
(* again.                                                                    *)
LEMMA UnlinkCounts ==
    ASSUME TypeOK, NEW s, Shape(s), NEW k, NEW m, NEW x, NEW update, Leading(s, k, m, x, update),
           Leaves(s, m), Unlink(x, update)
    PROVE  Counted(Shrink(s, m))'
<1> DEFINE t == Shrink(s, m)
           size == sz'
           new == curlevel'
           header == next'[NIL]
<1>1. /\ Sorted(s) /\ Len(s) \in Nat /\ m \in 0 .. Len(s) - 1 /\ m + 1 \in 1 .. Len(s)
      /\ x \in Nodes /\ x \in Cells /\ x = s[m + 1] /\ x = Cell(s, m + 1)
      /\ curlevel \in 1 .. MaxLevel /\ k \in Keys /\ 0 \in Levels /\ sz[x] \in 1 .. MaxLevel
  BY LeadingIs DEF Levels
<1>2. /\ Len(t) = Len(s) - 1
      /\ \A p \in 1 .. Len(s) - 1 : t[p] = s[Up(m, p)]
      /\ \A p \in 0 .. Len(s) : Cell(t, p) = Cell(s, Up(m, p))
  <2>1. s \in Seq(Nodes)
    BY <1>1 DEF Sorted
  <2> QED BY <1>1, <2>1, ShrinkIs
<1>3. /\ nodenum = Len(s) /\ tail = Cell(s, Len(s))
      /\ \A p \in 1 .. Len(s) : sz[s[p]] <= curlevel
  BY DEF Shape, Counted
<1>4. \A i \in Levels : header[i] # NIL <=> \E a \in 1 .. Len(s) - 1 : size[t[a]] > i
  BY UnlinkHeader
<1>5. nodenum' = Len(s) - 1
  BY <1>3 DEF Unlink
<1>6. new = AdjustCurLevel(header)
  BY DEF Unlink
<1> HIDE DEF t
<1>7. tail' = Cell(t, Len(s) - 1)
  <2>1. next[x][0] = Cell(s, m + 2) /\ update[0] = Cell(s, m)
    <3>1. sz[x] > 0
      BY <1>1
    <3>2. PICK B \in 0 .. Len(s) : B = Below(s, 0, k)
      BY <1>1, BelowIs
    <3>3. B = m
      BY <3>2 DEF Leading
    <3>4. /\ update[0] = Cell(s, B)
          /\ \E r : Adjacent(s, 0, m + 1, r) /\ next[x][0] = Cell(s, r)
      BY <1>1, <3>1, <3>2, LinkedIs
    <3>5. PICK r : Adjacent(s, 0, m + 1, r) /\ next[x][0] = Cell(s, r)
      BY <3>4
    <3>6. Adjacent(s, 0, m + 1, m + 2)
      <4>1. \A p \in 0 .. Len(s) + 1 : Tall(s, 0, p)
        BY <1>1, SortedIs DEF Tall
      <4> QED BY <1>1, <4>1 DEF Adjacent
    <3>7. r = m + 2
      BY <1>1, <3>5, <3>6, OneNeighbour
    <3> QED BY <3>3, <3>4, <3>5, <3>7
  <2>2. CASE m + 1 = Len(s)
    <3>1. next[x][0] = NIL
      <4>1. m + 2 = Len(s) + 1
        BY <1>1, <2>2
      <4> QED BY <1>1, <2>1, <4>1, CellIs
    <3>2. Up(m, m) = m /\ m = Len(s) - 1 /\ m \in 0 .. Len(s)
      BY <1>1, <2>2 DEF Up
    <3>3. tail' = Cell(s, m)
      BY <2>1, <3>1 DEF Unlink
    <3> QED BY <1>2, <3>2, <3>3
  <2>3. CASE m + 1 # Len(s)
    <3>1. m + 2 \in 1 .. Len(s)
      BY <1>1, <2>3
    <3>2. next[x][0] # NIL
      BY <1>1, <2>1, <3>1, CellIs
    <3>3. Up(m, Len(s) - 1) = Len(s) /\ Len(s) - 1 \in 0 .. Len(s)
      BY <1>1, <2>3 DEF Up
    <3>4. tail' = Cell(s, Len(s))
      BY <1>3, <3>2 DEF Unlink
    <3> QED BY <1>2, <3>3, <3>4
  <2> QED BY <2>2, <2>3
<1>8. \A a \in 1 .. Len(s) - 1 : size[t[a]] = sz[s[Up(m, a)]] /\ Up(m, a) \in 1 .. Len(s)
  <2> SUFFICES ASSUME NEW a \in 1 .. Len(s) - 1
               PROVE  size[t[a]] = sz[s[Up(m, a)]] /\ Up(m, a) \in 1 .. Len(s)
    OBVIOUS
  <2>1. Up(m, a) \in 1 .. Len(s) /\ Up(m, a) # m + 1
    BY <1>1 DEF Up
  <2>2. s[Up(m, a)] \in Cells /\ s[Up(m, a)] # s[m + 1]
    BY <1>1, <2>1, SortedIs, LeavingIs
  <2>3. size[s[Up(m, a)]] = sz[s[Up(m, a)]]
    BY <1>1, <2>2, LeavingIs
  <2> QED BY <1>2, <2>1, <2>3
<1>9. \A p \in 1 .. Len(s) : sz[s[p]] \in 1 .. MaxLevel
  BY <1>1, SortedIs
<1>10. (\A a \in 1 .. Len(t) : size[t[a]] <= new) /\ (new > 1 => \E a \in 1 .. Len(t) : size[t[a]] = new)
       => Counted(t)'
  BY <1>2, <1>5, <1>7 DEF Counted
<1> HIDE DEF size, new, header
<1>11. /\ new \in 1 .. curlevel
       /\ new > 1 => header[new - 1] # NIL
       /\ \A c \in 2 .. curlevel : c > new => header[c - 1] = NIL
  BY <1>1, <1>6, AdjustIs
<1>12. ASSUME NEW a \in 1 .. Len(s) - 1
       PROVE  size[t[a]] <= new /\ size[t[a]] \in 1 .. curlevel
  <2> DEFINE h == size[t[a]]
  <2>1. h \in 1 .. curlevel
    BY <1>1, <1>3, <1>8, <1>9
  <2>2. \E b \in 1 .. Len(s) - 1 : size[t[b]] > h - 1
    BY <1>1, <2>1
  <2> HIDE DEF h
  <2>3. h - 1 \in Levels
    BY <1>1, <2>1 DEF Levels
  <2>4. header[h - 1] # NIL
    BY <1>4, <2>2, <2>3
  <2>5. h <= new
    BY <1>1, <1>11, <2>1, <2>4
  <2> QED BY <2>1, <2>5 DEF h
<1>13. ASSUME new > 1
       PROVE  \E a \in 1 .. Len(s) - 1 : size[t[a]] = new
  <2>1. new - 1 \in Levels
    BY <1>1, <1>11 DEF Levels
  <2>2. PICK a \in 1 .. Len(s) - 1 : size[t[a]] > new - 1
    BY <1>4, <1>11, <1>13, <2>1
  <2>3. size[t[a]] = new
    BY <1>1, <1>11, <1>12, <2>2
  <2> QED BY <2>3
<1> QED BY <1>2, <1>10, <1>12, <1>13 DEF t

(* Unlink keeps the types.                                                   *)
LEMMA UnlinkTypes ==
    ASSUME TypeOK, NEW s, Shape(s), NEW k, NEW m, NEW x, NEW update, Leading(s, k, m, x, update),
           Unlink(x, update)
    PROVE  TypeOK'
<1>1. /\ x \in Nodes /\ x \in Cells /\ NIL \in Cells /\ x # NIL /\ Sorted(s)
      /\ Len(s) \in Nat /\ Len(s) # 0 /\ nodenum = Len(s)
  BY LeadingIs DEF Cells, Shape, Counted
<1>2. curlevel \in 1 .. MaxLevel
  BY DEF TypeOK
<1>3. \A i \in 0 .. curlevel - 1 : update[i] \in Cells
  BY <1>1, CellIs DEF Leading, PathTo
<1>4. \A i \in Linked(x, update) : i \in 0 .. curlevel - 1
  BY DEF Linked
<1>5. \A c \in Cells, i \in Levels : next'[c][i] \in Cells /\ prev'[c][i] \in Cells
  <2> SUFFICES ASSUME NEW c \in Cells, NEW i \in Levels
               PROVE  next'[c][i] \in Cells /\ prev'[c][i] \in Cells
    OBVIOUS
  <2>1. next[x][i] \in Cells /\ next[c][i] \in Cells /\ prev[c][i] \in Cells
    BY <1>1 DEF TypeOK
  <2>2. i \in Linked(x, update) => update[i] \in Cells
    BY <1>3, <1>4
  <2> QED BY <1>1, <2>1, <2>2, UnlinkWrites
<1>6. next' \in [Cells -> [Levels -> Cells]] /\ prev' \in [Cells -> [Levels -> Cells]]
  <2>1. \A c \in Cells : next'[c] \in [Levels -> Cells] /\ prev'[c] \in [Levels -> Cells]
    BY <1>5 DEF Unlink, Over, Back
  <2> QED BY <2>1 DEF Unlink, Over, Back
<1>7. sz' \in [Cells -> 0 .. MaxLevel] /\ sz'[NIL] = MaxLevel
  BY <1>1 DEF TypeOK, Unlink
<1>8. key' \in [Nodes -> Keys \cup {0}] /\ item' \in [Nodes -> Items \cup {NULL}]
  BY DEF TypeOK, Unlink
<1>9. curlevel' \in 1 .. MaxLevel
  <2> DEFINE header == next'[NIL]
             new == curlevel'
  <2>1. new = AdjustCurLevel(header)
    BY DEF Unlink
  <2> HIDE DEF header, new
  <2>2. AdjustCurLevel(header) \in 1 .. curlevel
    BY <1>2, AdjustIs
  <2>3. new \in 1 .. MaxLevel
    BY <1>2, <2>1, <2>2
  <2> QED BY <2>3 DEF new
<1>10. nodenum' \in Nat
  <2>1. nodenum - 1 \in Nat
    BY <1>1
  <2> QED BY <2>1 DEF Unlink
<1>11. tail' \in Cells
  <2>1. update[0] \in Cells
    BY <1>2, <1>3
  <2> QED BY <2>1 DEF TypeOK, Unlink
<1> QED BY <1>6, <1>7, <1>8, <1>9, <1>10, <1>11 DEF TypeOK

(* deleteI on the node it has found.                                         *)
LEMMA UnlinkKeeps ==
    ASSUME TypeOK, NEW s, Shape(s), NEW k \in Keys, Equal(Stop(k), k),
           Unlink(Stop(k), Path(curlevel, k)), NEW m, m = Below(s, 0, k)
    PROVE  /\ m # Len(s) /\ Stop(k) = s[m + 1] /\ key[s[m + 1]] = k
           /\ TypeOK' /\ Shape(Shrink(s, m))'
<1>1. /\ Sorted(s) /\ Len(s) \in Nat /\ curlevel \in 1 .. MaxLevel /\ 0 \in Levels
  BY SortedIs DEF Shape, TypeOK, Levels
<1>2. m \in 0 .. Len(s) /\ Stop(k) = Cell(s, m + 1) /\ Stop(k) # NIL /\ key[Stop(k)] = k
  BY <1>1, BelowIs, StopIs DEF Equal
<1>3. m # Len(s)
  BY <1>1, <1>2, CellIs
<1>4. m \in 0 .. Len(s) - 1 /\ m + 1 \in 1 .. Len(s)
  BY <1>1, <1>2, <1>3
<1>5. Stop(k) = s[m + 1]
  BY <1>1, <1>2, <1>4, CellIs
<1>6. Leading(s, k, m, Stop(k), Path(curlevel, k))
  BY <1>1, <1>3, <1>5, PathIs DEF Leading, PathTo
<1>7. Leaves(s, m)
  BY <1>4, <1>5 DEF Leaves, Unlink
<1>8. TypeOK'
  BY <1>6, UnlinkTypes
<1>9. Sorted(Shrink(s, m))'
  BY <1>1, <1>7, ShrinkSorted
<1>10. Linking(Shrink(s, m))' /\ Counted(Shrink(s, m))'
  BY <1>6, <1>7, UnlinkLinks, UnlinkCounts
<1> QED BY <1>2, <1>3, <1>5, <1>8, <1>9, <1>10 DEF Shape

-----------------------------------------------------------------------------
(* The calls                                                                *)

(* Nothing on the levels in use stands out above them.                       *)
LEMMA AboveCurLevel ==
    ASSUME TypeOK, NEW s, Shape(s), NEW k \in Keys, NEW i \in Levels, i >= curlevel
    PROVE  Cell(s, Below(s, i, k)) = NIL
<1>1. /\ Sorted(s) /\ Len(s) \in Nat /\ curlevel \in Nat /\ i \in Nat
      /\ \A p \in 1 .. Len(s) : sz[s[p]] \in 1 .. MaxLevel /\ sz[s[p]] <= curlevel
  <2>1. Sorted(s) /\ \A p \in 1 .. Len(s) : sz[s[p]] <= curlevel
    BY DEF Shape, Counted
  <2>2. curlevel \in Nat /\ i \in Nat
    BY DEF TypeOK, Levels
  <2> QED BY <2>1, <2>2, SortedIs
<1>2. PICK B \in 0 .. Len(s) : B = Below(s, i, k) /\ LastUnder(s, i, k, B)
  BY <1>1, BelowIs
<1>3. Tall(s, i, B)
  BY <1>2 DEF LastUnder
<1>4. B \notin 1 .. Len(s)
  BY <1>1, <1>3 DEF Tall
<1> QED BY <1>2, <1>4 DEF Cell

(* No level is drawn that the header does not have.                          *)
LEMMA GenLevelIs ==
    ASSUME TypeOK
    PROVE  GenLevel \subseteq 1 .. MaxLevel
BY DEF TypeOK, GenLevel

(* The node is linked behind the nodes with smaller keys, or there is no     *)
(* memory: what _insertPlain and addNodeAndUpdateLinks do.                   *)
Adds(s, op, n, k, v) ==
    \/ Exhausted(op, k)
    \/ /\ \E lev \in 1 .. MaxLevel : \E update : PathTo(s, k, lev, update) /\ Link(n, k, v, lev, update)
       /\ Answer(op, k, "STATUS_OK")

(* _insertPlain searches after it has raised curlevel, with the same path.   *)
LEMMA InsertPlainLinks ==
    ASSUME TypeOK, NEW s, Shape(s), NEW op, NEW n \in Nodes, NEW k \in Keys, NEW v \in Items,
           InsertPlain(op, n, k, v)
    PROVE  Adds(s, op, n, k, v)
<1>1. CASE Exhausted(op, k)
  BY <1>1 DEF Adds
<1>2. ASSUME NEW lev \in GenLevel, Link(n, k, v, lev, Path(IF lev > curlevel THEN lev ELSE curlevel, k))
      PROVE  PathTo(s, k, lev, Path(IF lev > curlevel THEN lev ELSE curlevel, k)) /\ lev \in 1 .. MaxLevel
  <2> DEFINE top == IF lev > curlevel THEN lev ELSE curlevel
  <2>1. lev \in 1 .. MaxLevel /\ curlevel \in 1 .. MaxLevel
    BY GenLevelIs DEF TypeOK
  <2>2. top \in 1 .. MaxLevel /\ \A i \in 0 .. lev - 1 : i \in 0 .. top - 1
    BY <2>1
  <2> HIDE DEF top
  <2>3. PathTo(s, k, lev, Path(top, k))
    BY <2>2, PathIs DEF PathTo
  <2> QED BY <2>1, <2>3 DEF top
<1> QED BY <1>1, <1>2 DEF InsertPlain, Adds

(* addNodeAndUpdateLinks takes the header for the levels above curlevel.     *)
LEMMA AddNodeLinks ==
    ASSUME TypeOK, NEW s, Shape(s), NEW op, NEW n \in Nodes, NEW k \in Keys, NEW v \in Items,
           AddNode(op, n, k, v)
    PROVE  Adds(s, op, n, k, v)
<1>1. CASE Exhausted(op, k)
  BY <1>1 DEF Adds
<1> DEFINE update(lev) == [i \in 0 .. lev - 1 |-> IF i < curlevel THEN Path(curlevel, k)[i] ELSE NIL]
<1>2. ASSUME NEW lev \in GenLevel, Link(n, k, v, lev, update(lev))
      PROVE  PathTo(s, k, lev, update(lev)) /\ lev \in 1 .. MaxLevel
  <2>1. lev \in 1 .. MaxLevel /\ curlevel \in 1 .. MaxLevel
    BY GenLevelIs DEF TypeOK
  <2>2. ASSUME NEW i \in 0 .. lev - 1
        PROVE  update(lev)[i] = Cell(s, Below(s, i, k))
    <3>1. i \in Levels
      BY <2>1 DEF Levels
    <3>2. CASE i < curlevel
      <4>1. i \in 0 .. curlevel - 1
        BY <2>1, <3>2
      <4>2. Path(curlevel, k)[i] = Cell(s, Below(s, i, k))
        BY <2>1, <4>1, PathIs
      <4> QED BY <3>2, <4>2
    <3>3. CASE ~(i < curlevel)
      <4>1. i >= curlevel
        BY <2>1, <3>3
      <4>2. Cell(s, Below(s, i, k)) = NIL
        BY <3>1, <4>1, AboveCurLevel
      <4> QED BY <3>3, <4>2
    <3> QED BY <3>2, <3>3
  <2> HIDE DEF update
  <2> QED BY <2>1, <2>2 DEF PathTo
<1>3. \/ Exhausted(op, k)
      \/ /\ \E lev \in GenLevel : Link(n, k, v, lev, update(lev))
         /\ Answer(op, k, "STATUS_OK")
  BY DEF AddNode
<1> HIDE DEF update
<1> QED BY <1>1, <1>2, <1>3 DEF Adds

(* What a call leaves of the list s.                                         *)
Remains(s) == TypeOK' /\ Shape(s)'

(* A call that reads leaves the list as it is.                               *)
LEMMA UnmovedRemains ==
    ASSUME TypeOK, NEW s, Shape(s), UNCHANGED list
    PROVE  Remains(s)
BY DEF list, TypeOK, Shape, Sorted, Linking, Counted, Adjacent, Tall, Remains

(* An update leaves the links as they are.                                   *)
LEMMA OverwriteRemains ==
    ASSUME TypeOK, NEW s, Shape(s), NEW op, NEW k, NEW v \in Items, NEW S, Overwrite(op, k, v, S)
    PROVE  Remains(s)
<1>1. item' \in [Nodes -> Items \cup {NULL}]
  <2>1. \A n \in Nodes : (IF n \in S THEN v ELSE item[n]) \in Items \cup {NULL}
    BY DEF TypeOK
  <2> QED BY <2>1 DEF Overwrite
<1>2. UNCHANGED <<next, prev, sz, key, curlevel, nodenum, tail>>
  BY DEF Overwrite
<1> QED BY <1>1, <1>2 DEF TypeOK, Shape, Sorted, Linking, Counted, Adjacent, Tall, Remains

(* An insertion leaves the list with one node more.                          *)
LEMMA InsertedRemains ==
    ASSUME TypeOK, NEW s, Shape(s), NEW n \in Nodes, sz[n] = 0, NEW k \in Keys, NEW v \in Items,
           NEW lev \in 1 .. MaxLevel, NEW update, PathTo(s, k, lev, update),
           Link(n, k, v, lev, update), NEW m, m = Below(s, 0, k)
    PROVE  Remains(Grow(s, m, n))
BY LinkKeeps DEF Remains

(* A call leaves the list as it is, or with one node more, or with one less. *)
InsertStep(s, n, k) == \E m : m = Below(s, 0, k) /\ Remains(Grow(s, m, n))
DeleteStep(s, k) == \E m : m = Below(s, 0, k) /\ m # Len(s) /\ key[s[m + 1]] = k /\ Remains(Shrink(s, m))

(* An insertion, or the one that finds no memory.                            *)
LEMMA LinksRemain ==
    ASSUME TypeOK, NEW s, Shape(s), NEW op, NEW n \in Nodes, sz[n] = 0, NEW k \in Keys, NEW v \in Items,
           Adds(s, op, n, k, v)
    PROVE  Remains(s) \/ InsertStep(s, n, k)
<1>1. CASE Exhausted(op, k)
  BY <1>1, UnmovedRemains DEF Exhausted
<1>2. ASSUME NEW lev \in 1 .. MaxLevel, NEW update, PathTo(s, k, lev, update), Link(n, k, v, lev, update)
      PROVE  InsertStep(s, n, k)
  <2>1. PICK m : m = Below(s, 0, k)
    OBVIOUS
  <2>2. Remains(Grow(s, m, n))
    BY <1>2, <2>1, InsertedRemains
  <2> QED BY <2>1, <2>2 DEF InsertStep
<1> QED BY <1>1, <1>2 DEF Adds

(* Each of the four insertions.                                              *)
LEMMA InsertRemains ==
    ASSUME TypeOK, NEW s, Shape(s), NEW n \in Nodes, NEW k \in Keys, NEW v \in Items,
           InsertAD(n, k, v) \/ InsertND(n, k, v) \/ InsertUPD(n, k, v) \/ InsertUPD_ALL(n, k, v)
    PROVE  Remains(s) \/ (sz[n] = 0 /\ InsertStep(s, n, k))
<1>1. sz[n] = 0
  BY DEF InsertAD, InsertND, InsertUPD, InsertUPD_ALL
<1>2. CASE InsertAD(n, k, v)
  <2>1. InsertPlain("insertAD", n, k, v)
    BY <1>2 DEF InsertAD
  <2> QED BY <1>1, <2>1, InsertPlainLinks, LinksRemain
<1>3. ASSUME NEW op, AddNode(op, n, k, v)
      PROVE  Remains(s) \/ InsertStep(s, n, k)
  BY <1>1, <1>3, AddNodeLinks, LinksRemain
<1>4. CASE InsertND(n, k, v)
  BY <1>1, <1>3, <1>4, UnmovedRemains DEF InsertND
<1>5. CASE InsertUPD(n, k, v)
  BY <1>1, <1>3, <1>5, OverwriteRemains DEF InsertUPD
<1>6. CASE InsertUPD_ALL(n, k, v)
  BY <1>1, <1>3, <1>6, OverwriteRemains DEF InsertUPD_ALL
<1> QED BY <1>2, <1>4, <1>5, <1>6

(* Each of the two deletions.                                                *)
LEMMA DeleteRemains ==
    ASSUME TypeOK, NEW s, Shape(s), NEW k \in Keys, DeleteAF(k) \/ DeleteNF(k)
    PROVE  Remains(s) \/ DeleteStep(s, k)
<1>1. \/ UNCHANGED list
      \/ Equal(Stop(k), k) /\ Unlink(Stop(k), Path(curlevel, k))
  BY DEF DeleteAF, DeleteNF, DeleteI
<1>2. CASE UNCHANGED list
  BY <1>2, UnmovedRemains
<1>3. CASE Equal(Stop(k), k) /\ Unlink(Stop(k), Path(curlevel, k))
  <2>1. PICK m : m = Below(s, 0, k)
    OBVIOUS
  <2>2. m # Len(s) /\ key[s[m + 1]] = k /\ TypeOK' /\ Shape(Shrink(s, m))'
    BY <1>3, <2>1, UnlinkKeeps
  <2> QED BY <2>1, <2>2 DEF DeleteStep, Remains
<1> QED BY <1>1, <1>2, <1>3

(* The list that MySKLinit makes is empty, and right.                        *)
LEMMA InitKeeps == Init => TypeOK /\ Shape(<<>>)
<1> SUFFICES ASSUME Init PROVE TypeOK /\ Shape(<<>>)
  OBVIOUS
<1>1. NIL \in Cells /\ 1 \in 1 .. MaxLevel /\ \A n \in Nodes : n \in Cells /\ n # NIL
  BY DEF Cells
<1>2. /\ \A c \in Cells, i \in Levels : next[c][i] = NIL /\ prev[c][i] = NIL
      /\ \A n \in Nodes : sz[n] = 0
      /\ curlevel = 1 /\ nodenum = 0 /\ tail = NIL
  BY <1>1 DEF Init
<1>3. TypeOK
  BY <1>1 DEF Init, TypeOK
<1>4. Len(<<>>) = 0 /\ 1 .. 0 = {} /\ <<>> \in Seq(Nodes) /\ \A p : Cell(<<>>, p) = NIL
  BY DEF Cell
<1>5. Sorted(<<>>)
  BY <1>2, <1>4 DEF Sorted
<1>6. Linking(<<>>)
  BY <1>1, <1>2, <1>4 DEF Linking
<1>7. Counted(<<>>)
  BY <1>2, <1>4 DEF Counted
<1> QED BY <1>3, <1>5, <1>6, <1>7 DEF Shape

(* Each of the calls.                                                        *)
LEMMA StepRemains ==
    ASSUME TypeOK, NEW s, Shape(s), [Next]_vars
    PROVE  \/ Remains(s)
           \/ \E n \in Nodes, k \in Keys : sz[n] = 0 /\ InsertStep(s, n, k)
           \/ \E k \in Keys : DeleteStep(s, k)
<1>1. CASE UNCHANGED list
  BY <1>1, UnmovedRemains
<1>2. ASSUME NEW n \in Nodes, NEW k \in Keys, NEW v \in Items,
             InsertAD(n, k, v) \/ InsertND(n, k, v) \/ InsertUPD(n, k, v) \/ InsertUPD_ALL(n, k, v)
      PROVE  Remains(s) \/ (sz[n] = 0 /\ InsertStep(s, n, k))
  BY <1>2, InsertRemains
<1>3. ASSUME NEW k \in Keys, DeleteAF(k) \/ DeleteNF(k)
      PROVE  Remains(s) \/ DeleteStep(s, k)
  BY <1>3, DeleteRemains
<1>4. ASSUME NEW k \in Keys, Search(k) \/ SearchALL(k)
      PROVE  UNCHANGED list
  BY <1>4, Zenon DEF Search, SearchALL
<1>5. Observe => UNCHANGED list
  BY DEF Observe
<1>6. UNCHANGED vars => UNCHANGED list
  BY DEF vars, list
<1> QED BY <1>1, <1>2, <1>3, <1>4, <1>5, <1>6 DEF Next

(* IInv holds in the first state and is kept by every call.                  *)
THEOREM Invariance == Spec => []IInv
<1>1. Init => IInv
  BY InitKeeps DEF IInv
<1>2. IInv /\ [Next]_vars => IInv'
  <2> SUFFICES ASSUME IInv, [Next]_vars PROVE IInv'
    OBVIOUS
  <2>1. PICK s : TypeOK /\ Shape(s)
    BY DEF IInv
  <2>2. \E t : Remains(t)
    BY <2>1, StepRemains DEF InsertStep, DeleteStep
  <2>3. PICK t : Remains(t)
    BY <2>2
  <2>4. TypeOK' /\ Shape(t)'
    BY <2>3 DEF Remains
  <2> QED BY <2>4 DEF IInv
<1> QED BY <1>1, <1>2, PTL DEF Spec

(* The links, counters and data have their types in every state.             *)
THEOREM Typing == Spec => []TypeOK
<1>1. IInv => TypeOK
  BY DEF IInv
<1> QED BY <1>1, Invariance, PTL

-----------------------------------------------------------------------------
(* The chain of level 0                                                     *)

(* All the nodes are on level 0, one after the other.                        *)
LEMMA LevelZero ==
    ASSUME TypeOK, NEW s, Shape(s)
    PROVE  /\ \A p \in 0 .. Len(s) : /\ next[Cell(s, p)][0] = Cell(s, p + 1)
                                     /\ prev[Cell(s, p + 1)][0] = Cell(s, p)
           /\ \A c \in Cells : \/ \E p \in 0 .. Len(s) : c = Cell(s, p)
                               \/ sz[c] = 0 /\ next[c][0] = NIL
<1>1. /\ Sorted(s) /\ Len(s) \in Nat /\ 0 \in Levels
      /\ \A p \in 1 .. Len(s) : sz[s[p]] \in 1 .. MaxLevel
  BY SortedIs DEF Shape, Levels
<1>2. ASSUME NEW p \in 0 .. Len(s)
      PROVE  next[Cell(s, p)][0] = Cell(s, p + 1) /\ prev[Cell(s, p + 1)][0] = Cell(s, p)
  <2>1. Adjacent(s, 0, p, p + 1)
    BY <1>1 DEF Adjacent, Tall
  <2> QED BY <1>1, <2>1, LinksAre
<1>3. ASSUME NEW c \in Cells, \A p \in 0 .. Len(s) : c # Cell(s, p)
      PROVE  sz[c] = 0 /\ next[c][0] = NIL
  <2>1. c # NIL /\ \A p \in 1 .. Len(s) : c # s[p]
    BY <1>1, <1>3, CellIs
  <2>2. c \in Nodes /\ sz[c] = 0
    BY <2>1 DEF Shape, Sorted, Cells
  <2> QED BY <1>1, <2>2 DEF Shape, Linking
<1> QED BY <1>2, <1>3

(* A function on the cells, given by their places.                           *)
Placed(f, s, V, W) ==
    /\ f = [c \in Cells |-> f[c]]
    /\ \A p \in 0 .. Len(s) : f[Cell(s, p)] = V[p]
    /\ \A c \in Cells : (\A p \in 0 .. Len(s) : c # Cell(s, p)) => f[c] = W[c]

(* There is one for any values at the places and elsewhere.                  *)
LEMMA ByPlace ==
    ASSUME TypeOK, NEW s, Sorted(s), NEW V, NEW W
    PROVE  \E f : Placed(f, s, V, W)
<1> DEFINE At(c, p) == p \in 0 .. Len(s) /\ c = Cell(s, p)
           f == [c \in Cells |-> IF \E p : At(c, p) THEN V[CHOOSE p : At(c, p)] ELSE W[c]]
<1>1. /\ \A p : Cell(s, p) \in Cells
      /\ \A p, q \in 0 .. Len(s) : Cell(s, p) = Cell(s, q) => p = q
  BY CellIs
<1>2. ASSUME NEW p \in 0 .. Len(s)
      PROVE  f[Cell(s, p)] = V[p]
  <2>1. At(Cell(s, p), p)
    OBVIOUS
  <2>2. At(Cell(s, p), CHOOSE q : At(Cell(s, p), q))
    <3> HIDE DEF At
    <3> QED BY <2>1, Zenon
  <2>3. (CHOOSE q : At(Cell(s, p), q)) = p
    BY <1>1, <2>2
  <2> HIDE DEF At
  <2> QED BY <1>1, <2>1, <2>3, Zenon
<1>3. ASSUME NEW c \in Cells, \A p \in 0 .. Len(s) : c # Cell(s, p)
      PROVE  f[c] = W[c]
  BY <1>3
<1>4. f = [c \in Cells |-> f[c]]
  OBVIOUS
<1> HIDE DEF f
<1>5. Placed(f, s, V, W)
  BY <1>2, <1>3, <1>4 DEF Placed
<1> QED BY <1>5

(* What is behind place p.                                                   *)
Behind(s, p) == [j \in 1 .. Len(s) - p |-> s[p + j]]

(* It is a node and what is behind that node.                                *)
LEMMA BehindIs ==
    ASSUME NEW s \in Seq(Nodes), NEW p \in 0 .. Len(s)
    PROVE  /\ Behind(s, 0) = s /\ Behind(s, Len(s)) = <<>>
           /\ p < Len(s) => Behind(s, p) = <<s[p + 1]>> \o Behind(s, p + 1)
<1>1. Len(s) \in Nat /\ s \in [1 .. Len(s) -> Nodes]
  OBVIOUS
<1>2. Behind(s, 0) = s
  BY <1>1 DEF Behind
<1>3. Behind(s, Len(s)) = <<>>
  BY <1>1 DEF Behind
<1>4. ASSUME p < Len(s)
      PROVE  Behind(s, p) = <<s[p + 1]>> \o Behind(s, p + 1)
  <2> DEFINE one == <<s[p + 1]>>
             rest == Behind(s, p + 1)
             whole == Behind(s, p)
  <2>1. /\ one \in Seq(Nodes) /\ Len(one) = 1 /\ one[1] = s[p + 1]
    BY <1>1, <1>4
  <2>2. /\ rest \in [1 .. Len(s) - (p + 1) -> Nodes] /\ Len(s) - (p + 1) \in Nat
        /\ \A j \in 1 .. Len(s) - (p + 1) : rest[j] = s[(p + 1) + j]
    BY <1>1, <1>4 DEF Behind
  <2>3. /\ whole \in [1 .. Len(s) - p -> Nodes] /\ Len(s) - p \in Nat
        /\ \A j \in 1 .. Len(s) - p : whole[j] = s[p + j]
    BY <1>1, <1>4 DEF Behind
  <2> HIDE DEF one, rest, whole
  <2>4. rest \in Seq(Nodes) /\ Len(rest) = Len(s) - (p + 1)
    <3> DEFINE l == Len(s) - (p + 1)
    <3>1. l \in Nat /\ rest \in [1 .. l -> Nodes]
      BY <2>2
    <3> HIDE DEF l
    <3>2. rest \in Seq(Nodes) /\ Len(rest) = l
      BY <3>1
    <3> QED BY <3>2 DEF l
  <2>5. whole \in Seq(Nodes) /\ Len(whole) = Len(s) - p
    <3> DEFINE l == Len(s) - p
    <3>1. l \in Nat /\ whole \in [1 .. l -> Nodes]
      BY <2>3
    <3> HIDE DEF l
    <3>2. whole \in Seq(Nodes) /\ Len(whole) = l
      BY <3>1
    <3> QED BY <3>2 DEF l
  <2>6. /\ one \o rest \in Seq(Nodes) /\ Len(one \o rest) = Len(one) + Len(rest)
        /\ \A j \in 1 .. Len(one) + Len(rest) :
              (one \o rest)[j] = IF j <= Len(one) THEN one[j] ELSE rest[j - Len(one)]
    BY <2>1, <2>4, ConcatProperties, Zenon
  <2> DEFINE joined == one \o rest
  <2>7. /\ joined \in Seq(Nodes) /\ Len(joined) = 1 + Len(rest)
        /\ \A j \in 1 .. 1 + Len(rest) : joined[j] = IF j <= 1 THEN one[j] ELSE rest[j - 1]
    BY <2>1, <2>6
  <2> HIDE DEF joined
  <2>8. Len(joined) = Len(whole)
    BY <1>1, <2>4, <2>5, <2>7
  <2>9. ASSUME NEW j \in 1 .. Len(whole)
        PROVE  joined[j] = whole[j]
    <3>1. CASE j = 1
      BY <1>1, <1>4, <2>1, <2>3, <2>4, <2>5, <2>7, <2>9, <3>1
    <3>2. CASE j # 1
      <4>1. j - 1 \in 1 .. Len(s) - (p + 1) /\ (p + 1) + (j - 1) = p + j
            /\ j \in 1 .. 1 + Len(rest) /\ ~(j <= 1) /\ j \in 1 .. Len(s) - p
        BY <1>1, <1>4, <2>4, <2>5, <3>2
      <4>2. joined[j] = rest[j - 1] /\ rest[j - 1] = s[(p + 1) + (j - 1)] /\ whole[j] = s[p + j]
        BY <2>2, <2>3, <2>7, <4>1
      <4> QED BY <4>1, <4>2
    <3> QED BY <3>1, <3>2
  <2>10. joined = whole
    BY <2>5, <2>7, <2>8, <2>9
  <2> QED BY <2>10 DEF joined, one, rest, whole
<1> QED BY <1>2, <1>3, <1>4

(* The function by which Chain walks.                                        *)
Chains(f, i) ==
    f = [c \in Cells |-> IF next[c][i] = NIL THEN <<>> ELSE <<next[c][i]>> \o f[next[c][i]]]

(* Chain is a function of that kind, when there is one.                      *)
LEMMA ChainIsSome ==
    ASSUME NEW i, \E f : Chains(f, i)
    PROVE  \E f : Chains(f, i) /\ Chain(i) = f[NIL]
BY Zenon DEF Chains, Chain

(* There is one: what is behind the place of a cell.                         *)
LEMMA ChainsExist ==
    ASSUME TypeOK, NEW s, Shape(s)
    PROVE  \E f : Chains(f, 0)
<1>1. /\ Sorted(s) /\ Len(s) \in Nat /\ s \in Seq(Nodes) /\ 0 \in Levels
  BY SortedIs DEF Shape, Sorted, Levels
<1> DEFINE V == [p \in 0 .. Len(s) |-> Behind(s, p)]
           W == [c \in Cells |-> <<>>]
<1>2. PICK f : Placed(f, s, V, W)
  BY <1>1, ByPlace
<1>3. /\ f = [c \in Cells |-> f[c]]
      /\ \A p \in 0 .. Len(s) : f[Cell(s, p)] = Behind(s, p)
      /\ \A c \in Cells : (\A p \in 0 .. Len(s) : c # Cell(s, p)) => f[c] = <<>>
  <2>1. Placed(f, s, V, W) => /\ f = [c \in Cells |-> f[c]]
                              /\ \A p \in 0 .. Len(s) : f[Cell(s, p)] = V[p]
                              /\ \A c \in Cells : (\A p \in 0 .. Len(s) : c # Cell(s, p)) => f[c] = W[c]
    BY Zenon DEF Placed
  <2> QED BY <1>2, <2>1
<1>4. ASSUME NEW c \in Cells
      PROVE  f[c] = IF next[c][0] = NIL THEN <<>> ELSE <<next[c][0]>> \o f[next[c][0]]
  <2>1. CASE \E p \in 0 .. Len(s) : c = Cell(s, p)
    <3>1. PICK p \in 0 .. Len(s) : c = Cell(s, p)
      BY <2>1
    <3>2. f[c] = Behind(s, p) /\ next[c][0] = Cell(s, p + 1)
      BY <1>3, <3>1, LevelZero
    <3>3. CASE p = Len(s)
      BY <1>1, <3>2, <3>3, CellIs, BehindIs
    <3>4. CASE p # Len(s)
      <4>1. p + 1 \in 1 .. Len(s) /\ p + 1 \in 0 .. Len(s) /\ p < Len(s)
        BY <1>1, <3>4
      <4>2. Cell(s, p + 1) = s[p + 1] /\ Cell(s, p + 1) # NIL
        BY <1>1, <4>1, CellIs
      <4>3. f[next[c][0]] = Behind(s, p + 1)
        BY <1>3, <3>2, <4>1
      <4>4. Behind(s, p) = <<s[p + 1]>> \o Behind(s, p + 1)
        BY <1>1, <4>1, BehindIs
      <4> QED BY <3>2, <4>2, <4>3, <4>4
    <3> QED BY <3>3, <3>4
  <2>2. CASE \A p \in 0 .. Len(s) : c # Cell(s, p)
    BY <1>3, <2>2, LevelZero
  <2> QED BY <2>1, <2>2
<1>5. Chains(f, 0)
  BY <1>3, <1>4, Zenon DEF Chains
<1> QED BY <1>5

(* Level 0 is the list.                                                      *)
LEMMA ChainIs ==
    ASSUME TypeOK, NEW s, Shape(s)
    PROVE  Chain(0) = s
<1>1. /\ Sorted(s) /\ Len(s) \in Nat /\ s \in Seq(Nodes) /\ \A p : Cell(s, p) \in Cells
  BY SortedIs, CellIs DEF Shape, Sorted
<1>2. PICK f : Chains(f, 0) /\ Chain(0) = f[NIL]
  BY ChainsExist, ChainIsSome
<1>3. \A c \in Cells : f[c] = IF next[c][0] = NIL THEN <<>> ELSE <<next[c][0]>> \o f[next[c][0]]
  BY <1>2 DEF Chains
<1> DEFINE fails == {p \in 0 .. Len(s) : f[Cell(s, p)] # Behind(s, p)}
<1>4. ASSUME fails # {}
      PROVE  FALSE
  <2>1. PICK p \in fails : \A q \in fails : q <= p
    <3>1. fails \in SUBSET (0 .. Len(s))
      OBVIOUS
    <3> HIDE DEF fails
    <3> QED BY <1>1, <1>4, <3>1, GreatestNumber
  <2>2. f[Cell(s, p)] = IF Cell(s, p + 1) = NIL THEN <<>> ELSE <<Cell(s, p + 1)>> \o f[Cell(s, p + 1)]
    <3>1. p \in 0 .. Len(s) /\ next[Cell(s, p)][0] = Cell(s, p + 1)
      BY <2>1, LevelZero
    <3>2. Cell(s, p) \in Cells
      BY <1>1
    <3> HIDE DEF fails
    <3> QED BY <1>3, <3>1, <3>2
  <2>3. CASE p = Len(s)
    BY <1>1, <2>1, <2>2, <2>3, CellIs, BehindIs
  <2>4. CASE p # Len(s)
    <3>1. p + 1 \in 1 .. Len(s) /\ p + 1 \in 0 .. Len(s) /\ p < Len(s) /\ p + 1 \notin fails
      BY <1>1, <2>1, <2>4
    <3>2. Cell(s, p + 1) = s[p + 1] /\ Cell(s, p + 1) # NIL
      BY <1>1, <3>1, CellIs
    <3>3. f[Cell(s, p + 1)] = Behind(s, p + 1)
      BY <3>1
    <3>4. Behind(s, p) = <<s[p + 1]>> \o Behind(s, p + 1)
      BY <1>1, <3>1, BehindIs
    <3> QED BY <2>1, <2>2, <3>2, <3>3, <3>4
  <2> QED BY <2>3, <2>4
<1>5. 0 \in 0 .. Len(s) /\ Cell(s, 0) = NIL
  BY <1>1, CellIs
<1>6. f[NIL] = Behind(s, 0)
  BY <1>4, <1>5
<1> QED BY <1>1, <1>2, <1>5, <1>6, BehindIs

-----------------------------------------------------------------------------
(* The links and the counters                                               *)

(* Every level is the list less the nodes that are not on it: a cell leads,  *)
(* on each of its levels, to the next node of the list on that level.        *)
THEOREM Sublists == Spec => []LevelsAreSublists
<1>1. IInv => LevelsAreSublists
  <2> SUFFICES ASSUME IInv PROVE LevelsAreSublists
    OBVIOUS
  <2>1. PICK s : TypeOK /\ Shape(s)
    BY DEF IInv
  <2>2. /\ Chain(0) = s /\ Len(s) \in Nat /\ DOMAIN s = 1 .. Len(s)
        /\ \A p \in 1 .. Len(s) : sz[s[p]] \in Nat
    BY <2>1, SortedIs, ChainIs DEF Shape
  <2> DEFINE at(p)    == IF p \in 1 .. Len(s) THEN s[p] ELSE NIL
             on(p, i) == p \in 1 .. Len(s) => sz[s[p]] > i
  <2>3. ASSUME NEW i \in Levels, NEW p \in 0 .. Len(s), NEW q \in 1 .. Len(s) + 1,
               p < q, on(p, i), on(q, i), \A r \in p + 1 .. q - 1 : ~on(r, i)
        PROVE  next[at(p)][i] = at(q)
    <3>1. Adjacent(s, i, p, q)
      BY <2>2, <2>3 DEF Adjacent, Tall
    <3>2. next[Cell(s, p)][i] = Cell(s, q)
      BY <2>1, <3>1, LinksAre
    <3> QED BY <3>2 DEF Cell
  <2> QED BY <2>2, <2>3 DEF LevelsAreSublists
<1> QED BY <1>1, Invariance, PTL

(* Every backward link undoes a forward link, on every level.                *)
THEOREM BackAndForth == Spec => []PrevUndoesNext
<1>1. IInv => PrevUndoesNext
  <2> SUFFICES ASSUME IInv, NEW i \in Levels, NEW c \in {NIL} \cup {n \in Nodes : sz[n] > i}
               PROVE  prev[next[c][i]][i] = c
    BY DEF PrevUndoesNext
  <2>1. PICK s : TypeOK /\ Shape(s)
    BY DEF IInv
  <2>2. Sorted(s) /\ Len(s) \in Nat /\ i \in Nat
    BY <2>1, SortedIs DEF Shape, Levels
  <2>3. PICK p \in 0 .. Len(s) : c = Cell(s, p) /\ Tall(s, i, p)
    <3>1. CASE c = NIL
      BY <2>1, <2>2, <3>1, CellIs DEF Tall
    <3>2. CASE c # NIL
      <4>1. c \in Nodes /\ sz[c] \in Nat /\ sz[c] > i /\ sz[c] # 0
        BY <2>1, <2>2, <3>2 DEF Cells, TypeOK
      <4>2. PICK p \in 1 .. Len(s) : s[p] = c
        BY <2>2, <4>1 DEF Sorted
      <4> QED BY <2>2, <4>1, <4>2 DEF Tall, Cell
    <3> QED BY <3>1, <3>2
  <2>4. PICK q : Adjacent(s, i, p, q)
    BY <2>1, <2>2, <2>3, NeighbourAhead
  <2> QED BY <2>1, <2>3, <2>4, LinksAre
<1> QED BY <1>1, Invariance, PTL

(* The number of nodes, the tail and the highest level in use are what the   *)
(* links say.                                                                *)
THEOREM Counts == Spec => []Bookkeeping
<1>1. IInv => Bookkeeping
  <2> SUFFICES ASSUME IInv PROVE Bookkeeping
    OBVIOUS
  <2>1. PICK s : TypeOK /\ Shape(s)
    BY DEF IInv
  <2>2. /\ Sorted(s) /\ Len(s) \in Nat /\ Chain(0) = s /\ curlevel \in 1 .. MaxLevel
        /\ \A p \in 1 .. Len(s) : sz[s[p]] \in 1 .. MaxLevel
    BY <2>1, SortedIs, ChainIs DEF Shape, TypeOK
  <2>3. /\ nodenum = Len(s) /\ tail = Cell(s, Len(s))
        /\ \A p \in 1 .. Len(s) : sz[s[p]] <= curlevel
        /\ curlevel > 1 => \E p \in 1 .. Len(s) : sz[s[p]] = curlevel
    BY <2>1 DEF Shape, Counted
  <2>4. tail = prev[NIL][0]
    <3>1. Len(s) \in 0 .. Len(s) /\ Cell(s, Len(s) + 1) = NIL
      BY <2>1, <2>2, CellIs
    <3> QED BY <2>1, <2>3, <3>1, LevelZero
  <2>5. ASSUME NEW i \in 1 .. MaxLevel - 1
        PROVE  IsEmpty(i + 1) <=> i >= curlevel
    <3>1. i \in Levels /\ i \in Nat /\ i + 1 > 0 /\ (i + 1) - 1 = i /\ Tall(s, i, 0)
      BY <2>2 DEF Levels, Tall
    <3>2. IsEmpty(i + 1) <=> next[NIL][i] = NIL
      BY <3>1 DEF IsEmpty
    <3>3. 0 \in 0 .. Len(s) /\ Cell(s, 0) = NIL
      BY <2>1, <2>2, CellIs
    <3>4. PICK q : Adjacent(s, i, 0, q)
      BY <2>1, <2>2, <3>1, <3>3, NeighbourAhead
    <3>5. next[NIL][i] = Cell(s, q)
      BY <2>1, <3>1, <3>3, <3>4, LinksAre
    <3>6. CASE q = Len(s) + 1
      <4>1. \A p \in 1 .. Len(s) : ~(sz[s[p]] > i)
        BY <2>2, <3>4, <3>6 DEF Adjacent, Tall
      <4>2. i >= curlevel
        BY <2>2, <2>3, <3>1, <4>1
      <4> QED BY <2>1, <2>2, <3>2, <3>5, <3>6, <4>2, CellIs
    <3>7. CASE q # Len(s) + 1
      <4>1. q \in 1 .. Len(s) /\ sz[s[q]] > i
        BY <2>2, <3>4, <3>7 DEF Adjacent, Tall
      <4>2. ~(i >= curlevel)
        BY <2>2, <2>3, <3>1, <4>1
      <4> QED BY <2>1, <2>2, <3>2, <3>5, <4>1, <4>2, CellIs
    <3> QED BY <3>6, <3>7
  <2> QED BY <2>2, <2>3, <2>4, <2>5 DEF Bookkeeping
<1> QED BY <1>1, Invariance, PTL

-----------------------------------------------------------------------------
(* The drawing                                                              *)

(* The column in which the data of the node at place p end.                  *)
EndColumns(s, E) ==
    /\ E \in [0 .. Len(s) -> Nat] /\ E[0] = 0
    /\ \A p \in 1 .. Len(s) : E[p] = E[p - 1] + 5 + key[s[p]]

LEMMA EndColumnsExist ==
    ASSUME TypeOK, NEW s, Sorted(s)
    PROVE  \E E : EndColumns(s, E)
<1>1. Len(s) \in Nat /\ \A p \in 1 .. Len(s) : key[s[p]] \in Nat
  BY SortedIs
<1> DEFINE step == [p \in 1 .. Len(s) |-> [e \in Nat |-> e + 5 + key[s[p]]]]
<1>2. ASSUME NEW p \in 1 .. Len(s), NEW e \in Nat
      PROVE  e + 5 + key[s[p]] \in Nat /\ step[p][e] = e + 5 + key[s[p]]
  BY <1>1
<1>3. step \in [1 .. Len(s) -> [Nat -> Nat]] /\ DOMAIN step = 1 .. Len(s)
  BY <1>2
<1> HIDE DEF step
<1>4. PICK E \in [0 .. Len(s) -> Nat] : Iterates(E, 0, step)
  BY <1>1, <1>3, Iterate
<1>5. ASSUME NEW p \in 1 .. Len(s)
      PROVE  E[p] = E[p - 1] + 5 + key[s[p]]
  <2>1. E[p] = step[p][E[p - 1]]
    BY <1>3, <1>4 DEF Iterates
  <2>2. E[p - 1] \in Nat
    BY <1>1, <1>4
  <2> QED BY <1>2, <2>1, <2>2
<1>6. EndColumns(s, E)
  BY <1>4, <1>5 DEF EndColumns, Iterates
<1> QED BY <1>6

(* One turn of adjustLink, on the way to node r.                             *)
CatchUp(f, r, c) ==
    IF GetNextNoMutex(c, 0) \in {r, NULL} THEN [at |-> GetNextNoMutex(c, 0), cols |-> 0]
    ELSE [f[GetNextNoMutex(c, 0)] EXCEPT !.cols = @ + Passed(GetNextNoMutex(c, 0))]

(* The function by which adjustLink walks.                                   *)
Catches(f, r) == f = [c \in Cells |-> CatchUp(f, r, c)]

LEMMA AdjustLinkIsSome ==
    ASSUME NEW c, NEW d, NEW i, NEW r, r = GetNextNoMutex(c, i), \E f : Catches(f, r)
    PROVE  \E f : Catches(f, r) /\ AdjustLink(c, d, i) = f[d]
BY Zenon DEF Catches, CatchUp, AdjustLink

(* A turn at a place of the list, and elsewhere.                             *)
Turns(f, s, b) ==
    /\ CatchUp(f, s[b], Cell(s, b - 1)) = [at |-> s[b], cols |-> 0]
    /\ CatchUp(f, s[b], Cell(s, Len(s))) = [at |-> NULL, cols |-> 0]
    /\ \A p \in 0 .. Len(s) - 1 : p # b - 1 =>
          CatchUp(f, s[b], Cell(s, p)) = [f[s[p + 1]] EXCEPT !.cols = @ + Passed(s[p + 1])]
    /\ \A c \in Cells : (\A p \in 0 .. Len(s) : c # Cell(s, p)) =>
          CatchUp(f, s[b], c) = [at |-> NULL, cols |-> 0]

LEMMA CatchTurn ==
    ASSUME TypeOK, NEW s, Shape(s), NEW b \in 1 .. Len(s), NEW f
    PROVE  Turns(f, s, b)
<1>1. /\ Sorted(s) /\ Len(s) \in Nat /\ \A p \in 1 .. Len(s) : s[p] \in Nodes /\ s[p] # NIL
      /\ \A p, q \in 1 .. Len(s) : s[p] = s[q] => p = q
  BY SortedIs DEF Shape, Sorted
<1>2. \A p \in 0 .. Len(s) : next[Cell(s, p)][0] = Cell(s, p + 1)
  BY LevelZero
<1>3. ASSUME NEW p \in 0 .. Len(s) - 1
      PROVE  GetNextNoMutex(Cell(s, p), 0) = s[p + 1]
  <2>1. p \in 0 .. Len(s) /\ p + 1 \in 1 .. Len(s)
    BY <1>1
  <2>2. Cell(s, p + 1) = s[p + 1]
    BY <2>1 DEF Cell
  <2> QED BY <1>1, <1>2, <2>1, <2>2 DEF GetNextNoMutex
<1>4. GetNextNoMutex(Cell(s, Len(s)), 0) = NULL
  <2>1. Cell(s, Len(s) + 1) = NIL /\ Len(s) \in 0 .. Len(s)
    BY <1>1, CellIs
  <2> QED BY <1>2, <2>1 DEF GetNextNoMutex
<1>5. ASSUME NEW c \in Cells, \A p \in 0 .. Len(s) : c # Cell(s, p)
      PROVE  GetNextNoMutex(c, 0) = NULL
  BY <1>5, LevelZero DEF GetNextNoMutex
<1>6. b - 1 \in 0 .. Len(s) - 1 /\ (b - 1) + 1 = b
  BY <1>1
<1>7. GetNextNoMutex(Cell(s, b - 1), 0) = s[b]
  BY <1>3, <1>6
<1>8. ASSUME NEW p \in 0 .. Len(s) - 1, p # b - 1
      PROVE  CatchUp(f, s[b], Cell(s, p)) = [f[s[p + 1]] EXCEPT !.cols = @ + Passed(s[p + 1])]
  <2>1. p + 1 \in 1 .. Len(s) /\ p + 1 # b
    BY <1>1, <1>8
  <2>2. s[p + 1] \notin {s[b], NULL}
    BY <1>1, <2>1
  <2>3. GetNextNoMutex(Cell(s, p), 0) = s[p + 1]
    BY <1>3
  <2> QED BY <2>2, <2>3, Zenon DEF CatchUp
<1>9. CatchUp(f, s[b], Cell(s, b - 1)) = [at |-> s[b], cols |-> 0]
  BY <1>7, Zenon DEF CatchUp
<1>10. CatchUp(f, s[b], Cell(s, Len(s))) = [at |-> NULL, cols |-> 0]
  BY <1>4, Zenon DEF CatchUp
<1>11. ASSUME NEW c \in Cells, \A p \in 0 .. Len(s) : c # Cell(s, p)
       PROVE  CatchUp(f, s[b], c) = [at |-> NULL, cols |-> 0]
  <2>1. GetNextNoMutex(c, 0) = NULL
    BY <1>5, <1>11
  <2> QED BY <2>1, Zenon DEF CatchUp
<1> QED BY <1>8, <1>9, <1>10, <1>11, Zenon DEF Turns

(* Where the walk to node s[b] ends from place p on, and before which place. *)
Met(s, b, p) == IF p < b THEN s[b] ELSE NULL

Last(s, b, p) == IF p < b THEN b - 1 ELSE Len(s)

Walked(s, E, b, p) == [at |-> Met(s, b, p), cols |-> E[Last(s, b, p)] - E[p]]

(* It is what the turns make of one another.                                 *)
Steps(s, E, b) ==
    /\ Walked(s, E, b, b - 1) = [at |-> s[b], cols |-> 0]
    /\ Walked(s, E, b, Len(s)) = [at |-> NULL, cols |-> 0]
    /\ \A p \in 0 .. Len(s) - 1 : p # b - 1 =>
          Walked(s, E, b, p) = [Walked(s, E, b, p + 1) EXCEPT !.cols = @ + Passed(s[p + 1])]

LEMMA WalkedOn ==
    ASSUME TypeOK, NEW s, Shape(s), NEW E, EndColumns(s, E), NEW b \in 1 .. Len(s)
    PROVE  Steps(s, E, b)
<1>1. /\ Len(s) \in Nat /\ \A p \in 1 .. Len(s) : key[s[p]] \in Nat
  BY SortedIs DEF Shape
<1>2. /\ \A p \in 0 .. Len(s) : E[p] \in Nat
      /\ \A p \in 1 .. Len(s) : E[p] = E[p - 1] + 5 + key[s[p]]
  BY DEF EndColumns
<1>3. Walked(s, E, b, b - 1) = [at |-> s[b], cols |-> 0]
  <2>1. Met(s, b, b - 1) = s[b] /\ Last(s, b, b - 1) = b - 1
    BY <1>1 DEF Met, Last
  <2>2. b - 1 \in 0 .. Len(s)
    BY <1>1
  <2>3. E[b - 1] - E[b - 1] = 0
    BY <1>2, <2>2
  <2> QED BY <2>1, <2>3 DEF Walked
<1>4. Walked(s, E, b, Len(s)) = [at |-> NULL, cols |-> 0]
  <2>1. Met(s, b, Len(s)) = NULL /\ Last(s, b, Len(s)) = Len(s) /\ Len(s) \in 0 .. Len(s)
    BY <1>1 DEF Met, Last
  <2>2. E[Len(s)] - E[Len(s)] = 0
    BY <1>2, <2>1
  <2> QED BY <2>1, <2>2 DEF Walked
<1>5. ASSUME NEW p \in 0 .. Len(s) - 1, p # b - 1
      PROVE  Walked(s, E, b, p) = [Walked(s, E, b, p + 1) EXCEPT !.cols = @ + Passed(s[p + 1])]
  <2>1. /\ p + 1 \in 1 .. Len(s) /\ p \in 0 .. Len(s) /\ p + 1 \in 0 .. Len(s) /\ (p + 1) - 1 = p
        /\ Met(s, b, p + 1) = Met(s, b, p) /\ Last(s, b, p + 1) = Last(s, b, p)
        /\ Last(s, b, p) \in 0 .. Len(s)
    BY <1>1, <1>5 DEF Met, Last
  <2>2. E[p + 1] = E[p] + 5 + key[s[p + 1]]
    BY <1>2, <2>1
  <2> DEFINE last == Last(s, b, p)
             e == E[last]
  <2>3. e \in Nat /\ E[p] \in Nat /\ E[p + 1] \in Nat /\ key[s[p + 1]] \in Nat
    BY <1>1, <1>2, <2>1
  <2> HIDE DEF last, e
  <2>4. (e - E[p + 1]) + Passed(s[p + 1]) = e - E[p]
    <3> DEFINE k == key[s[p + 1]]
               x == E[p]
               y == E[p + 1]
    <3>1. e \in Nat /\ x \in Nat /\ k \in Nat /\ y = x + 5 + k /\ Passed(s[p + 1]) = 4 + k + 1
      BY <2>2, <2>3 DEF Passed
    <3> HIDE DEF k, x, y
    <3>2. (e - y) + (4 + k + 1) = e - x
      BY <3>1
    <3> QED BY <3>1, <3>2 DEF x, y
  <2> DEFINE c == e - E[p + 1]
             w == Passed(s[p + 1])
             m == Met(s, b, p)
  <2>5. Walked(s, E, b, p) = [at |-> m, cols |-> c + w] /\ Walked(s, E, b, p + 1) = [at |-> m, cols |-> c]
    BY <2>1, <2>4 DEF Walked, last, e
  <2> HIDE DEF c, w, m
  <2>6. [[at |-> m, cols |-> c] EXCEPT !.cols = @ + w] = [at |-> m, cols |-> c + w]
    OBVIOUS
  <2> QED BY <2>5, <2>6, Zenon DEF w
<1> QED BY <1>3, <1>4, <1>5, Zenon DEF Steps

(* There is a function that walks so.                                        *)
LEMMA CatchesExist ==
    ASSUME TypeOK, NEW s, Shape(s), NEW b \in 1 .. Len(s)
    PROVE  \E f : Catches(f, s[b])
<1>1. Sorted(s) /\ Len(s) \in Nat
  BY SortedIs DEF Shape
<1>2. PICK E : EndColumns(s, E)
  BY <1>1, EndColumnsExist
<1> DEFINE V == [p \in 0 .. Len(s) |-> Walked(s, E, b, p)]
           W == [c \in Cells |-> [at |-> NULL, cols |-> 0]]
<1>3. PICK f : Placed(f, s, V, W)
  BY <1>1, ByPlace
<1>4. /\ f = [c \in Cells |-> f[c]]
      /\ \A p \in 0 .. Len(s) : f[Cell(s, p)] = Walked(s, E, b, p)
      /\ \A c \in Cells : (\A p \in 0 .. Len(s) : c # Cell(s, p)) => f[c] = [at |-> NULL, cols |-> 0]
  <2>1. Placed(f, s, V, W) => /\ f = [c \in Cells |-> f[c]]
                              /\ \A p \in 0 .. Len(s) : f[Cell(s, p)] = V[p]
                              /\ \A c \in Cells : (\A p \in 0 .. Len(s) : c # Cell(s, p)) => f[c] = W[c]
    BY Zenon DEF Placed
  <2>2. /\ \A p \in 0 .. Len(s) : V[p] = Walked(s, E, b, p)
        /\ \A c \in Cells : W[c] = [at |-> NULL, cols |-> 0]
    BY Zenon
  <2> HIDE DEF V, W
  <2> QED BY <1>3, <2>1, <2>2, Zenon
<1>5. Turns(f, s, b) /\ Steps(s, E, b)
  BY <1>2, CatchTurn, WalkedOn
<1>6. ASSUME NEW c \in Cells
      PROVE  f[c] = CatchUp(f, s[b], c)
  <2>1. CASE \E p \in 0 .. Len(s) : c = Cell(s, p)
    <3>1. PICK p \in 0 .. Len(s) : c = Cell(s, p)
      BY <2>1
    <3>2. f[c] = Walked(s, E, b, p)
      BY <1>4, <3>1
    <3>3. CASE p = b - 1
      BY <1>5, <3>1, <3>2, <3>3, Zenon DEF Turns, Steps
    <3>4. CASE p = Len(s)
      BY <1>5, <3>1, <3>2, <3>4, Zenon DEF Turns, Steps
    <3>5. CASE p # b - 1 /\ p # Len(s)
      <4>1. p \in 0 .. Len(s) - 1 /\ p + 1 \in 1 .. Len(s) /\ p + 1 \in 0 .. Len(s)
        BY <1>1, <3>5
      <4>2. f[s[p + 1]] = Walked(s, E, b, p + 1)
        BY <1>4, <4>1 DEF Cell
      <4>3. Walked(s, E, b, p) = [Walked(s, E, b, p + 1) EXCEPT !.cols = @ + Passed(s[p + 1])]
        BY <1>5, <3>5, <4>1, Zenon DEF Steps
      <4>4. CatchUp(f, s[b], Cell(s, p)) = [f[s[p + 1]] EXCEPT !.cols = @ + Passed(s[p + 1])]
        BY <1>5, <3>5, <4>1, Zenon DEF Turns
      <4> QED BY <3>1, <3>2, <4>2, <4>3, <4>4, Zenon
    <3> QED BY <3>3, <3>4, <3>5
  <2>2. CASE \A p \in 0 .. Len(s) : c # Cell(s, p)
    <3>1. f[c] = [at |-> NULL, cols |-> 0]
      BY <1>4, <2>2
    <3>2. CatchUp(f, s[b], c) = [at |-> NULL, cols |-> 0]
      BY <1>5, <2>2, Zenon DEF Turns
    <3> QED BY <3>1, <3>2, Zenon
  <2> QED BY <2>1, <2>2
<1>7. f = [c \in Cells |-> CatchUp(f, s[b], c)]
  BY <1>4, <1>6, Zenon
<1> QED BY <1>7, Zenon DEF Catches

(* The walk from place a to the next node of the level ends there, and is as *)
(* long as what is between them.                                             *)
LEMMA AdjustLinkIs ==
    ASSUME TypeOK, NEW s, Shape(s), NEW E, EndColumns(s, E), NEW i \in Levels,
           NEW a, NEW b \in 1 .. Len(s), Adjacent(s, i, a, b)
    PROVE  AdjustLink(Cell(s, a), Cell(s, a), i) = [at |-> s[b], cols |-> E[b - 1] - E[a]]
<1>1. Sorted(s) /\ Len(s) \in Nat /\ \A p : Cell(s, p) \in Cells
  BY SortedIs, CellIs DEF Shape
<1>2. GetNextNoMutex(Cell(s, a), i) = s[b]
  <2>1. next[Cell(s, a)][i] = Cell(s, b) /\ Cell(s, b) = s[b] /\ Cell(s, b) # NIL
    BY <1>1, LinksAre, CellIs
  <2> QED BY <2>1 DEF GetNextNoMutex
<1>3. \E f : Catches(f, s[b])
  BY CatchesExist
<1>4. PICK f : Catches(f, s[b]) /\ AdjustLink(Cell(s, a), Cell(s, a), i) = f[Cell(s, a)]
  BY <1>2, <1>3, AdjustLinkIsSome, Zenon
<1>5. \A p : f[Cell(s, p)] = CatchUp(f, s[b], Cell(s, p))
  <2>1. f = [c \in Cells |-> CatchUp(f, s[b], c)]
    BY <1>4, Zenon DEF Catches
  <2>2. \A c \in Cells : f[c] = CatchUp(f, s[b], c)
    BY <2>1, Zenon
  <2> QED BY <1>1, <2>2, Zenon
<1>6. Turns(f, s, b) /\ Steps(s, E, b)
  BY CatchTurn, WalkedOn
<1> DEFINE holds == {j \in 0 .. b - 1 : f[Cell(s, (b - 1) - j)] = Walked(s, E, b, (b - 1) - j)}
<1>7. 0 \in holds
  <2>1. (b - 1) - 0 = b - 1 /\ 0 \in 0 .. b - 1
    BY <1>1
  <2>2. f[Cell(s, b - 1)] = Walked(s, E, b, b - 1)
    BY <1>5, <1>6, Zenon DEF Turns, Steps
  <2> QED BY <2>1, <2>2
<1>8. ASSUME NEW j \in 1 .. b - 1, j - 1 \in holds
      PROVE  j \in holds
  <2> DEFINE p == (b - 1) - j
  <2>1. /\ p \in 0 .. Len(s) - 1 /\ p # b - 1 /\ p + 1 \in 1 .. Len(s) /\ j \in 0 .. b - 1
        /\ (b - 1) - (j - 1) = p + 1
    BY <1>1
  <2>2. f[Cell(s, p + 1)] = Walked(s, E, b, p + 1)
    BY <1>8, <2>1
  <2> HIDE DEF p
  <2>3. Cell(s, p + 1) = s[p + 1]
    BY <2>1 DEF Cell
  <2>4. f[Cell(s, p)] = [f[s[p + 1]] EXCEPT !.cols = @ + Passed(s[p + 1])]
    BY <1>5, <1>6, <2>1, Zenon DEF Turns
  <2>5. Walked(s, E, b, p) = [Walked(s, E, b, p + 1) EXCEPT !.cols = @ + Passed(s[p + 1])]
    BY <1>6, <2>1, Zenon DEF Steps
  <2>6. f[Cell(s, p)] = Walked(s, E, b, p)
    BY <2>2, <2>3, <2>4, <2>5, Zenon
  <2> QED BY <2>1, <2>6 DEF p
<1>9. a \in 0 .. b - 1 /\ (b - 1) - a \in 0 .. b - 1 /\ b - 1 \in Nat
      /\ (b - 1) - ((b - 1) - a) = a
  BY <1>1 DEF Adjacent
<1>10. \A j \in 0 .. b - 1 : j \in holds
  <2> HIDE DEF holds
  <2> QED BY <1>7, <1>8, <1>9, Upwards
<1>11. f[Cell(s, a)] = Walked(s, E, b, a)
  <2>1. (b - 1) - a \in holds
    <3> HIDE DEF holds
    <3> QED BY <1>9, <1>10
  <2>2. f[Cell(s, (b - 1) - ((b - 1) - a))] = Walked(s, E, b, (b - 1) - ((b - 1) - a))
    BY <2>1
  <2> QED BY <1>9, <2>2
<1>12. Met(s, b, a) = s[b] /\ Last(s, b, a) = b - 1
  BY <1>1, <1>9 DEF Met, Last
<1> QED BY <1>4, <1>11, <1>12, Zenon DEF Walked

(* What is printed of the node at place b of level i.                        *)
Mark(s, E, i, b) ==
    [node |-> s[b], col |-> E[b - 1] + 5, met |-> IF i = 0 THEN NIL ELSE s[b]]

Marks(s, E, i, a) == {Mark(s, E, i, b) : b \in {b \in 1 .. a : Tall(s, i, b)}}

(* drawList when it has come to place a.                                     *)
Drawing(s, E, i, a) ==
    [x |-> Cell(s, a), iter1 |-> Cell(s, a), iter2 |-> IF i = 0 THEN NIL ELSE Cell(s, a),
     col |-> E[a], drawn |-> Marks(s, E, i, a)]

(* The marks up to the next node of the level, and up to its end.            *)
LEMMA MoreMarks ==
    ASSUME TypeOK, NEW s, Sorted(s), NEW E, NEW i \in Levels,
           NEW a, NEW b \in 1 .. Len(s), Adjacent(s, i, a, b)
    PROVE  Marks(s, E, i, b) = Marks(s, E, i, a) \cup {Mark(s, E, i, b)}
<1>1. Len(s) \in Nat
  BY SortedIs
<1> DEFINE on(p) == {r \in 1 .. p : Tall(s, i, r)}
<1>2. on(b) = on(a) \cup {b}
  BY <1>1 DEF Adjacent
<1>3. \A p : Marks(s, E, i, p) = {Mark(s, E, i, r) : r \in on(p)}
  BY Zenon DEF Marks
<1> HIDE DEF on
<1>4. {Mark(s, E, i, r) : r \in on(a) \cup {b}} = {Mark(s, E, i, r) : r \in on(a)} \cup {Mark(s, E, i, b)}
  OBVIOUS
<1> QED BY <1>2, <1>3, <1>4, Zenon

LEMMA AllMarks ==
    ASSUME TypeOK, NEW s, Sorted(s), NEW E, NEW i \in Levels,
           NEW a, Adjacent(s, i, a, Len(s) + 1)
    PROVE  Marks(s, E, i, Len(s)) = Marks(s, E, i, a)
<1>1. Len(s) \in Nat
  BY SortedIs
<1> DEFINE on(p) == {r \in 1 .. p : Tall(s, i, r)}
<1>2. on(Len(s)) = on(a)
  BY <1>1 DEF Adjacent
<1>3. \A p : Marks(s, E, i, p) = {Mark(s, E, i, r) : r \in on(p)}
  BY Zenon DEF Marks
<1> HIDE DEF on
<1> QED BY <1>2, <1>3, Zenon

(* One turn of drawList leads to the next node of the level, or stays at the *)
(* last one.                                                                 *)
LEMMA DrawTurn ==
    ASSUME TypeOK, NEW s, Shape(s), NEW E, EndColumns(s, E), NEW i \in Levels,
           NEW a, NEW b, Adjacent(s, i, a, b)
    PROVE  /\ b \in 1 .. Len(s) => DrawNode(Drawing(s, E, i, a), i) = Drawing(s, E, i, b)
           /\ b = Len(s) + 1 => DrawNode(Drawing(s, E, i, a), i) = Drawing(s, E, i, a)
<1>1. /\ Sorted(s) /\ Len(s) \in Nat /\ a \in 0 .. Len(s) /\ b \in 1 .. Len(s) + 1 /\ a < b
      /\ \A p \in 1 .. Len(s) : s[p] \in Nodes /\ s[p] # NIL /\ key[s[p]] \in Nat
  BY SortedIs DEF Shape, Adjacent
<1>2. next[Cell(s, a)][i] = Cell(s, b)
  BY LinksAre
<1> DEFINE d == Drawing(s, E, i, a)
<1>3. d.x = Cell(s, a) /\ d.iter1 = Cell(s, a) /\ d.col = E[a] /\ d.drawn = Marks(s, E, i, a)
  BY DEF Drawing
<1>4. i # 0 => d.iter2 = Cell(s, a)
  BY DEF Drawing
<1> HIDE DEF d
<1>5. ASSUME b = Len(s) + 1
      PROVE  DrawNode(d, i) = d
  <2>1. next[d.x][i] = NIL
    BY <1>1, <1>2, <1>3, <1>5, CellIs
  <2> QED BY <2>1, Zenon DEF DrawNode
<1>6. ASSUME b \in 1 .. Len(s)
      PROVE  DrawNode(d, i) = Drawing(s, E, i, b)
  <2>1. Cell(s, b) = s[b] /\ s[b] # NIL
    BY <1>1, <1>6, CellIs
  <2>2. next[d.x][i] = s[b] /\ GetNextNoMutex(d.iter1, i) = s[b]
    BY <1>2, <1>3, <2>1 DEF GetNextNoMutex
  <2>3. /\ E[a] \in Nat /\ E[b - 1] \in Nat /\ E[b] \in Nat
        /\ E[b] = E[b - 1] + 5 + key[s[b]] /\ key[s[b]] \in Nat
    <3>1. a \in 0 .. Len(s) /\ b - 1 \in 0 .. Len(s) /\ b \in 0 .. Len(s)
      BY <1>1, <1>6
    <3> QED BY <1>1, <1>6, <3>1 DEF EndColumns
  <2> DEFINE link == IF i = 0 THEN [at |-> NIL, cols |-> 0] ELSE AdjustLink(d.iter1, d.iter2, i)
             met  == IF i = 0 THEN NIL ELSE s[b]
  <2>4. link = [at |-> met, cols |-> E[b - 1] - E[a]]
    <3>1. CASE i = 0
      <4>1. a = b - 1
        <5>1. a + 1 \in 1 .. Len(s) /\ Tall(s, 0, a + 1)
          <6>1. a + 1 \in 1 .. Len(s)
            BY <1>1, <1>6
          <6>2. sz[s[a + 1]] \in 1 .. MaxLevel
            BY <1>1, <6>1, SortedIs
          <6>3. a + 1 \in 0 .. Len(s) + 1
            BY <1>1, <6>1
          <6> QED BY <6>1, <6>2, <6>3 DEF Tall
        <5> QED BY <1>1, <3>1, <5>1 DEF Adjacent
      <4>2. E[b - 1] - E[a] = 0
        BY <2>3, <4>1
      <4> QED BY <3>1, <4>2
    <3>2. CASE i # 0
      <4>1. AdjustLink(Cell(s, a), Cell(s, a), i) = [at |-> s[b], cols |-> E[b - 1] - E[a]]
        BY <1>6, AdjustLinkIs
      <4> QED BY <1>3, <1>4, <3>2, <4>1, Zenon
    <3> QED BY <3>1, <3>2
  <2>5. link.at = met /\ link.cols = E[b - 1] - E[a]
    BY <2>4
  <2> DEFINE col == d.col + 1 + link.cols + 4
  <2>6. col = E[b - 1] + 5
    <3> DEFINE x == E[a]
               y == E[b - 1]
               w == link.cols
    <3>1. x \in Nat /\ y \in Nat /\ w = y - x /\ col = x + 1 + w + 4
      BY <1>3, <2>3, <2>5
    <3> HIDE DEF x, y, w, col
    <3>2. col = y + 5
      BY <3>1
    <3> QED BY <3>2 DEF y
  <2>7. DrawNode(d, i) = [x |-> s[b], iter1 |-> s[b], iter2 |-> link.at, col |-> col + key[s[b]],
                          drawn |-> d.drawn \cup {[node |-> s[b], col |-> col, met |-> link.at]}]
    BY <2>1, <2>2, Zenon DEF DrawNode
  <2> HIDE DEF link, col
  <2>8. col + key[s[b]] = E[b]
    BY <2>3, <2>6
  <2>9. [node |-> s[b], col |-> col, met |-> link.at] = Mark(s, E, i, b)
    BY <2>5, <2>6, Zenon DEF Mark
  <2>10. Marks(s, E, i, b) = Marks(s, E, i, a) \cup {Mark(s, E, i, b)}
    BY <1>1, <1>6, MoreMarks
  <2>11. Drawing(s, E, i, b) = [x |-> s[b], iter1 |-> s[b], iter2 |-> met, col |-> E[b],
                                drawn |-> Marks(s, E, i, b)]
    <3>1. met = IF i = 0 THEN NIL ELSE Cell(s, b)
      BY <2>1
    <3> HIDE DEF met
    <3> QED BY <2>1, <3>1, Zenon DEF Drawing
  <2> HIDE DEF met
  <2> QED BY <1>3, <2>5, <2>7, <2>8, <2>9, <2>10, <2>11, Zenon
<1> QED BY <1>5, <1>6 DEF d

(* The function by which drawList goes on.                                   *)
Draws(f, i) ==
    f = [n \in 0 .. nodenum |->
          IF n = 0 THEN [x |-> NIL, iter1 |-> NIL, iter2 |-> NIL, col |-> 0, drawn |-> {}]
          ELSE DrawNode(f[n - 1], i)]

LEMMA DrawListIsSome ==
    ASSUME NEW i, \E f : Draws(f, i)
    PROVE  \E f : Draws(f, i) /\ DrawList(i) = f[nodenum].drawn
BY Zenon DEF Draws, DrawList

(* It begins at the header.                                                  *)
LEMMA DrawingBegins ==
    ASSUME TypeOK, NEW s, Sorted(s), NEW E, EndColumns(s, E), NEW i \in Levels
    PROVE  Drawing(s, E, i, 0) = [x |-> NIL, iter1 |-> NIL, iter2 |-> NIL, col |-> 0, drawn |-> {}]
<1>1. Cell(s, 0) = NIL /\ E[0] = 0
  BY CellIs DEF EndColumns
<1>2. Marks(s, E, i, 0) = {}
  BY DEF Marks
<1> QED BY <1>1, <1>2 DEF Drawing

(* There is such a function: it goes from place to place.                    *)
LEMMA DrawsExist ==
    ASSUME TypeOK, NEW s, Shape(s), NEW i \in Levels
    PROVE  \E f : Draws(f, i)
<1>1. Sorted(s) /\ Len(s) \in Nat /\ nodenum = Len(s) /\ nodenum \in Nat
  BY SortedIs DEF Shape, Counted
<1>2. PICK E : EndColumns(s, E)
  BY <1>1, EndColumnsExist
<1> DEFINE A == {Drawing(s, E, i, a) : a \in {a \in 0 .. Len(s) : Tall(s, i, a)}}
           step == [n \in 1 .. nodenum |-> [d \in A |-> DrawNode(d, i)]]
<1>3. ASSUME NEW d \in A
      PROVE  DrawNode(d, i) \in A
  <2>1. PICK a \in 0 .. Len(s) : Tall(s, i, a) /\ d = Drawing(s, E, i, a)
    OBVIOUS
  <2>2. PICK b : Adjacent(s, i, a, b)
    BY <1>1, <2>1, NeighbourAhead
  <2>3. b \in 1 .. Len(s) + 1 /\ Tall(s, i, b)
    BY <2>2 DEF Adjacent
  <2>4. CASE b = Len(s) + 1
    BY <1>2, <2>1, <2>2, <2>4, DrawTurn
  <2>5. CASE b # Len(s) + 1
    <3>1. b \in 1 .. Len(s) /\ b \in 0 .. Len(s)
      BY <1>1, <2>3, <2>5
    <3>2. DrawNode(d, i) = Drawing(s, E, i, b)
      BY <1>2, <2>1, <2>2, <3>1, DrawTurn
    <3> QED BY <2>3, <3>1, <3>2
  <2> QED BY <2>4, <2>5
<1>4. Drawing(s, E, i, 0) \in A
  BY <1>1 DEF Tall
<1> HIDE DEF A
<1>5. step \in [1 .. nodenum -> [A -> A]] /\ DOMAIN step = 1 .. nodenum
      /\ \A n \in 1 .. nodenum : \A d \in A : step[n][d] = DrawNode(d, i)
  BY <1>3
<1> HIDE DEF step
<1> DEFINE first == Drawing(s, E, i, 0)
<1>6. PICK f \in [0 .. nodenum -> A] : Iterates(f, first, step)
  <2> HIDE DEF first
  <2> QED BY <1>1, <1>4, <1>5, Iterate DEF first
<1>7. ASSUME NEW n \in 0 .. nodenum
      PROVE  f[n] = IF n = 0 THEN [x |-> NIL, iter1 |-> NIL, iter2 |-> NIL, col |-> 0, drawn |-> {}]
                    ELSE DrawNode(f[n - 1], i)
  <2>1. CASE n = 0
    <3>1. f[0] = first
      BY <1>6 DEF Iterates
    <3> QED BY <1>1, <1>2, <2>1, <3>1, DrawingBegins, Zenon
  <2>2. CASE n # 0
    <3>1. n \in 1 .. nodenum /\ n - 1 \in 0 .. nodenum
      BY <1>1, <2>2
    <3>2. f[n] = step[n][f[n - 1]] /\ f[n - 1] \in A
      BY <1>5, <1>6, <3>1 DEF Iterates
    <3>3. f[n] = DrawNode(f[n - 1], i)
      BY <1>5, <3>1, <3>2
    <3> QED BY <2>2, <3>3, Zenon
  <2> QED BY <2>1, <2>2
<1>8. Draws(f, i)
  BY <1>6, <1>7, Zenon DEF Draws
<1> QED BY <1>8

(* The drawing of a level goes to its end.                                   *)
LEMMA DrawListIs ==
    ASSUME TypeOK, NEW s, Shape(s), NEW E, EndColumns(s, E), NEW i \in Levels
    PROVE  DrawList(i) = Marks(s, E, i, Len(s))
<1>1. Sorted(s) /\ Len(s) \in Nat /\ nodenum = Len(s) /\ nodenum \in Nat
  BY SortedIs DEF Shape, Counted
<1>2. PICK f : Draws(f, i) /\ DrawList(i) = f[nodenum].drawn
  BY DrawsExist, DrawListIsSome
<1>3. /\ f[0] = Drawing(s, E, i, 0)
      /\ \A n \in 1 .. nodenum : f[n] = DrawNode(f[n - 1], i)
  <2> DEFINE first == [x |-> NIL, iter1 |-> NIL, iter2 |-> NIL, col |-> 0, drawn |-> {}]
  <2>1. \A n \in 0 .. nodenum : f[n] = IF n = 0 THEN first ELSE DrawNode(f[n - 1], i)
    BY <1>2, Zenon DEF Draws
  <2>2. first = Drawing(s, E, i, 0)
    BY <1>1, DrawingBegins
  <2> HIDE DEF first
  <2> QED BY <1>1, <2>1, <2>2
<1> DEFINE Far(n, a) == /\ a \in 0 .. Len(s) /\ Tall(s, i, a) /\ f[n] = Drawing(s, E, i, a)
                        /\ n <= a \/ Adjacent(s, i, a, Len(s) + 1)
           holds == {n \in 0 .. nodenum : \E a : Far(n, a)}
<1>4. 0 \in holds
  <2>1. Far(0, 0)
    BY <1>1, <1>3 DEF Tall
  <2>2. 0 \in 0 .. nodenum
    BY <1>1
  <2> HIDE DEF Far
  <2> QED BY <2>1, <2>2
<1>5. ASSUME NEW n \in 1 .. nodenum, n - 1 \in holds
      PROVE  n \in holds
  <2>1. PICK a : Far(n - 1, a)
    BY <1>5
  <2>2. PICK b : Adjacent(s, i, a, b)
    BY <1>1, <2>1, NeighbourAhead
  <2>3. b \in 1 .. Len(s) + 1 /\ Tall(s, i, b) /\ a < b
    BY <2>2 DEF Adjacent
  <2>4. f[n] = DrawNode(Drawing(s, E, i, a), i)
    BY <1>3, <2>1
  <2>5. CASE b = Len(s) + 1
    <3>1. f[n] = Drawing(s, E, i, a)
      BY <2>2, <2>4, <2>5, DrawTurn
    <3>2. Far(n, a)
      BY <2>1, <2>2, <2>5, <3>1
    <3> HIDE DEF Far
    <3> QED BY <1>1, <3>2
  <2>6. CASE b # Len(s) + 1
    <3>1. b \in 1 .. Len(s) /\ b \in 0 .. Len(s)
      BY <1>1, <2>3, <2>6
    <3>2. f[n] = Drawing(s, E, i, b)
      BY <2>2, <2>4, <3>1, DrawTurn
    <3>3. n <= b
      <4>1. n - 1 <= a
        <5>1. ~Adjacent(s, i, a, Len(s) + 1)
          BY <1>1, <2>2, <2>6, OneNeighbour
        <5> QED BY <2>1, <5>1
      <4> QED BY <1>1, <2>1, <2>3, <4>1
    <3>4. Far(n, b)
      BY <2>3, <3>1, <3>2, <3>3
    <3> HIDE DEF Far
    <3> QED BY <1>1, <3>4
  <2> QED BY <2>5, <2>6
<1>6. PICK a : Far(nodenum, a)
  <2>1. \A n \in 0 .. nodenum : n \in holds
    <3> HIDE DEF holds
    <3> QED BY <1>1, <1>4, <1>5, Upwards
  <2>2. nodenum \in holds
    <3> HIDE DEF holds
    <3> QED BY <1>1, <2>1
  <2> HIDE DEF Far
  <2> QED BY <2>2
<1>7. DrawList(i) = Marks(s, E, i, a)
  BY <1>2, <1>6 DEF Drawing
<1>8. CASE Adjacent(s, i, a, Len(s) + 1)
  BY <1>1, <1>7, <1>8, AllMarks
<1>9. CASE nodenum <= a
  <2>1. a = Len(s)
    BY <1>1, <1>6, <1>9
  <2> QED BY <1>7, <2>1
<1> QED BY <1>6, <1>8, <1>9

(* However the list came about, every level is drawn to its end and each     *)
(* node in one column, and adjustLink never walks past the end of the list.  *)
THEOREM Columns == Spec => []DrawnInColumns
<1>1. IInv => DrawnInColumns
  <2> SUFFICES ASSUME IInv PROVE DrawnInColumns
    OBVIOUS
  <2>1. PICK s : TypeOK /\ Shape(s)
    BY DEF IInv
  <2>2. /\ Sorted(s) /\ Len(s) \in Nat
        /\ \A p \in 1 .. Len(s) : s[p] \in Nodes /\ sz[s[p]] \in 1 .. MaxLevel
        /\ \A n \in Nodes : sz[n] # 0 <=> \E p \in 1 .. Len(s) : s[p] = n
        /\ \A n \in Nodes : sz[n] \in Nat
    BY <2>1, SortedIs DEF Shape, Sorted, TypeOK, Cells
  <2>3. PICK E : EndColumns(s, E)
    BY <2>1, <2>2, EndColumnsExist
  <2>4. \A i \in Levels : DrawList(i) = Marks(s, E, i, Len(s))
    BY <2>1, <2>3, DrawListIs
  <2>5. \A i \in Levels, p \in 1 .. Len(s) : Tall(s, i, p) <=> sz[s[p]] > i
    BY <2>2 DEF Tall
  <2>6. ASSUME NEW i \in Levels
        PROVE  {e.node : e \in DrawList(i)} = {n \in Nodes : sz[n] > i}
    <3>1. ASSUME NEW e \in DrawList(i)
          PROVE  e.node \in {n \in Nodes : sz[n] > i}
      <4>1. PICK p \in 1 .. Len(s) : Tall(s, i, p) /\ e = Mark(s, E, i, p)
        BY <2>4, <3>1 DEF Marks
      <4>2. e.node = s[p]
        BY <4>1 DEF Mark
      <4> QED BY <2>2, <2>5, <4>1, <4>2
    <3>2. ASSUME NEW n \in Nodes, sz[n] > i
          PROVE  \E e \in DrawList(i) : e.node = n
      <4>1. sz[n] # 0
        BY <2>2, <3>2 DEF Levels
      <4>2. PICK p \in 1 .. Len(s) : s[p] = n
        BY <2>2, <4>1
      <4>3. Tall(s, i, p)
        BY <2>5, <3>2, <4>2
      <4>4. Mark(s, E, i, p) \in DrawList(i)
        BY <2>4, <4>3 DEF Marks
      <4>5. Mark(s, E, i, p).node = n
        BY <4>2 DEF Mark
      <4> QED BY <4>4, <4>5, Zenon
    <3> QED BY <3>1, <3>2
  <2>7. ASSUME NEW i \in Levels \ {0}, NEW e \in DrawList(i)
        PROVE  e.met = e.node /\ \E d \in DrawList(0) : d.node = e.node /\ d.col = e.col
    <3>1. PICK p \in 1 .. Len(s) : Tall(s, i, p) /\ e = Mark(s, E, i, p)
      BY <2>4 DEF Marks
    <3>2. e.met = s[p] /\ e.node = s[p] /\ e.col = E[p - 1] + 5
      BY <3>1 DEF Mark
    <3> DEFINE d == Mark(s, E, 0, p)
    <3>3. d.node = s[p] /\ d.col = E[p - 1] + 5
      BY DEF Mark
    <3>4. d \in DrawList(0)
      <4>1. 0 \in Levels /\ sz[s[p]] > 0
        BY <2>2 DEF Levels
      <4>2. Tall(s, 0, p)
        BY <2>5, <4>1
      <4> QED BY <2>4, <4>1, <4>2 DEF Marks
    <3> HIDE DEF d
    <3> QED BY <3>2, <3>3, <3>4
  <2> QED BY <2>6, <2>7 DEF DrawnInColumns
<1> QED BY <1>1, Invariance, PTL

-----------------------------------------------------------------------------
(* The list as its sequence of elements                                     *)

Entry(n, k, v) == [node |-> n, key |-> k, item |-> v]

Entries == [node : Nodes, key : Keys, item : Items \cup {NULL}]

(* An element and its parts.                                                 *)
LEMMA EntryIs ==
    ASSUME NEW n, NEW k, NEW v, NEW w
    PROVE  /\ Entry(n, k, v).node = n /\ Entry(n, k, v).key = k /\ Entry(n, k, v).item = v
           /\ [Entry(n, k, v) EXCEPT !.item = w] = Entry(n, k, w)
           /\ n \in Nodes /\ k \in Keys /\ v \in Items \cup {NULL} => Entry(n, k, v) \in Entries
BY DEF Entry, Entries

(* An element more, and an element less.                                     *)
With(L, e, p) == [j \in 1 .. Len(L) + 1 |-> IF j <= p THEN L[j] ELSE IF j = p + 1 THEN e ELSE L[j - 1]]

Without(L, p) == [j \in 1 .. Len(L) - 1 |-> IF j <= p - 1 THEN L[j] ELSE L[j + 1]]

Spliced(L, e, p) == SubSeq(L, 1, p) \o <<e>> \o SubSeq(L, p + 1, Len(L))

Cut(L, p) == SubSeq(L, 1, p - 1) \o SubSeq(L, p + 1, Len(L))

(* The two ways to write an element more.                                    *)
LEMMA InsertAt ==
    ASSUME NEW S, NEW L \in Seq(S), NEW e \in S, NEW p \in 0 .. Len(L)
    PROVE  Spliced(L, e, p) = With(L, e, p)
<1> DEFINE a == SubSeq(L, 1, p)
           b == <<e>>
           c == SubSeq(L, p + 1, Len(L))
           new == With(L, e, p)
<1>1. Len(L) \in Nat /\ p \in Nat /\ \A j \in 1 .. Len(L) : L[j] \in S
  OBVIOUS
<1>2. /\ a \in Seq(S) /\ Len(a) = p /\ \A j \in 1 .. p : a[j] = L[j]
  <2>1. \A j \in 1 .. p : L[j] \in S
    BY <1>1
  <2> QED BY <1>1, <2>1, SubSeqProperties
<1>3. b \in Seq(S) /\ Len(b) = 1 /\ b[1] = e
  OBVIOUS
<1>4. /\ c \in Seq(S) /\ Len(c) = Len(L) - p /\ \A j \in 1 .. Len(L) - p : c[j] = L[p + j]
  <2>1. \A j \in p + 1 .. Len(L) : L[j] \in S
    BY <1>1
  <2> QED BY <1>1, <2>1, SubSeqProperties
<1> HIDE DEF a, b, c
<1>5. /\ a \o b \in Seq(S) /\ Len(a \o b) = Len(a) + Len(b)
      /\ \A j \in 1 .. Len(a) + Len(b) : (a \o b)[j] = IF j <= Len(a) THEN a[j] ELSE b[j - Len(a)]
  BY <1>2, <1>3, ConcatProperties, Zenon
<1> DEFINE ab == a \o b
<1>6. /\ ab \in Seq(S) /\ Len(ab) = p + 1
      /\ \A j \in 1 .. p + 1 : ab[j] = IF j <= p THEN a[j] ELSE b[j - p]
  BY <1>2, <1>3, <1>5
<1> HIDE DEF ab
<1>7. /\ ab \o c \in Seq(S) /\ Len(ab \o c) = Len(ab) + Len(c)
      /\ \A j \in 1 .. Len(ab) + Len(c) : (ab \o c)[j] = IF j <= Len(ab) THEN ab[j] ELSE c[j - Len(ab)]
  BY <1>4, <1>6, ConcatProperties, Zenon
<1> DEFINE abc == ab \o c
<1>8. /\ abc \in Seq(S) /\ Len(abc) = Len(L) + 1
      /\ \A j \in 1 .. Len(L) + 1 : abc[j] = IF j <= p + 1 THEN ab[j] ELSE c[j - (p + 1)]
  <2>1. Len(ab) + Len(c) = Len(L) + 1
    BY <1>1, <1>4, <1>6
  <2> QED BY <1>6, <1>7, <2>1
<1> HIDE DEF abc
<1>9. ASSUME NEW j \in 1 .. Len(L) + 1
      PROVE  abc[j] = new[j]
  <2>1. CASE j <= p
    <3>1. j \in 1 .. p /\ j \in 1 .. p + 1 /\ j <= p + 1
      BY <1>1, <2>1
    <3> QED BY <1>2, <1>6, <1>8, <2>1, <3>1 DEF With
  <2>2. CASE j = p + 1
    <3>1. p + 1 \in 1 .. p + 1 /\ ~(p + 1 <= p) /\ (p + 1) - p = 1 /\ p + 1 <= p + 1
      BY <1>1
    <3>2. abc[j] = e
      BY <1>3, <1>6, <1>8, <2>2, <3>1
    <3> QED BY <2>2, <3>1, <3>2 DEF With
  <2>3. CASE j > p + 1
    <3>1. /\ j - (p + 1) \in 1 .. Len(L) - p /\ p + (j - (p + 1)) = j - 1
          /\ ~(j <= p + 1) /\ ~(j <= p) /\ j # p + 1
      BY <1>1, <2>3
    <3>2. abc[j] = c[j - (p + 1)] /\ c[j - (p + 1)] = L[p + (j - (p + 1))]
      BY <1>4, <1>8, <3>1
    <3>3. new[j] = L[j - 1]
      BY <3>1 DEF With
    <3> HIDE DEF new
    <3> QED BY <3>1, <3>2, <3>3
  <2> QED BY <1>1, <2>1, <2>2, <2>3
<1>10. abc = [j \in 1 .. Len(L) + 1 |-> abc[j]]
  BY <1>1, <1>8
<1>11. abc = new
  BY <1>9, <1>10, Zenon DEF With
<1> QED BY <1>11, Zenon DEF abc, ab, a, b, c, Spliced

(* The two ways to write an element less.                                    *)
LEMMA RemoveAt ==
    ASSUME NEW S, NEW L \in Seq(S), NEW p \in 1 .. Len(L)
    PROVE  Cut(L, p) = Without(L, p)
<1> DEFINE a == SubSeq(L, 1, p - 1)
           c == SubSeq(L, p + 1, Len(L))
           new == Without(L, p)
<1>1. Len(L) \in Nat /\ p \in Nat /\ \A j \in 1 .. Len(L) : L[j] \in S
  OBVIOUS
<1>2. /\ a \in Seq(S) /\ Len(a) = p - 1 /\ \A j \in 1 .. p - 1 : a[j] = L[j]
  <2>1. \A j \in 1 .. p - 1 : L[j] \in S
    BY <1>1
  <2> QED BY <1>1, <2>1, SubSeqProperties
<1>3. /\ c \in Seq(S) /\ Len(c) = Len(L) - p /\ \A j \in 1 .. Len(L) - p : c[j] = L[p + j]
  <2>1. \A j \in p + 1 .. Len(L) : L[j] \in S
    BY <1>1
  <2> QED BY <1>1, <2>1, SubSeqProperties
<1> HIDE DEF a, c
<1>4. /\ a \o c \in Seq(S) /\ Len(a \o c) = Len(a) + Len(c)
      /\ \A j \in 1 .. Len(a) + Len(c) : (a \o c)[j] = IF j <= Len(a) THEN a[j] ELSE c[j - Len(a)]
  BY <1>2, <1>3, ConcatProperties, Zenon
<1> DEFINE ac == a \o c
<1>5. /\ ac \in Seq(S) /\ Len(ac) = Len(L) - 1
      /\ \A j \in 1 .. Len(L) - 1 : ac[j] = IF j <= p - 1 THEN a[j] ELSE c[j - (p - 1)]
  <2>1. Len(a) + Len(c) = Len(L) - 1
    BY <1>1, <1>2, <1>3
  <2> QED BY <1>2, <1>4, <2>1
<1> HIDE DEF ac
<1>6. ASSUME NEW j \in 1 .. Len(L) - 1
      PROVE  ac[j] = new[j]
  <2>1. CASE j <= p - 1
    <3>1. j \in 1 .. p - 1
      BY <1>1, <2>1
    <3> QED BY <1>2, <1>5, <2>1, <3>1 DEF Without
  <2>2. CASE ~(j <= p - 1)
    <3>1. j - (p - 1) \in 1 .. Len(L) - p /\ p + (j - (p - 1)) = j + 1
      BY <1>1, <2>2
    <3>2. ac[j] = c[j - (p - 1)] /\ c[j - (p - 1)] = L[p + (j - (p - 1))]
      BY <1>3, <1>5, <2>2, <3>1
    <3>3. new[j] = L[j + 1]
      BY <2>2 DEF Without
    <3> HIDE DEF new
    <3> QED BY <3>1, <3>2, <3>3
  <2> QED BY <2>1, <2>2
<1>7. ac = [j \in 1 .. Len(L) - 1 |-> ac[j]]
  BY <1>1, <1>5
<1>8. ac = new
  BY <1>6, <1>7, Zenon DEF Without
<1> QED BY <1>8, Zenon DEF ac, a, c, Cut

(* The elements of the list are the nodes in order and their data.           *)
Holds(L, s) ==
    /\ L \in Seq(Entries) /\ Len(L) = Len(s)
    /\ L = [j \in 1 .. Len(s) |-> Entry(s[j], key[s[j]], item[s[j]])]
    /\ \A j \in 1 .. Len(s) : L[j] = Entry(s[j], key[s[j]], item[s[j]])

(* The refinement mapping, by places.                                        *)
LEMMA ElementsAre ==
    ASSUME TypeOK, NEW s, Shape(s)
    PROVE  Holds(Elements, s)
<1>1. /\ Chain(0) = s /\ Len(s) \in Nat /\ DOMAIN s = 1 .. Len(s)
      /\ \A j \in 1 .. Len(s) : s[j] \in Nodes /\ key[s[j]] \in Keys /\ item[s[j]] \in Items \cup {NULL}
  BY ChainIs, SortedIs DEF Shape, Sorted, TypeOK
<1> DEFINE L == [j \in 1 .. Len(s) |-> Entry(s[j], key[s[j]], item[s[j]])]
<1>2. Elements = L
  <2>1. Elements = [j \in DOMAIN s |-> [node |-> s[j], key |-> key[s[j]], item |-> item[s[j]]]]
    BY <1>1, Zenon DEF Elements
  <2> QED BY <1>1, <2>1, Zenon DEF Entry
<1>3. L \in [1 .. Len(s) -> Entries]
  BY <1>1, EntryIs
<1>4. \A j \in 1 .. Len(s) : L[j] = Entry(s[j], key[s[j]], item[s[j]])
  OBVIOUS
<1>5. L \in Seq(Entries) /\ Len(L) = Len(s)
  <2> HIDE DEF L
  <2> QED BY <1>1, <1>3
<1> QED BY <1>2, <1>4, <1>5 DEF Holds

(* The same of the state after a step.                                       *)
LEMMA ElementsAfter == \A s : Remains(s) => Holds(Elements, s)'
<1>1. \A s : TypeOK /\ Shape(s) => Holds(Elements, s)
  BY ElementsAre
<1>2. (\A s : TypeOK /\ Shape(s) => Holds(Elements, s))'
  BY <1>1, PTL
<1> QED BY <1>2 DEF Remains

-----------------------------------------------------------------------------
(* Every call is a call of the ordered list                                 *)

(* The places of a key and the members, in the two lists.                    *)
LEMMA PlacesAre ==
    ASSUME NEW s, Holds(Elements, s), Len(s) \in Nat, NEW k
    PROVE  /\ DOMAIN Elements = 1 .. Len(s) /\ Len(Elements) = Len(s)
           /\ Ordered!Places(k) = {j \in 1 .. Len(s) : key[s[j]] = k}
           /\ Ordered!Members = {s[j] : j \in 1 .. Len(s)}
           /\ \A j \in 1 .. Len(s) : /\ Elements[j].node = s[j] /\ Elements[j].key = key[s[j]]
                                     /\ Elements[j].item = item[s[j]]
<1>1. /\ DOMAIN Elements = 1 .. Len(s) /\ Len(Elements) = Len(s)
      /\ \A j \in 1 .. Len(s) : Elements[j] = Entry(s[j], key[s[j]], item[s[j]])
  BY DEF Holds
<1>2. \A j \in 1 .. Len(s) : /\ Elements[j].node = s[j] /\ Elements[j].key = key[s[j]]
                             /\ Elements[j].item = item[s[j]]
  <2> SUFFICES ASSUME NEW j \in 1 .. Len(s)
               PROVE  /\ Elements[j].node = s[j] /\ Elements[j].key = key[s[j]]
                      /\ Elements[j].item = item[s[j]]
    OBVIOUS
  <2>1. Elements[j] = Entry(s[j], key[s[j]], item[s[j]])
    BY <1>1
  <2> QED BY <2>1, EntryIs
<1>3. Ordered!Places(k) = {j \in 1 .. Len(s) : key[s[j]] = k}
  BY <1>1, <1>2 DEF Ordered!Places
<1>4. Ordered!Members = {s[j] : j \in 1 .. Len(s)}
  BY <1>1, <1>2 DEF Ordered!Members
<1> QED BY <1>1, <1>2, <1>3, <1>4

(* The node is not in the list when its arrays have no length.               *)
LEMMA Outside ==
    ASSUME TypeOK, NEW s, Shape(s), NEW n \in Nodes, sz[n] = 0
    PROVE  n \notin Ordered!Members
<1>1. Len(s) \in Nat /\ Holds(Elements, s)
  BY SortedIs, ElementsAre DEF Shape
<1>2. Ordered!Members = {s[j] : j \in 1 .. Len(s)}
  BY <1>1, PlacesAre
<1> QED BY <1>2 DEF Shape, Sorted

(* The path finds the first place of the key, when it has one.               *)
LEMMA Finds ==
    ASSUME TypeOK, NEW s, Shape(s), NEW k \in Keys, NEW m, m = Below(s, 0, k)
    PROVE  /\ m \in 0 .. Len(s)
           /\ Equal(Stop(k), k) <=> Ordered!Places(k) # {}
           /\ Equal(Stop(k), k) => /\ m + 1 \in 1 .. Len(s) /\ Stop(k) = s[m + 1]
                                   /\ Ordered!First(k, m + 1)
           /\ \A j \in 1 .. Len(s) : (j <= m => key[s[j]] < k) /\ (j > m => key[s[j]] >= k)
<1>1. /\ Sorted(s) /\ Len(s) \in Nat /\ 0 \in Levels /\ k \in Nat /\ Holds(Elements, s)
      /\ \A j \in 1 .. Len(s) : key[s[j]] \in Nat
      /\ \A p, q \in 1 .. Len(s) : p < q => key[s[p]] <= key[s[q]]
  BY SortedIs, ElementsAre DEF Shape, Sorted, Levels
<1>2. /\ m \in 0 .. Len(s) /\ Stop(k) = Cell(s, m + 1)
      /\ \A j \in 1 .. Len(s) : key[s[j]] < k <=> j <= m
  BY <1>1, BelowIs, StopIs
<1>3. Ordered!Places(k) = {j \in 1 .. Len(s) : key[s[j]] = k}
  BY <1>1, PlacesAre
<1>4. \A j \in 1 .. Len(s) : (j <= m => key[s[j]] < k) /\ (j > m => key[s[j]] >= k)
  BY <1>1, <1>2
<1>5. CASE m = Len(s)
  <2>1. ~Equal(Stop(k), k)
    BY <1>1, <1>2, <1>5, CellIs DEF Equal
  <2>2. Ordered!Places(k) = {}
    BY <1>1, <1>2, <1>3, <1>5
  <2> QED BY <1>2, <1>4, <2>1, <2>2
<1>6. CASE m # Len(s)
  <2>1. m + 1 \in 1 .. Len(s) /\ ~(m + 1 <= m)
    BY <1>1, <1>2, <1>6
  <2>2. Stop(k) = s[m + 1] /\ Stop(k) # NIL
    BY <1>1, <1>2, <2>1, CellIs
  <2>3. Equal(Stop(k), k) <=> key[s[m + 1]] = k
    BY <2>2 DEF Equal
  <2>4. ASSUME NEW j \in 1 .. Len(s), key[s[j]] = k
        PROVE  m + 1 <= j /\ key[s[m + 1]] = k
    <3>1. ~(j <= m)
      BY <1>1, <1>2, <2>4
    <3>2. m + 1 <= j
      BY <1>1, <1>2, <3>1
    <3>3. key[s[m + 1]] <= k /\ ~(key[s[m + 1]] < k) /\ key[s[m + 1]] \in Nat
      <4>1. m + 1 = j \/ m + 1 < j
        BY <1>1, <2>1, <3>2
      <4> QED BY <1>1, <1>2, <2>1, <2>4, <4>1
    <3> QED BY <1>1, <3>2, <3>3
  <2>5. Equal(Stop(k), k) <=> Ordered!Places(k) # {}
    BY <1>3, <2>1, <2>3, <2>4
  <2>6. Equal(Stop(k), k) => Ordered!First(k, m + 1)
    BY <1>3, <2>1, <2>3, <2>4 DEF Ordered!First
  <2> QED BY <1>2, <1>4, <2>1, <2>2, <2>5, <2>6
<1> QED BY <1>5, <1>6

(* The elements do not change when the list does not.                        *)
LEMMA SameElements ==
    ASSUME TypeOK, NEW s, Shape(s), UNCHANGED list
    PROVE  UNCHANGED Elements
<1>1. Holds(Elements, s) /\ Holds(Elements, s)'
  BY ElementsAre, UnmovedRemains, ElementsAfter
<1>2. key' = key /\ item' = item
  BY DEF list
<1>3. Elements = [j \in 1 .. Len(s) |-> Entry(s[j], key[s[j]], item[s[j]])]
  BY <1>1, Zenon DEF Holds
<1>4. Elements' = [j \in 1 .. Len(s) |-> Entry(s[j], key'[s[j]], item'[s[j]])]
  BY <1>1, Zenon DEF Holds
<1> QED BY <1>2, <1>3, <1>4, Zenon

(* The element goes in front of the elements with its key.                   *)
LEMMA AddsMaps ==
    ASSUME TypeOK, NEW s, Shape(s), NEW op, NEW n \in Nodes, sz[n] = 0, NEW k \in Keys, NEW v \in Items,
           Adds(s, op, n, k, v)
    PROVE  Ordered!Add(op, n, k, v)
<1>1. CASE Exhausted(op, k)
  <2>1. reply' = [op |-> op, key |-> k, status |-> "MEM_EXHAUSTED"] /\ UNCHANGED Elements
    BY <1>1, SameElements DEF Exhausted, Answer
  <2> QED BY <2>1 DEF Ordered!Add, Ordered!Answer
<1>2. ASSUME NEW lev \in 1 .. MaxLevel, NEW update, PathTo(s, k, lev, update), Link(n, k, v, lev, update),
             Answer(op, k, "STATUS_OK")
      PROVE  Ordered!Add(op, n, k, v)
  <2>1. PICK m : m = Below(s, 0, k)
    OBVIOUS
  <2> DEFINE t == Grow(s, m, n)
             L == Elements
             M == Elements'
             e == Entry(n, k, v)
  <2>2. /\ Len(s) \in Nat /\ s \in Seq(Nodes) /\ Holds(L, s) /\ m \in 0 .. Len(s)
        /\ \A j \in 1 .. Len(s) : (j <= m => key[s[j]] < k) /\ (j > m => key[s[j]] >= k)
        /\ \A j \in 1 .. Len(s) : s[j] \in Nodes /\ s[j] # n
    <3>1. Sorted(s)
      BY DEF Shape
    <3>2. \A j \in 1 .. Len(s) : s[j] \in Nodes /\ s[j] # n
      BY <3>1, SortedIs DEF Sorted
    <3> QED BY <2>1, <3>1, <3>2, SortedIs, ElementsAre, Finds DEF Sorted
  <2>3. Holds(Elements, t)'
    BY <1>2, <2>1, InsertedRemains, ElementsAfter
  <2>4. /\ Len(t) = Len(s) + 1
        /\ t = [j \in 1 .. Len(s) + 1 |-> IF j <= m THEN s[j] ELSE IF j = m + 1 THEN n ELSE s[j - 1]]
    BY <2>2, GrowIs DEF Grew, Grow
  <2> HIDE DEF t
  <2>5. M = [j \in 1 .. Len(s) + 1 |-> Entry(t[j], key'[t[j]], item'[t[j]])]
    BY <2>3, <2>4, Zenon DEF Holds
  <2>6. /\ key'[n] = k /\ item'[n] = v
        /\ \A c \in Nodes : c # n => key'[c] = key[c] /\ item'[c] = item[c]
    BY <1>2 DEF Link, TypeOK
  <2>7. /\ L \in Seq(Entries) /\ Len(L) = Len(s)
        /\ \A j \in 1 .. Len(s) : L[j] = Entry(s[j], key[s[j]], item[s[j]])
    BY <2>2, Zenon DEF Holds
  <2>8. e \in Entries
    BY EntryIs
  <2> HIDE DEF L, M, e
  <2>9. Spliced(L, e, m)
          = [j \in 1 .. Len(s) + 1 |-> IF j <= m THEN L[j] ELSE IF j = m + 1 THEN e ELSE L[j - 1]]
    <3>1. m \in 0 .. Len(L)
      BY <2>2, <2>7
    <3>2. L \in Seq(Entries) /\ e \in Entries
      BY <2>7, <2>8
    <3>3. Spliced(L, e, m) = With(L, e, m)
      BY <3>1, <3>2, InsertAt, Zenon
    <3> QED BY <2>7, <3>3, Zenon DEF With
  <2>10. ASSUME NEW j \in 1 .. Len(s) + 1
         PROVE  Entry(t[j], key'[t[j]], item'[t[j]])
                  = IF j <= m THEN L[j] ELSE IF j = m + 1 THEN e ELSE L[j - 1]
    <3>1. CASE j <= m
      <4>1. j \in 1 .. Len(s) /\ t[j] = s[j]
        BY <2>2, <2>4, <3>1
      <4>2. key'[s[j]] = key[s[j]] /\ item'[s[j]] = item[s[j]]
        BY <2>2, <2>6, <4>1
      <4> QED BY <2>7, <3>1, <4>1, <4>2, Zenon
    <3>2. CASE j = m + 1
      <4>1. t[j] = n /\ ~(j <= m)
        BY <2>2, <2>4, <3>2
      <4> QED BY <2>6, <3>2, <4>1, Zenon DEF e
    <3>3. CASE j > m + 1
      <4>1. j - 1 \in 1 .. Len(s) /\ ~(j <= m) /\ j # m + 1
        BY <2>2, <3>3
      <4>2. t[j] = s[j - 1]
        BY <2>4, <4>1
      <4>3. key'[s[j - 1]] = key[s[j - 1]] /\ item'[s[j - 1]] = item[s[j - 1]]
        BY <2>2, <2>6, <4>1
      <4> QED BY <2>7, <4>1, <4>2, <4>3, Zenon
    <3> QED BY <2>2, <3>1, <3>2, <3>3
  <2>11. M = Spliced(L, e, m)
    BY <2>5, <2>9, <2>10, Zenon
  <2>12. /\ \A j \in 1 .. m : Elements[j].key < k
         /\ \A j \in m + 1 .. Len(Elements) : Elements[j].key >= k
         /\ m \in 0 .. Len(Elements)
    <3>1. Len(Elements) = Len(s) /\ \A j \in 1 .. Len(s) : Elements[j].key = key[s[j]]
      BY <2>2, PlacesAre DEF L
    <3> QED BY <2>2, <3>1
  <2>13. Elements' = SubSeq(Elements, 1, m) \o <<[node |-> n, key |-> k, item |-> v]>>
                       \o SubSeq(Elements, m + 1, Len(Elements))
    BY <2>11, Zenon DEF L, M, e, Entry, Spliced
  <2>14. reply' = [op |-> op, key |-> k, status |-> "STATUS_OK"]
    BY <1>2 DEF Answer
  <2> QED BY <2>12, <2>13, <2>14, Zenon DEF Ordered!Add, Ordered!Answer
<1> QED BY <1>1, <1>2 DEF Adds

(* MySKLinsertAD.                                                            *)
LEMMA InsertADMaps ==
    ASSUME TypeOK, NEW s, Shape(s), NEW n \in Nodes, NEW k \in Keys, NEW v \in Items, InsertAD(n, k, v)
    PROVE  Ordered!InsertAD(n, k, v)
<1>1. sz[n] = 0 /\ InsertPlain("insertAD", n, k, v)
  BY DEF InsertAD
<1>2. Ordered!Add("insertAD", n, k, v)
  BY <1>1, InsertPlainLinks, AddsMaps
<1> QED BY <1>1, <1>2, Outside DEF Ordered!InsertAD

(* MySKLinsertND.                                                            *)
LEMMA InsertNDMaps ==
    ASSUME TypeOK, NEW s, Shape(s), NEW n \in Nodes, NEW k \in Keys, NEW v \in Items, InsertND(n, k, v)
    PROVE  Ordered!InsertND(n, k, v)
<1>1. sz[n] = 0 /\ n \notin Ordered!Members
  BY Outside DEF InsertND
<1>2. Equal(Stop(k), k) <=> Ordered!Places(k) # {}
  BY Finds
<1>3. CASE Equal(Stop(k), k)
  <2>1. reply' = [op |-> "insertND", key |-> k, status |-> "DUPLICATE_KEY"] /\ UNCHANGED list
    BY <1>3 DEF InsertND, Answer
  <2>2. UNCHANGED Elements
    BY <2>1, SameElements
  <2> QED BY <1>1, <1>2, <1>3, <2>1, <2>2 DEF Ordered!InsertND, Ordered!Answer
<1>4. CASE ~Equal(Stop(k), k)
  <2>1. Ordered!Add("insertND", n, k, v)
    BY <1>1, <1>4, AddNodeLinks, AddsMaps DEF InsertND
  <2> QED BY <1>1, <1>2, <1>4, <2>1 DEF Ordered!InsertND
<1> QED BY <1>3, <1>4

(* The elements after an update of the nodes of S.                           *)
LEMMA OverwriteElements ==
    ASSUME TypeOK, NEW s, Shape(s), NEW op, NEW k, NEW v \in Items, NEW S, Overwrite(op, k, v, S)
    PROVE  /\ Elements' = [j \in DOMAIN Elements |->
                             IF s[j] \in S THEN [Elements[j] EXCEPT !.item = v] ELSE Elements[j]]
           /\ reply' = [op |-> op, key |-> k, status |-> "STATUS_OK"]
<1> DEFINE M == Elements'
           L == Elements
<1>1. Len(s) \in Nat /\ Holds(Elements, s) /\ \A j \in 1 .. Len(s) : s[j] \in Nodes
  BY SortedIs, ElementsAre DEF Shape
<1>2. Holds(Elements, s)'
  BY OverwriteRemains, ElementsAfter
<1>3. key' = key /\ \A c \in Nodes : item'[c] = IF c \in S THEN v ELSE item[c]
  BY DEF Overwrite
<1>4. M = [j \in 1 .. Len(s) |-> Entry(s[j], key'[s[j]], item'[s[j]])]
  BY <1>2, Zenon DEF Holds
<1>5. DOMAIN L = 1 .. Len(s) /\ \A j \in 1 .. Len(s) : L[j] = Entry(s[j], key[s[j]], item[s[j]])
  BY <1>1 DEF Holds
<1> HIDE DEF L, M
<1>6. ASSUME NEW j \in 1 .. Len(s)
      PROVE  Entry(s[j], key'[s[j]], item'[s[j]])
               = IF s[j] \in S THEN [L[j] EXCEPT !.item = v] ELSE L[j]
  <2>1. key'[s[j]] = key[s[j]] /\ L[j] = Entry(s[j], key[s[j]], item[s[j]])
    BY <1>3, <1>5
  <2>2. CASE s[j] \in S
    <3>1. item'[s[j]] = v
      BY <1>1, <1>3, <2>2
    <3>2. [Entry(s[j], key[s[j]], item[s[j]]) EXCEPT !.item = v] = Entry(s[j], key[s[j]], v)
      BY EntryIs
    <3> QED BY <2>1, <2>2, <3>1, <3>2, Zenon
  <2>3. CASE s[j] \notin S
    <3>1. item'[s[j]] = item[s[j]]
      BY <1>1, <1>3, <2>3
    <3> QED BY <2>1, <2>3, <3>1, Zenon
  <2> QED BY <2>2, <2>3
<1>7. M = [j \in DOMAIN L |-> IF s[j] \in S THEN [L[j] EXCEPT !.item = v] ELSE L[j]]
  BY <1>4, <1>5, <1>6, Zenon
<1> QED BY <1>7, Zenon DEF L, M, Overwrite, Answer

(* MySKLinsertUPD updates the first element with the key.                    *)
LEMMA InsertUPDMaps ==
    ASSUME TypeOK, NEW s, Shape(s), NEW n \in Nodes, NEW k \in Keys, NEW v \in Items, InsertUPD(n, k, v)
    PROVE  Ordered!InsertUPD(n, k, v)
<1>1. sz[n] = 0 /\ n \notin Ordered!Members
  BY Outside DEF InsertUPD
<1>2. PICK m : m = Below(s, 0, k)
  OBVIOUS
<1>3. /\ Equal(Stop(k), k) <=> Ordered!Places(k) # {}
      /\ Equal(Stop(k), k) => /\ m + 1 \in 1 .. Len(s) /\ Stop(k) = s[m + 1]
                              /\ Ordered!First(k, m + 1)
  BY <1>2, Finds
<1>4. CASE Equal(Stop(k), k)
  <2>1. Overwrite("insertUPD", k, v, {s[m + 1]})
    BY <1>3, <1>4 DEF InsertUPD
  <2>2. /\ Elements' = [j \in DOMAIN Elements |-> IF s[j] \in {s[m + 1]} THEN [Elements[j] EXCEPT !.item = v]
                                                  ELSE Elements[j]]
        /\ reply' = [op |-> "insertUPD", key |-> k, status |-> "STATUS_OK"]
    BY <2>1, OverwriteElements
  <2>3. /\ DOMAIN Elements = 1 .. Len(s) /\ m + 1 \in DOMAIN Elements
        /\ \A j \in 1 .. Len(s) : s[j] \in {s[m + 1]} <=> j = m + 1
    BY <1>3, <1>4, ElementsAre DEF Holds, Shape, Sorted
  <2> DEFINE L == Elements
             M == Elements'
  <2> DEFINE new(j) == [L[j] EXCEPT !.item = v]
  <2>4. M = [j \in DOMAIN L |-> IF s[j] \in {s[m + 1]} THEN new(j) ELSE L[j]]
    BY <2>2, Zenon
  <2>5. DOMAIN L = 1 .. Len(s)
    BY <2>3
  <2> HIDE DEF L, M, new
  <2>6. \A j \in DOMAIN L : (IF s[j] \in {s[m + 1]} THEN new(j) ELSE L[j]) = (IF j = m + 1 THEN new(j) ELSE L[j])
    <3> SUFFICES ASSUME NEW j \in DOMAIN L
                 PROVE  (IF s[j] \in {s[m + 1]} THEN new(j) ELSE L[j]) = (IF j = m + 1 THEN new(j) ELSE L[j])
      OBVIOUS
    <3>1. s[j] \in {s[m + 1]} <=> j = m + 1
      BY <2>3, <2>5
    <3> QED BY <3>1
  <2>7. M = [j \in DOMAIN L |-> IF j = m + 1 THEN new(j) ELSE L[j]]
    BY <2>4, <2>6, Zenon
  <2>8. M = [j \in DOMAIN L |-> IF j = m + 1 THEN [L[j] EXCEPT !.item = v] ELSE L[j]]
    BY <2>7, Zenon DEF new
  <2>9. M = [L EXCEPT ![m + 1].item = v]
    BY <2>8
  <2>10. Elements' = [Elements EXCEPT ![m + 1].item = v]
    BY <2>9 DEF L, M
  <2> QED BY <1>1, <1>3, <1>4, <2>2, <2>3, <2>10, Zenon DEF Ordered!InsertUPD, Ordered!Answer
<1>5. CASE ~Equal(Stop(k), k)
  <2>1. Ordered!Add("insertUPD", n, k, v)
    BY <1>1, <1>5, AddNodeLinks, AddsMaps DEF InsertUPD
  <2> QED BY <1>1, <1>3, <1>5, <2>1 DEF Ordered!InsertUPD
<1> QED BY <1>4, <1>5

(* The function by which Visited goes on.                                    *)
Visits(f, k, junk) ==
    f = [m \in Nodes |->
          {m} \cup IF /\ next[m][0] # NIL
                      /\ IF next[next[m][0]][0] = NIL THEN junk
                         ELSE Equal(next[next[m][0]][0], k)
                   THEN f[next[m][0]] ELSE {}]

(* Visited is a function of that kind, when there is one.                    *)
LEMMA VisitedIsSome ==
    ASSUME NEW n, NEW k, NEW junk, \E f : Visits(f, k, junk)
    PROVE  \E f : Visits(f, k, junk) /\ Visited(n, k, junk) = f[n]
BY Zenon DEF Visits, Visited

(* One turn of the loop: the next node is visited when the one after it      *)
(* compares equal.                                                           *)
GoesOn(s, k, p) == p + 2 \in 1 .. Len(s) /\ key[s[p + 2]] = k

(* The condition of the loop, by places.                                     *)
LEMMA VisitTurn ==
    ASSUME TypeOK, NEW s, Shape(s), NEW k \in Keys, NEW p \in 1 .. Len(s)
    PROVE  /\ next[s[p]][0] # NIL /\ (IF next[next[s[p]][0]][0] = NIL THEN FALSE
                                      ELSE Equal(next[next[s[p]][0]][0], k))
                <=> GoesOn(s, k, p)
           /\ GoesOn(s, k, p) => p + 1 \in 1 .. Len(s) /\ next[s[p]][0] = s[p + 1]
<1>1. Sorted(s) /\ Len(s) \in Nat
  BY SortedIs DEF Shape
<1>2. next[s[p]][0] = Cell(s, p + 1)
  <2>1. p \in 0 .. Len(s) /\ Cell(s, p) = s[p]
    BY <1>1, CellIs
  <2> QED BY <2>1, LevelZero
<1>3. CASE p = Len(s)
  BY <1>1, <1>2, <1>3, CellIs DEF GoesOn
<1>4. CASE p # Len(s)
  <2>1. p + 1 \in 1 .. Len(s) /\ p + 1 \in 0 .. Len(s) /\ (p + 1) + 1 = p + 2
    BY <1>1, <1>4
  <2>2. Cell(s, p + 1) = s[p + 1] /\ Cell(s, p + 1) # NIL
    BY <1>1, <2>1, CellIs
  <2>3. next[s[p + 1]][0] = Cell(s, p + 2)
    BY <2>1, <2>2, LevelZero
  <2>4. CASE p + 1 = Len(s)
    <3>1. Cell(s, p + 2) = NIL /\ ~GoesOn(s, k, p)
      BY <1>1, <2>1, <2>4, CellIs DEF GoesOn
    <3> QED BY <1>2, <2>1, <2>2, <2>3, <3>1
  <2>5. CASE p + 1 # Len(s)
    <3>1. p + 2 \in 1 .. Len(s)
      BY <1>1, <1>4, <2>5
    <3>2. Cell(s, p + 2) = s[p + 2] /\ Cell(s, p + 2) # NIL
      BY <1>1, <3>1, CellIs
    <3>3. GoesOn(s, k, p) <=> Equal(s[p + 2], k)
      BY <3>1, <3>2 DEF GoesOn, Equal
    <3> QED BY <1>2, <2>1, <2>2, <2>3, <3>2, <3>3
  <2> QED BY <2>4, <2>5
<1> QED BY <1>3, <1>4

(* There is one: from the end of the list backward.                          *)
LEMMA VisitsExist ==
    ASSUME TypeOK, NEW s, Shape(s), NEW k \in Keys
    PROVE  \E f : Visits(f, k, FALSE)
<1>1. /\ Sorted(s) /\ Len(s) \in Nat /\ \A p \in 1 .. Len(s) : s[p] \in Nodes
      /\ \A p \in 1 .. Len(s) : Cell(s, p) = s[p] /\ p \in 0 .. Len(s)
      /\ \A c \in Nodes : c \in Cells /\ c # NIL
  BY SortedIs, CellIs DEF Shape, Cells
<1> DEFINE Run(p) == {r \in p .. Len(s) : \A q \in p + 1 .. r : q + 1 \in 1 .. Len(s) /\ key[s[q + 1]] = k}
           V == [p \in 0 .. Len(s) |-> {s[r] : r \in Run(p)}]
           W == [c \in Cells |-> {c}]
<1>2. PICK f : Placed(f, s, V, W)
  <2> HIDE DEF V, W
  <2> QED BY <1>1, ByPlace
<1> DEFINE g == [c \in Nodes |-> f[c]]
<1>3. /\ \A p \in 0 .. Len(s) : f[Cell(s, p)] = V[p]
      /\ \A c \in Cells : (\A p \in 0 .. Len(s) : c # Cell(s, p)) => f[c] = W[c]
  <2> HIDE DEF V, W
  <2> QED BY <1>2, Zenon DEF Placed
<1>4. \A p \in 1 .. Len(s) : g[s[p]] = {s[r] : r \in Run(p)}
  <2> SUFFICES ASSUME NEW p \in 1 .. Len(s) PROVE g[s[p]] = {s[r] : r \in Run(p)}
    OBVIOUS
  <2>1. f[s[p]] = V[p] /\ s[p] \in Nodes /\ p \in 0 .. Len(s)
    <3> HIDE DEF V
    <3> QED BY <1>1, <1>3
  <2> QED BY <2>1, Zenon
<1>5. \A c \in Nodes : (\A p \in 0 .. Len(s) : c # Cell(s, p)) => g[c] = {c}
  <2> HIDE DEF V
  <2> QED BY <1>1, <1>3
<1>6. ASSUME NEW p \in 1 .. Len(s)
      PROVE  {s[r] : r \in Run(p)}
               = {s[p]} \cup IF GoesOn(s, k, p) THEN {s[r] : r \in Run(p + 1)} ELSE {}
  <2>1. p \in Run(p)
    BY <1>1
  <2>2. CASE GoesOn(s, k, p)
    <3>1. \A r \in Run(p) : r = p \/ r \in Run(p + 1)
      BY <1>1
    <3>2. \A r \in Run(p + 1) : r \in Run(p)
      <4> SUFFICES ASSUME NEW r \in Run(p + 1), NEW q \in p + 1 .. r
                   PROVE  r \in p .. Len(s) /\ q + 1 \in 1 .. Len(s) /\ key[s[q + 1]] = k
        BY <1>1
      <4>1. CASE q = p + 1
        <5>1. q + 1 = p + 2
          BY <4>1
        <5> QED BY <1>1, <2>2, <5>1 DEF GoesOn
      <4>2. CASE q # p + 1
        <5>1. q \in (p + 1) + 1 .. r
          BY <1>1, <4>2
        <5> QED BY <1>1, <5>1
      <4> QED BY <4>1, <4>2
    <3> HIDE DEF Run
    <3> QED BY <2>1, <2>2, <3>1, <3>2
  <2>3. CASE ~GoesOn(s, k, p)
    <3>1. \A r \in Run(p) : r = p
      <4> SUFFICES ASSUME NEW r \in Run(p), r # p PROVE FALSE
        OBVIOUS
      <4>1. p + 1 \in p + 1 .. r /\ (p + 1) + 1 = p + 2
        BY <1>1
      <4>2. p + 2 \in 1 .. Len(s) /\ key[s[p + 2]] = k
        BY <4>1
      <4> QED BY <2>3, <4>2 DEF GoesOn
    <3> HIDE DEF Run
    <3> QED BY <2>1, <2>3, <3>1
  <2> QED BY <2>2, <2>3
<1> HIDE DEF g
<1>7. ASSUME NEW c \in Nodes
      PROVE  g[c] = {c} \cup IF /\ next[c][0] # NIL
                                /\ IF next[next[c][0]][0] = NIL THEN FALSE
                                   ELSE Equal(next[next[c][0]][0], k)
                             THEN g[next[c][0]] ELSE {}
  <2>1. CASE \E p \in 0 .. Len(s) : c = Cell(s, p)
    <3>1. PICK p \in 1 .. Len(s) : c = s[p]
      BY <1>1, <2>1 DEF Cell
    <3>2. CASE GoesOn(s, k, p)
      <4>1. /\ next[c][0] # NIL /\ (IF next[next[c][0]][0] = NIL THEN FALSE
                                    ELSE Equal(next[next[c][0]][0], k))
            /\ p + 1 \in 1 .. Len(s) /\ next[c][0] = s[p + 1]
        BY <3>1, <3>2, VisitTurn
      <4>2. g[c] = {c} \cup g[s[p + 1]]
        <5> HIDE DEF Run
        <5> QED BY <1>4, <1>6, <3>1, <3>2, <4>1
      <4> QED BY <4>1, <4>2
    <3>3. CASE ~GoesOn(s, k, p)
      <4>1. ~(next[c][0] # NIL /\ (IF next[next[c][0]][0] = NIL THEN FALSE
                                   ELSE Equal(next[next[c][0]][0], k)))
        BY <3>1, <3>3, VisitTurn
      <4>2. g[c] = {c} \cup {}
        <5> HIDE DEF Run
        <5> QED BY <1>4, <1>6, <3>1, <3>3
      <4> QED BY <4>1, <4>2, Zenon
    <3> QED BY <3>2, <3>3
  <2>2. CASE \A p \in 0 .. Len(s) : c # Cell(s, p)
    <3>1. next[c][0] = NIL
      BY <1>1, <2>2, LevelZero
    <3> QED BY <1>5, <2>2, <3>1
  <2> QED BY <2>1, <2>2
<1>8. g = [c \in Nodes |-> g[c]]
  BY DEF g
<1>9. Visits(g, k, FALSE)
  BY <1>7, <1>8, Zenon DEF Visits
<1> QED BY <1>9

(* Without a wrong answer about the header, only nodes with the key are      *)
(* visited, the first one included.                                          *)
OnlyEqual(R, s, k, a) == s[a] \in R /\ \A c \in R : \E j \in 1 .. Len(s) : c = s[j] /\ key[s[j]] = k

(* By the greatest place from which another node is visited.                 *)
LEMMA VisitedIs ==
    ASSUME TypeOK, NEW s, Shape(s), NEW k \in Keys, NEW a \in 1 .. Len(s), key[s[a]] = k
    PROVE  OnlyEqual(Visited(s[a], k, FALSE), s, k, a)
<1>1. PICK f : Visits(f, k, FALSE) /\ Visited(s[a], k, FALSE) = f[s[a]]
  BY VisitsExist, VisitedIsSome
<1>2. /\ Sorted(s) /\ Len(s) \in Nat /\ k \in Nat
      /\ \A p \in 1 .. Len(s) : s[p] \in Nodes /\ key[s[p]] \in Nat
  BY SortedIs DEF Shape
<1>3. \A m \in Nodes : f[m] = {m} \cup IF /\ next[m][0] # NIL
                                          /\ IF next[next[m][0]][0] = NIL THEN FALSE
                                             ELSE Equal(next[next[m][0]][0], k)
                                       THEN f[next[m][0]] ELSE {}
  BY <1>1 DEF Visits
<1>4. ASSUME NEW p \in 1 .. Len(s)
      PROVE  f[s[p]] = {s[p]} \cup IF GoesOn(s, k, p) THEN f[s[p + 1]] ELSE {}
  <2>1. CASE GoesOn(s, k, p)
    BY <1>2, <1>3, <2>1, VisitTurn
  <2>2. CASE ~GoesOn(s, k, p)
    BY <1>2, <1>3, <2>2, VisitTurn
  <2> QED BY <2>1, <2>2
<1> DEFINE equals == {s[j] : j \in {j \in 1 .. Len(s) : key[s[j]] = k}}
           fails == {p \in 1 .. Len(s) : key[s[p]] = k /\ ~(f[s[p]] \subseteq equals)}
<1>5. ASSUME fails # {}
      PROVE  FALSE
  <2>1. PICK p \in fails : \A q \in fails : q <= p
    <3>1. fails \in SUBSET (0 .. Len(s))
      OBVIOUS
    <3> HIDE DEF fails
    <3> QED BY <1>2, <1>5, <3>1, GreatestNumber
  <2>2. p \in 1 .. Len(s) /\ key[s[p]] = k /\ s[p] \in equals
    BY <2>1
  <2>3. CASE GoesOn(s, k, p)
    <3>1. p + 1 \in 1 .. Len(s) /\ p + 2 \in 1 .. Len(s) /\ key[s[p + 2]] = k
      BY <2>2, <2>3, VisitTurn DEF GoesOn
    <3>2. key[s[p]] <= key[s[p + 1]] /\ key[s[p + 1]] <= key[s[p + 2]]
      BY <1>2, <2>2, <3>1 DEF Sorted
    <3>3. key[s[p + 1]] = k
      BY <1>2, <2>2, <3>1, <3>2
    <3>4. p + 1 \notin fails
      <4> HIDE DEF fails
      <4>1. p \in Nat /\ \A q \in fails : q <= p
        BY <2>1, <2>2
      <4> QED BY <4>1
    <3>5. f[s[p + 1]] \subseteq equals
      BY <3>1, <3>3, <3>4
    <3>6. f[s[p]] \subseteq equals
      <4> HIDE DEF equals
      <4> QED BY <1>4, <2>2, <2>3, <3>5
    <3> QED BY <2>1, <3>6
  <2>4. CASE ~GoesOn(s, k, p)
    <3>1. f[s[p]] \subseteq equals
      <4> HIDE DEF equals
      <4> QED BY <1>4, <2>2, <2>4
    <3> QED BY <2>1, <3>1
  <2> QED BY <2>3, <2>4
<1>6. f[s[a]] \subseteq equals
  BY <1>5
<1>7. s[a] \in f[s[a]]
  BY <1>4
<1>8. OnlyEqual(f[s[a]], s, k, a)
  BY <1>6, <1>7 DEF OnlyEqual
<1> QED BY <1>1, <1>8, Zenon

(* MySKLinsertUPD_ALL updates some of the elements with the key, and no      *)
(* other.                                                                    *)
LEMMA InsertUPD_ALLMaps ==
    ASSUME TypeOK, HeaderAnswers \subseteq {FALSE}, NEW s, Shape(s),
           NEW n \in Nodes, NEW k \in Keys, NEW v \in Items, InsertUPD_ALL(n, k, v)
    PROVE  Ordered!InsertUPD_ALL(n, k, v)
<1>1. sz[n] = 0 /\ n \notin Ordered!Members
  BY Outside DEF InsertUPD_ALL
<1>2. PICK m : m = Below(s, 0, k)
  OBVIOUS
<1>3. /\ Equal(Stop(k), k) <=> Ordered!Places(k) # {}
      /\ Equal(Stop(k), k) => m + 1 \in 1 .. Len(s) /\ Stop(k) = s[m + 1]
  BY <1>2, Finds
<1>4. CASE Equal(Stop(k), k)
  <2>1. Overwrite("insertUPD_ALL", k, v, Visited(s[m + 1], k, FALSE))
    BY <1>3, <1>4 DEF InsertUPD_ALL
  <2>2. m + 1 \in 1 .. Len(s) /\ key[s[m + 1]] = k
    BY <1>3, <1>4 DEF Equal
  <2> DEFINE R == Visited(s[m + 1], k, FALSE)
             S == {j \in DOMAIN Elements : s[j] \in R}
  <2>3. s[m + 1] \in R /\ \A c \in R : \E j \in 1 .. Len(s) : c = s[j] /\ key[s[j]] = k
    <3>1. PICK a \in 1 .. Len(s) : a = m + 1
      BY <2>2
    <3>2. key[s[a]] = k
      BY <2>2, <3>1
    <3>3. OnlyEqual(Visited(s[a], k, FALSE), s, k, a)
      BY <3>2, VisitedIs, Zenon
    <3>4. OnlyEqual(R, s, k, m + 1)
      BY <3>1, <3>3, Zenon
    <3> HIDE DEF R
    <3> QED BY <3>4 DEF OnlyEqual
  <2> HIDE DEF R
  <2>4. /\ DOMAIN Elements = 1 .. Len(s)
        /\ Ordered!Places(k) = {j \in 1 .. Len(s) : key[s[j]] = k}
    <3>1. Holds(Elements, s) /\ Len(s) \in Nat
      BY ElementsAre, SortedIs DEF Shape
    <3> QED BY <3>1, PlacesAre
  <2>5. S \in (SUBSET Ordered!Places(k)) \ {{}}
    <3>1. m + 1 \in S
      BY <2>2, <2>3, <2>4
    <3>2. ASSUME NEW j \in S
          PROVE  j \in Ordered!Places(k)
      BY <2>3, <2>4, <3>2
    <3> HIDE DEF S
    <3> QED BY <3>1, <3>2
  <2>6. /\ Elements' = [j \in DOMAIN Elements |-> IF s[j] \in R THEN [Elements[j] EXCEPT !.item = v]
                                                  ELSE Elements[j]]
        /\ reply' = [op |-> "insertUPD_ALL", key |-> k, status |-> "STATUS_OK"]
    BY <2>1, OverwriteElements DEF R
  <2> DEFINE L == Elements
             M == Elements'
             new(j) == [L[j] EXCEPT !.item = v]
  <2>7. M = [j \in DOMAIN L |-> IF s[j] \in R THEN new(j) ELSE L[j]]
    BY <2>6, Zenon
  <2>8. \A j \in DOMAIN L : s[j] \in R <=> j \in S
    OBVIOUS
  <2> HIDE DEF L, M, new, S
  <2>9. \A j \in DOMAIN L : (IF s[j] \in R THEN new(j) ELSE L[j]) = (IF j \in S THEN new(j) ELSE L[j])
    <3> SUFFICES ASSUME NEW j \in DOMAIN L
                 PROVE  (IF s[j] \in R THEN new(j) ELSE L[j]) = (IF j \in S THEN new(j) ELSE L[j])
      OBVIOUS
    <3>1. s[j] \in R <=> j \in S
      BY <2>8
    <3> QED BY <3>1
  <2>10. M = [j \in DOMAIN L |-> IF j \in S THEN new(j) ELSE L[j]]
    BY <2>7, <2>9, Zenon
  <2>11. Elements' = [j \in DOMAIN Elements |-> IF j \in S THEN [Elements[j] EXCEPT !.item = v] ELSE Elements[j]]
    BY <2>10, Zenon DEF L, M, new
  <2> QED BY <1>1, <1>3, <1>4, <2>5, <2>6, <2>11, Zenon DEF Ordered!InsertUPD_ALL, Ordered!Answer
<1>5. CASE ~Equal(Stop(k), k)
  <2>1. Ordered!Add("insertUPD_ALL", n, k, v)
    BY <1>1, <1>5, AddNodeLinks, AddsMaps DEF InsertUPD_ALL
  <2> QED BY <1>1, <1>3, <1>5, <2>1 DEF Ordered!InsertUPD_ALL
<1> QED BY <1>4, <1>5

(* The first element with the key leaves, or there is none.                  *)
LEMMA DeleteMaps ==
    ASSUME TypeOK, NEW s, Shape(s), NEW op, NEW k \in Keys, DeleteI(op, k)
    PROVE  Ordered!Delete(op, k)
<1>1. PICK m : m = Below(s, 0, k)
  OBVIOUS
<1>2. /\ Equal(Stop(k), k) <=> Ordered!Places(k) # {}
      /\ Equal(Stop(k), k) => /\ m + 1 \in 1 .. Len(s) /\ Stop(k) = s[m + 1]
                              /\ Ordered!First(k, m + 1)
  BY <1>1, Finds
<1>3. Len(s) \in Nat /\ s \in Seq(Nodes) /\ Holds(Elements, s) /\ nodenum = Len(s) /\ Sorted(s)
  BY SortedIs, ElementsAre DEF Shape, Sorted, Counted
<1>4. CASE nodenum # 0 /\ Equal(Stop(k), k)
  <2>1. Unlink(Stop(k), Path(curlevel, k)) /\ reply' = [op |-> op, key |-> k, status |-> "STATUS_OK"]
    BY <1>4 DEF DeleteI, Answer
  <2>2. Remains(Shrink(s, m))
    BY <1>1, <1>4, <2>1, UnlinkKeeps DEF Remains
  <2> DEFINE t == Shrink(s, m)
             L == Elements
             M == Elements'
  <2>3. Holds(Elements, t)'
    BY <2>2, ElementsAfter
  <2>4. m \in 0 .. Len(s) - 1 /\ m + 1 \in 1 .. Len(s)
    <3>1. m \in 0 .. Len(s)
      BY <1>1, Finds
    <3> QED BY <1>2, <1>3, <1>4, <3>1
  <2>5. Len(t) = Len(s) - 1 /\ \A p \in 1 .. Len(s) - 1 : t[p] = s[Up(m, p)]
    BY <1>3, <2>4, ShrinkIs
  <2> HIDE DEF t
  <2>6. M = [j \in 1 .. Len(s) - 1 |-> Entry(t[j], key'[t[j]], item'[t[j]])]
    BY <2>3, <2>5, Zenon DEF Holds
  <2>7. \A c \in Nodes : c # s[m + 1] => key'[c] = key[c] /\ item'[c] = item[c]
    BY <1>2, <1>4, <2>1 DEF Unlink, TypeOK
  <2>8. /\ L \in Seq(Entries) /\ Len(L) = Len(s) /\ DOMAIN L = 1 .. Len(s)
        /\ \A j \in 1 .. Len(s) : L[j] = Entry(s[j], key[s[j]], item[s[j]])
    BY <1>3 DEF Holds
  <2>9. \A p \in 1 .. Len(s) : s[p] \in Nodes /\ (p # m + 1 => s[p] # s[m + 1])
    BY <1>3, <2>4, SortedIs DEF Sorted
  <2> HIDE DEF L, M
  <2>10. Cut(L, m + 1) = [j \in 1 .. Len(s) - 1 |-> IF j <= (m + 1) - 1 THEN L[j] ELSE L[j + 1]]
    <3>1. m + 1 \in 1 .. Len(L) /\ L \in Seq(Entries)
      BY <2>4, <2>8
    <3>2. Cut(L, m + 1) = Without(L, m + 1)
      BY <3>1, RemoveAt, Zenon
    <3> QED BY <2>8, <3>2, Zenon DEF Without
  <2>11. ASSUME NEW j \in 1 .. Len(s) - 1
         PROVE  Entry(t[j], key'[t[j]], item'[t[j]]) = IF j <= (m + 1) - 1 THEN L[j] ELSE L[j + 1]
    <3>1. CASE j <= (m + 1) - 1
      <4>1. j \in 1 .. Len(s) /\ j # m + 1 /\ Up(m, j) = j
        BY <1>3, <2>4, <3>1 DEF Up
      <4>2. t[j] = s[j] /\ key'[s[j]] = key[s[j]] /\ item'[s[j]] = item[s[j]]
        BY <2>5, <2>7, <2>9, <4>1
      <4> QED BY <2>8, <3>1, <4>1, <4>2, Zenon
    <3>2. CASE ~(j <= (m + 1) - 1)
      <4>1. j + 1 \in 1 .. Len(s) /\ j + 1 # m + 1 /\ Up(m, j) = j + 1
        BY <1>3, <2>4, <3>2 DEF Up
      <4>2. t[j] = s[j + 1] /\ key'[s[j + 1]] = key[s[j + 1]] /\ item'[s[j + 1]] = item[s[j + 1]]
        BY <2>5, <2>7, <2>9, <4>1
      <4> QED BY <2>8, <3>2, <4>1, <4>2, Zenon
    <3> QED BY <3>1, <3>2
  <2>12. M = Cut(L, m + 1)
    BY <2>6, <2>10, <2>11, Zenon
  <2>13. Elements' = SubSeq(Elements, 1, (m + 1) - 1) \o SubSeq(Elements, (m + 1) + 1, Len(Elements))
    BY <2>12, Zenon DEF L, M, Cut
  <2>14. m + 1 \in DOMAIN Elements
    BY <2>4, <2>8 DEF L
  <2> QED BY <1>2, <1>4, <2>1, <2>13, <2>14, Zenon DEF Ordered!Delete, Ordered!Answer
<1>5. CASE ~(nodenum # 0 /\ Equal(Stop(k), k))
  <2>1. reply' = [op |-> op, key |-> k, status |-> "KEY_NOT_FOUND"] /\ UNCHANGED list
    BY <1>5 DEF DeleteI, Answer
  <2>2. UNCHANGED Elements
    BY <2>1, SameElements
  <2>3. Ordered!Places(k) = {}
    <3>1. CASE nodenum = 0
      <4>1. Ordered!Places(k) = {j \in 1 .. Len(s) : key[s[j]] = k}
        BY <1>3, PlacesAre
      <4>2. 1 .. Len(s) = {}
        BY <1>3, <3>1
      <4> QED BY <4>1, <4>2
    <3>2. CASE ~Equal(Stop(k), k)
      BY <1>2, <3>2
    <3> QED BY <1>5, <3>1, <3>2
  <2> QED BY <2>1, <2>2, <2>3 DEF Ordered!Delete, Ordered!Answer
<1> QED BY <1>4, <1>5

(* MySKLdeleteAF.                                                            *)
LEMMA DeleteAFMaps ==
    ASSUME TypeOK, NEW s, Shape(s), NEW k \in Keys, DeleteAF(k)
    PROVE  Ordered!DeleteAF(k)
BY DeleteMaps DEF DeleteAF, Ordered!DeleteAF

(* MySKLdeleteNF, which dstdatafunc may stop.                                *)
LEMMA DeleteNFMaps ==
    ASSUME TypeOK, NEW s, Shape(s), NEW k \in Keys, DeleteNF(k)
    PROVE  Ordered!DeleteNF(k)
<1>1. CASE DeleteI("deleteNF", k)
  BY <1>1, DeleteMaps DEF Ordered!DeleteNF
<1>2. CASE /\ nodenum # 0 /\ Equal(Stop(k), k)
           /\ Answer("deleteNF", k, "NODE_NOT_DELETED")
           /\ UNCHANGED list
  <2>1. UNCHANGED Elements
    BY <1>2, SameElements
  <2>2. Ordered!Places(k) # {}
    BY <1>2, Finds
  <2>3. reply' = [op |-> "deleteNF", key |-> k, status |-> "NODE_NOT_DELETED"]
    BY <1>2 DEF Answer
  <2> QED BY <2>1, <2>2, <2>3 DEF Ordered!DeleteNF, Ordered!Answer
<1> QED BY <1>1, <1>2 DEF DeleteNF

(* The node a level finds is in the list.                                    *)
LEMMA FoundAt ==
    ASSUME TypeOK, NEW s, Shape(s), NEW k \in Keys, NEW i \in 0 .. curlevel - 1
    PROVE  \/ next[Path(curlevel, k)[i]][i] = NIL
           \/ \E j \in 1 .. Len(s) : next[Path(curlevel, k)[i]][i] = s[j]
<1>1. Sorted(s) /\ Len(s) \in Nat /\ curlevel \in 1 .. MaxLevel /\ i \in Levels
  <2>1. Sorted(s) /\ curlevel \in 1 .. MaxLevel
    BY DEF Shape, TypeOK
  <2>2. i \in Levels
    BY <2>1 DEF Levels
  <2> QED BY <2>1, <2>2, SortedIs
<1>2. PICK B \in 0 .. Len(s) : B = Below(s, i, k) /\ LastUnder(s, i, k, B)
  BY <1>1, BelowIs
<1>3. Path(curlevel, k)[i] = Cell(s, B)
  BY <1>1, <1>2, PathIs
<1>4. PICK q : Adjacent(s, i, B, q)
  BY <1>1, <1>2, NeighbourAhead DEF LastUnder
<1>5. next[Path(curlevel, k)[i]][i] = Cell(s, q)
  BY <1>1, <1>3, <1>4, LinksAre
<1> QED BY <1>5 DEF Cell

(* MySKLsearch answers with an element that has the key.                     *)
LEMMA SearchMaps ==
    ASSUME TypeOK, NEW s, Shape(s), NEW k \in Keys, Search(k)
    PROVE  Ordered!Search(k)
<1> DEFINE at(i) == next[Path(curlevel, k)[i]][i]
           hits == {i \in 0 .. curlevel - 1 : Equal(at(i), k)}
<1>1. /\ Len(s) \in Nat /\ curlevel \in 1 .. MaxLevel /\ nodenum = Len(s) /\ Holds(Elements, s)
  BY SortedIs, ElementsAre DEF Shape, TypeOK, Counted
<1>2. /\ DOMAIN Elements = 1 .. Len(s)
      /\ Ordered!Places(k) = {j \in 1 .. Len(s) : key[s[j]] = k}
      /\ \A j \in 1 .. Len(s) : Elements[j].node = s[j]
  BY <1>1, PlacesAre
<1>3. Equal(Stop(k), k) <=> Ordered!Places(k) # {}
  BY Finds
<1>4. at(0) = Stop(k) /\ 0 \in 0 .. curlevel - 1
  BY <1>1 DEF Stop
<1>5. ASSUME NEW i \in hits
      PROVE  \E j \in Ordered!Places(k) : at(i) = Elements[j].node
  <2>1. i \in 0 .. curlevel - 1 /\ at(i) # NIL /\ key[at(i)] = k
    BY DEF Equal
  <2>2. PICK j \in 1 .. Len(s) : at(i) = s[j]
    BY <2>1, FoundAt
  <2> QED BY <1>2, <2>1, <2>2
<1>6. UNCHANGED Elements
  BY SameElements DEF Search
<1>7. reply' = [op |-> "search", key |-> k, node |-> Found(k)]
  BY DEF Search
<1>8. Found(k) = IF nodenum = 0 \/ hits = {} THEN NULL ELSE at(CHOOSE i \in hits : \A j \in hits : j <= i)
  BY Zenon DEF Found
<1>9. CASE Ordered!Places(k) = {}
  <2>1. hits = {}
    <3> HIDE DEF hits
    <3> QED BY <1>5, <1>9
  <2>2. Found(k) = NULL
    BY <1>8, <2>1
  <2> QED BY <1>6, <1>7, <1>9, <2>2 DEF Ordered!Search
<1>10. CASE Ordered!Places(k) # {}
  <2>1. 0 \in hits
    BY <1>3, <1>4, <1>10
  <2>2. hits \in SUBSET (0 .. curlevel - 1) /\ curlevel - 1 \in Nat
    BY <1>1
  <2> DEFINE Best(i) == i \in hits /\ \A j \in hits : j <= i
             best == CHOOSE i \in hits : \A j \in hits : j <= i
  <2>3. best \in hits
    <3> HIDE DEF hits
    <3>1. \E i \in hits : \A j \in hits : j <= i
      BY <2>1, <2>2, GreatestNumber
    <3> QED BY <3>1
  <2>4. nodenum # 0
    BY <1>1, <1>2, <1>10
  <2>5. Found(k) = at(best)
    <3>1. hits # {}
      BY <2>1
    <3> HIDE DEF hits, at
    <3> QED BY <1>8, <2>4, <3>1
  <2> HIDE DEF hits, best, at
  <2>6. PICK j \in Ordered!Places(k) : at(best) = Elements[j].node
    BY <1>5, <2>3
  <2>7. Found(k) \in {Elements[i].node : i \in Ordered!Places(k)}
    BY <2>5, <2>6
  <2> QED BY <1>6, <1>7, <1>10, <2>7, Zenon DEF Ordered!Search
<1> QED BY <1>9, <1>10

(* The function by which searchAll walks through the range.                  *)
Afters(f, k) == f = [c \in Cells |-> IF Equal(next[c][0], k) THEN f[next[c][0]] ELSE next[c][0]]

(* The walk is such a function, when there is one.                           *)
LEMMA SearchALLIs ==
    ASSUME NEW k, SearchALL(k), \E f : Afters(f, k)
    PROVE  \E f : /\ Afters(f, k)
                  /\ reply' = IF nodenum # 0 /\ Equal(next[Advance(NIL, 0, k)][0], k)
                              THEN [op |-> "searchALL", key |-> k, first |-> next[Advance(NIL, 0, k)][0],
                                    term |-> f[next[Advance(NIL, 0, k)][0]]]
                              ELSE [op |-> "searchALL", key |-> k, first |-> NULL, term |-> NULL]
BY Zenon DEF Afters, SearchALL

(* Place e is the first one behind p that does not have the key.             *)
Ends(s, k, p, e) ==
    /\ e \in p + 1 .. Len(s) + 1
    /\ \A q \in p + 1 .. e - 1 : key[s[q]] = k
    /\ e # Len(s) + 1 => key[s[e]] # k

(* The range ends at one place, which is the same from all its places.       *)
LEMMA EndIs ==
    ASSUME TypeOK, NEW s, Shape(s), NEW k \in Keys, NEW p \in 0 .. Len(s)
    PROVE  /\ \E e : Ends(s, k, p, e)
           /\ \A e : Ends(s, k, p, e) => /\ e \in 1 .. Len(s) + 1
                                         /\ Equal(next[Cell(s, p)][0], k) => p + 1 \in 0 .. Len(s) /\ Ends(s, k, p + 1, e)
                                         /\ ~Equal(next[Cell(s, p)][0], k) => e = p + 1
           /\ next[Cell(s, p)][0] = Cell(s, p + 1)
           /\ \A d, e : Ends(s, k, p, d) /\ Ends(s, k, p, e) => d = e
<1>1. Sorted(s) /\ Len(s) \in Nat /\ p \in Nat
  BY SortedIs DEF Shape
<1>2. next[Cell(s, p)][0] = Cell(s, p + 1)
  BY LevelZero
<1>3. Equal(next[Cell(s, p)][0], k) <=> p + 1 \in 1 .. Len(s) /\ key[s[p + 1]] = k
  <2>1. CASE p = Len(s)
    BY <1>1, <1>2, <2>1, CellIs DEF Equal
  <2>2. CASE p # Len(s)
    <3>1. p + 1 \in 1 .. Len(s)
      BY <1>1, <2>2
    <3> QED BY <1>1, <1>2, <3>1, CellIs DEF Equal
  <2> QED BY <2>1, <2>2
<1> DEFINE S == {e \in p + 1 .. Len(s) + 1 : e # Len(s) + 1 => key[s[e]] # k}
<1>4. PICK e \in S : \A d \in S : e <= d
  <2>1. S \in SUBSET Nat /\ Len(s) + 1 \in S
    BY <1>1
  <2> HIDE DEF S
  <2> QED BY <2>1, LeastNumber
<1>5. Ends(s, k, p, e)
  <2>1. \A q \in p + 1 .. e - 1 : key[s[q]] = k
    BY <1>1, <1>4
  <2> QED BY <1>4, <2>1 DEF Ends
<1>6. ASSUME NEW d, Ends(s, k, p, d)
      PROVE  /\ d \in 1 .. Len(s) + 1
             /\ Equal(next[Cell(s, p)][0], k) => p + 1 \in 0 .. Len(s) /\ Ends(s, k, p + 1, d)
             /\ ~Equal(next[Cell(s, p)][0], k) => d = p + 1
  <2>1. CASE Equal(next[Cell(s, p)][0], k)
    <3>1. p + 1 \in 1 .. Len(s) /\ key[s[p + 1]] = k
      BY <1>3, <2>1
    <3> QED BY <1>1, <1>6, <2>1, <3>1 DEF Ends
  <2>2. CASE ~Equal(next[Cell(s, p)][0], k)
    BY <1>1, <1>3, <1>6, <2>2 DEF Ends
  <2> QED BY <2>1, <2>2
<1>7. ASSUME NEW d, NEW c, Ends(s, k, p, d), Ends(s, k, p, c)
      PROVE  d = c
  BY <1>1, <1>7 DEF Ends
<1> QED BY <1>2, <1>5, <1>6, <1>7

(* There is one: from each cell to the end of the range.                     *)
LEMMA AftersExist ==
    ASSUME TypeOK, NEW s, Shape(s), NEW k \in Keys
    PROVE  \E f : Afters(f, k)
<1>1. Sorted(s) /\ Len(s) \in Nat
  BY SortedIs DEF Shape
<1> DEFINE End(p) == CHOOSE e : Ends(s, k, p, e)
           V == [p \in 0 .. Len(s) |-> Cell(s, End(p))]
           W == [c \in Cells |-> NIL]
<1>2. PICK f : Placed(f, s, V, W)
  <2> HIDE DEF V, W
  <2> QED BY <1>1, ByPlace
<1>3. /\ f = [c \in Cells |-> f[c]]
      /\ \A p \in 0 .. Len(s) : f[Cell(s, p)] = V[p]
      /\ \A c \in Cells : (\A p \in 0 .. Len(s) : c # Cell(s, p)) => f[c] = W[c]
  <2> HIDE DEF V, W
  <2> QED BY <1>2, Zenon DEF Placed
<1>4. ASSUME NEW p \in 0 .. Len(s), NEW e, Ends(s, k, p, e)
      PROVE  f[Cell(s, p)] = Cell(s, e)
  <2>1. Ends(s, k, p, End(p))
    BY <1>4, Zenon
  <2>2. End(p) = e
    <3> HIDE DEF End
    <3> QED BY <1>4, <2>1, EndIs
  <2>3. f[Cell(s, p)] = Cell(s, End(p))
    <3> HIDE DEF End
    <3> QED BY <1>3
  <2> QED BY <2>2, <2>3
<1>5. \A c \in Cells : (\A p \in 0 .. Len(s) : c # Cell(s, p)) => f[c] = NIL
  <2> HIDE DEF V
  <2> QED BY <1>3
<1> HIDE DEF V, W, End
<1>6. ASSUME NEW c \in Cells
      PROVE  f[c] = IF Equal(next[c][0], k) THEN f[next[c][0]] ELSE next[c][0]
  <2>1. CASE \E p \in 0 .. Len(s) : c = Cell(s, p)
    <3>1. PICK p \in 0 .. Len(s) : c = Cell(s, p)
      BY <2>1
    <3>2. PICK e : Ends(s, k, p, e)
      BY EndIs
    <3>3. f[c] = Cell(s, e) /\ next[c][0] = Cell(s, p + 1)
      BY <1>4, <3>1, <3>2, EndIs
    <3>4. CASE Equal(next[c][0], k)
      <4>1. p + 1 \in 0 .. Len(s) /\ Ends(s, k, p + 1, e)
        BY <3>1, <3>2, <3>4, EndIs
      <4>2. f[Cell(s, p + 1)] = Cell(s, e)
        BY <1>4, <4>1
      <4> QED BY <3>3, <3>4, <4>2
    <3>5. CASE ~Equal(next[c][0], k)
      <4>1. e = p + 1
        BY <3>1, <3>2, <3>5, EndIs
      <4> QED BY <3>3, <3>5, <4>1
    <3> QED BY <3>4, <3>5
  <2>2. CASE \A p \in 0 .. Len(s) : c # Cell(s, p)
    <3>1. next[c][0] = NIL
      BY <2>2, LevelZero
    <3> QED BY <1>5, <2>2, <3>1 DEF Equal
  <2> QED BY <2>1, <2>2
<1>7. Afters(f, k)
  BY <1>3, <1>6, Zenon DEF Afters
<1> QED BY <1>7

(* And the walk of any such function ends there.                             *)
LEMMA AftersAre ==
    ASSUME TypeOK, NEW s, Shape(s), NEW k \in Keys, NEW f, Afters(f, k),
           NEW p \in 0 .. Len(s), NEW e, Ends(s, k, p, e)
    PROVE  f[Cell(s, p)] = Cell(s, e)
<1>1. /\ Sorted(s) /\ Len(s) \in Nat /\ \A q : Cell(s, q) \in Cells
      /\ \A c \in Cells : f[c] = IF Equal(next[c][0], k) THEN f[next[c][0]] ELSE next[c][0]
  BY SortedIs, CellIs DEF Shape, Afters
<1> DEFINE fails == {q \in 0 .. Len(s) : \E d : Ends(s, k, q, d) /\ f[Cell(s, q)] # Cell(s, d)}
<1>2. ASSUME fails # {}
      PROVE  FALSE
  <2>1. PICK q \in fails : \A r \in fails : r <= q
    <3>1. fails \in SUBSET (0 .. Len(s))
      OBVIOUS
    <3> HIDE DEF fails
    <3> QED BY <1>1, <1>2, <3>1, GreatestNumber
  <2>2. PICK d : Ends(s, k, q, d) /\ f[Cell(s, q)] # Cell(s, d)
    BY <2>1
  <2>3. q \in 0 .. Len(s) /\ next[Cell(s, q)][0] = Cell(s, q + 1)
    BY <2>1, LevelZero
  <2>4. CASE Equal(next[Cell(s, q)][0], k)
    <3>1. q + 1 \in 0 .. Len(s) /\ Ends(s, k, q + 1, d)
      BY <2>2, <2>3, <2>4, EndIs
    <3>2. q + 1 \notin fails
      <4>1. q \in Nat /\ \A r \in fails : r <= q
        BY <2>1
      <4> HIDE DEF fails
      <4> QED BY <4>1
    <3>3. f[Cell(s, q + 1)] = Cell(s, d)
      BY <3>1, <3>2
    <3> HIDE DEF fails
    <3> QED BY <1>1, <2>2, <2>3, <2>4, <3>3
  <2>5. CASE ~Equal(next[Cell(s, q)][0], k)
    <3>1. d = q + 1
      BY <2>2, <2>3, <2>5, EndIs
    <3> HIDE DEF fails
    <3> QED BY <1>1, <2>2, <2>3, <2>5, <3>1
  <2> QED BY <2>4, <2>5
<1> QED BY <1>2

(* MySKLsearchALL answers with the range of the elements that have the key.  *)
LEMMA SearchALLMaps ==
    ASSUME TypeOK, NEW s, Shape(s), NEW k \in Keys, SearchALL(k)
    PROVE  Ordered!SearchALL(k)
<1> DEFINE first == next[Advance(NIL, 0, k)][0]
<1>1. PICK m : m = Below(s, 0, k)
  OBVIOUS
<1>2. /\ Sorted(s) /\ Len(s) \in Nat /\ nodenum = Len(s) /\ Holds(Elements, s) /\ 0 \in Levels
      /\ k \in Nat /\ \A j \in 1 .. Len(s) : key[s[j]] \in Nat
      /\ \A a, b \in 1 .. Len(s) : a < b => key[s[a]] <= key[s[b]]
  <2>1. Sorted(s) /\ nodenum = Len(s) /\ Holds(Elements, s) /\ 0 \in Levels
    BY ElementsAre, ListAssumption DEF Shape, Counted, Levels
  <2>2. k \in Nat
    BY ListAssumption
  <2>3. \A a, b \in 1 .. Len(s) : a < b => key[s[a]] <= key[s[b]]
    BY <2>1 DEF Sorted
  <2>4. Len(s) \in Nat /\ \A j \in 1 .. Len(s) : key[s[j]] \in Nat
    BY <2>1, SortedIs
  <2> QED BY <2>1, <2>2, <2>3, <2>4
<1>3. /\ m \in 0 .. Len(s)
      /\ Equal(Stop(k), k) <=> Ordered!Places(k) # {}
      /\ Equal(Stop(k), k) => m + 1 \in 1 .. Len(s) /\ Stop(k) = s[m + 1]
      /\ \A j \in 1 .. Len(s) : (j <= m => key[s[j]] < k) /\ (j > m => key[s[j]] >= k)
  BY <1>1, Finds
<1>4. /\ DOMAIN Elements = 1 .. Len(s) /\ Len(Elements) = Len(s)
      /\ Ordered!Places(k) = {j \in 1 .. Len(s) : key[s[j]] = k}
      /\ \A j \in 1 .. Len(s) : Elements[j].node = s[j]
  BY <1>2, PlacesAre
<1>5. first = Stop(k)
  <2>1. Under(s, k, 0) /\ Tall(s, 0, 0) /\ Cell(s, 0) = NIL
    BY <1>2, CellIs DEF Under, Tall
  <2>2. Advance(NIL, 0, k) = Cell(s, Below(s, 0, k))
    BY <1>2, <2>1, AdvanceIs
  <2>3. Path(curlevel, k)[0] = Cell(s, Below(s, 0, k))
    BY StopIs
  <2> QED BY <2>2, <2>3 DEF Stop
<1>6. UNCHANGED Elements
  BY SameElements DEF SearchALL
<1>7. PICK f : /\ Afters(f, k)
               /\ reply' = IF nodenum # 0 /\ Equal(first, k)
                           THEN [op |-> "searchALL", key |-> k, first |-> first, term |-> f[first]]
                           ELSE [op |-> "searchALL", key |-> k, first |-> NULL, term |-> NULL]
  BY AftersExist, SearchALLIs
<1> HIDE DEF first
<1>8. CASE Equal(first, k)
  <2>1. m + 1 \in 1 .. Len(s) /\ first = s[m + 1] /\ nodenum # 0
    BY <1>2, <1>3, <1>5, <1>8
  <2>2. PICK e : Ends(s, k, m + 1, e)
    <3>1. m + 1 \in 0 .. Len(s)
      BY <1>2, <2>1
    <3> QED BY <3>1, EndIs
  <2>3. f[first] = Cell(s, e)
    <3>1. m + 1 \in 0 .. Len(s) /\ Cell(s, m + 1) = s[m + 1]
      BY <1>2, <2>1, CellIs
    <3>2. f[Cell(s, m + 1)] = Cell(s, e)
      <4>1. PICK a \in 0 .. Len(s) : a = m + 1
        BY <3>1
      <4>2. Ends(s, k, a, e) /\ Afters(f, k)
        BY <1>7, <2>2, <4>1
      <4>3. f[Cell(s, a)] = Cell(s, e)
        BY <4>2, AftersAre
      <4> QED BY <4>1, <4>3
    <3> QED BY <2>1, <3>1, <3>2
  <2>4. /\ e \in m + 2 .. Len(s) + 1 /\ \A q \in m + 2 .. e - 1 : key[s[q]] = k
        /\ e # Len(s) + 1 => key[s[e]] # k
    <3>1. (m + 1) + 1 = m + 2
      BY <1>2, <1>3
    <3> QED BY <2>2, <3>1 DEF Ends
  <2>5. key[s[m + 1]] = k
    BY <1>8, <2>1 DEF Equal
  <2>6. Ordered!Places(k) = m + 1 .. e - 1
    <3>1. ASSUME NEW j \in 1 .. Len(s), key[s[j]] = k
          PROVE  j \in m + 1 .. e - 1
      <4>1. ~(j <= m)
        BY <1>2, <1>3, <3>1
      <4>2. ASSUME j >= e
            PROVE  FALSE
        <5>1. e \in 1 .. Len(s) /\ e > m
          BY <1>2, <1>3, <2>4, <4>2
        <5>2. key[s[e]] # k /\ key[s[e]] >= k /\ key[s[e]] \in Nat
          BY <1>2, <1>3, <2>4, <5>1
        <5>3. key[s[e]] <= key[s[j]]
          BY <1>2, <3>1, <4>2, <5>1, <5>2
        <5> QED BY <1>2, <3>1, <5>2, <5>3
      <4> QED BY <1>2, <1>3, <2>4, <4>1, <4>2
    <3>2. ASSUME NEW j \in m + 1 .. e - 1
          PROVE  j \in 1 .. Len(s) /\ key[s[j]] = k
      <4>1. j \in 1 .. Len(s) /\ (j = m + 1 \/ j \in m + 2 .. e - 1)
        BY <1>2, <1>3, <2>4
      <4> QED BY <2>4, <2>5, <4>1
    <3>3. \A j : j \in m + 1 .. e - 1 <=> j \in {i \in 1 .. Len(s) : key[s[i]] = k}
      BY <3>1, <3>2
    <3> QED BY <1>4, <3>3
  <2>7. m + 1 \in Ordered!Places(k) /\ e - 1 \in Ordered!Places(k)
    BY <1>3, <2>4, <2>6
  <2>8. /\ first = Elements[m + 1].node
        /\ f[first] = IF e - 1 = Len(Elements) THEN NIL ELSE Elements[(e - 1) + 1].node
    <3>1. first = Elements[m + 1].node
      BY <1>4, <2>1
    <3>2. CASE e = Len(s) + 1
      <4>1. e - 1 = Len(Elements) /\ Cell(s, e) = NIL
        BY <1>2, <1>4, <3>2, CellIs
      <4> QED BY <2>3, <3>1, <4>1
    <3>3. CASE e # Len(s) + 1
      <4>1. e \in 1 .. Len(s) /\ (e - 1) + 1 = e /\ e - 1 # Len(Elements)
        <5>1. Len(s) \in Nat /\ m \in 0 .. Len(s) /\ e \in m + 2 .. Len(s) + 1
              /\ Len(Elements) = Len(s)
          BY <1>2, <1>3, <1>4, <2>4
        <5> QED BY <3>3, <5>1
      <4>2. Cell(s, e) = s[e] /\ Elements[e].node = s[e]
        BY <1>2, <1>4, <4>1, CellIs
      <4> QED BY <2>3, <3>1, <4>1, <4>2
    <3> QED BY <3>2, <3>3
  <2>9. reply' = [op |-> "searchALL", key |-> k, first |-> Elements[m + 1].node,
                  term |-> IF e - 1 = Len(Elements) THEN NIL ELSE Elements[(e - 1) + 1].node]
    BY <1>7, <1>8, <2>1, <2>8, Zenon
  <2> QED BY <1>6, <2>6, <2>7, <2>9, Zenon DEF Ordered!SearchALL
<1>9. CASE ~Equal(first, k)
  <2>1. reply' = [op |-> "searchALL", key |-> k, first |-> NULL, term |-> NULL]
    BY <1>7, <1>9, Zenon
  <2> QED BY <1>3, <1>5, <1>6, <1>9, <2>1, Zenon DEF Ordered!SearchALL
<1> QED BY <1>8, <1>9

(* The head, the tail, the number of nodes and whether there are any.        *)
LEMMA ObserveMaps ==
    ASSUME TypeOK, NEW s, Shape(s), Observe
    PROVE  Ordered!Observe
<1>1. /\ Sorted(s) /\ Len(s) \in Nat /\ nodenum = Len(s) /\ tail = Cell(s, Len(s)) /\ Holds(Elements, s)
  BY SortedIs, ElementsAre DEF Shape, Counted
<1>2. /\ Elements \in Seq(Entries) /\ Len(Elements) = Len(s)
      /\ \A j \in 1 .. Len(s) : Elements[j].node = s[j]
  BY <1>1, PlacesAre DEF Holds
<1>3. Elements = <<>> <=> Len(s) = 0
  <2> HIDE DEF Elements
  <2> QED BY <1>1, <1>2
<1>4. UNCHANGED Elements
  BY SameElements DEF Observe
<1>5. next[NIL][0] = Cell(s, 1)
  <2>1. 0 \in 0 .. Len(s) /\ 0 + 1 = 1 /\ Cell(s, 0) = NIL
    BY <1>1, CellIs
  <2> QED BY <2>1, LevelZero
<1>6. GetHead = IF Elements = <<>> THEN NULL ELSE Elements[1].node
  <2>1. CASE Len(s) = 0
    <3>1. Cell(s, 1) = NIL
      BY <2>1 DEF Cell
    <3> QED BY <1>3, <1>5, <2>1, <3>1 DEF GetHead
  <2>2. CASE Len(s) # 0
    <3>1. 1 \in 1 .. Len(s)
      BY <1>1, <2>2
    <3>2. Cell(s, 1) = s[1] /\ Cell(s, 1) # NIL /\ Elements[1].node = s[1]
      BY <1>1, <1>2, <3>1, CellIs
    <3> QED BY <1>3, <1>5, <2>2, <3>2 DEF GetHead
  <2> QED BY <2>1, <2>2
<1>7. GetTail = IF Elements = <<>> THEN NULL ELSE Elements[Len(Elements)].node
  <2>1. CASE Len(s) = 0
    <3>1. tail = NIL
      BY <1>1, <2>1 DEF Cell
    <3> QED BY <1>3, <2>1, <3>1 DEF GetTail
  <2>2. CASE Len(s) # 0
    <3>1. Len(s) \in 1 .. Len(s)
      BY <1>1, <2>2
    <3>2. tail = s[Len(s)] /\ tail # NIL /\ Elements[Len(s)].node = s[Len(s)]
      BY <1>1, <1>2, <3>1, CellIs
    <3> QED BY <1>2, <1>3, <2>2, <3>2 DEF GetTail
  <2> QED BY <2>1, <2>2
<1>8. IsEmpty(0) = (Elements = <<>>)
  <2>1. IsEmpty(0) = (nodenum = 0)
    BY DEF IsEmpty
  <2> QED BY <1>1, <1>3, <2>1
<1>9. reply' = [op |-> "observe", head |-> GetHead, tail |-> GetTail,
                nodenum |-> nodenum, empty |-> IsEmpty(0)]
  BY DEF Observe
<1>10. reply' = [op |-> "observe",
                 head |-> IF Elements = <<>> THEN NULL ELSE Elements[1].node,
                 tail |-> IF Elements = <<>> THEN NULL ELSE Elements[Len(Elements)].node,
                 nodenum |-> Len(Elements), empty |-> Elements = <<>>]
  <2> HIDE DEF Elements
  <2>1. nodenum = Len(Elements)
    BY <1>1, <1>2
  <2> QED BY <1>6, <1>7, <1>8, <1>9, <2>1, Zenon
<1> QED BY <1>4, <1>10, Zenon DEF Ordered!Observe

(* The first state.                                                          *)
LEMMA InitMaps == Init => Ordered!Init
<1> SUFFICES ASSUME Init PROVE Ordered!Init
  OBVIOUS
<1>1. Holds(Elements, <<>>)
  <2>1. TypeOK /\ Shape(<<>>)
    BY InitKeeps
  <2> QED BY <2>1, ElementsAre
<1>2. Elements \in Seq(Entries) /\ Len(Elements) = 0
  BY <1>1 DEF Holds
<1>3. Elements = <<>>
  <2> HIDE DEF Elements
  <2> QED BY <1>2
<1> QED BY <1>3 DEF Init, Ordered!Init

(* Every step of the list is a step of the ordered list.                    *)
LEMMA StepMaps ==
    ASSUME HeaderAnswers \subseteq {FALSE}, IInv, [Next]_vars
    PROVE  [Ordered!Next]_Ordered!listVars
<1>1. PICK s : TypeOK /\ Shape(s)
  BY DEF IInv
<1>2. CASE UNCHANGED vars
  <2>1. UNCHANGED list /\ UNCHANGED reply
    BY <1>2 DEF vars, list
  <2>2. UNCHANGED Elements
    BY <1>1, <2>1, SameElements
  <2> QED BY <2>1, <2>2 DEF Ordered!listVars
<1>3. ASSUME NEW n \in Nodes, NEW k \in Keys, NEW v \in Items,
             \/ InsertAD(n, k, v) \/ InsertND(n, k, v) \/ InsertUPD(n, k, v) \/ InsertUPD_ALL(n, k, v)
      PROVE  Ordered!Next
  <2>1. \/ Ordered!InsertAD(n, k, v) \/ Ordered!InsertND(n, k, v)
        \/ Ordered!InsertUPD(n, k, v) \/ Ordered!InsertUPD_ALL(n, k, v)
    BY <1>1, <1>3, InsertADMaps, InsertNDMaps, InsertUPDMaps, InsertUPD_ALLMaps
  <2> QED BY <2>1, Zenon DEF Ordered!Next
<1>4. ASSUME NEW k \in Keys, DeleteAF(k) \/ DeleteNF(k) \/ Search(k) \/ SearchALL(k)
      PROVE  Ordered!Next
  <2>1. Ordered!DeleteAF(k) \/ Ordered!DeleteNF(k) \/ Ordered!Search(k) \/ Ordered!SearchALL(k)
    BY <1>1, <1>4, DeleteAFMaps, DeleteNFMaps, SearchMaps, SearchALLMaps
  <2> QED BY <2>1, Zenon DEF Ordered!Next
<1>5. CASE Observe
  BY <1>1, <1>5, ObserveMaps, Zenon DEF Ordered!Next
<1> QED BY <1>2, <1>3, <1>4, <1>5, Zenon DEF Next

(* The list of skl_ins.c, skl_del.c and skl_search.c implements the ordered  *)
(* list: whatever the levels drawn, every call has the answer and the effect *)
(* on the sequence of the elements that OrderedList promises, as long as cmp *)
(* never takes the header for a node that compares equal.                    *)
THEOREM Refinement ==
    ASSUME HeaderAnswers \subseteq {FALSE}
    PROVE  Spec => ImplementsOrderedList
<1>1. Init => Ordered!Init
  BY InitMaps
<1>2. IInv /\ [Next]_vars => [Ordered!Next]_Ordered!listVars
  BY StepMaps
<1> QED BY <1>1, <1>2, Invariance, PTL DEF Spec, ImplementsOrderedList, Ordered!Spec
=============================================================================
