---------------------------- MODULE IteratorProofs ----------------------------
(***************************************************************************)
(* Theorems about Iterator, for any nodes, keys and heights.               *)
(***************************************************************************)
EXTENDS Iterator, FiniteSetTheorems, WellFoundedInduction, SequenceTheorems, TLAPS

(* Every set of natural numbers that has a member has a least one.           *)
LEMMA LeastNumber ==
    ASSUME NEW S \in SUBSET Nat, S # {}
    PROVE  \E m \in S : \A k \in S : m <= k
<1>1. PICK m \in S : \A k \in S : <<k, m>> \notin OpToRel(<, Nat)
  BY NatLessThanWellFounded, WFMin, Zenon
<1>2. \A k \in S : ~(k < m)
  BY <1>1, Zenon DEF OpToRel
<1> QED BY <1>2

USE IteratorAssumption DEF IteratorAssumption

-----------------------------------------------------------------------------
(* Places in a list                                                         *)

LEMMA Least ==
    ASSUME NEW S \in SUBSET Nat, S # {}
    PROVE  Min(S) \in S /\ \A k \in S : Min(S) <= k
BY LeastNumber DEF Min

LEMMA Greatest ==
    ASSUME NEW n \in Nat, NEW S \in SUBSET (1 .. n), S # {}
    PROVE  Max(S) \in S /\ \A k \in S : k <= Max(S)
<1> DEFINE D == {n - k : k \in S}
<1>1. D \in SUBSET Nat /\ D # {}
  <2>1. \A k \in S : n - k \in Nat
    OBVIOUS
  <2>2. PICK k \in S : TRUE
    OBVIOUS
  <2>3. n - k \in D
    OBVIOUS
  <2> QED BY <2>1, <2>3
<1>2. PICK d \in D : \A e \in D : d <= e
  <2> HIDE DEF D
  <2> QED BY <1>1, LeastNumber
<1>3. PICK m \in S : d = n - m
  BY <1>2
<1>4. \A k \in S : m >= k
  <2> SUFFICES ASSUME NEW k \in S PROVE m >= k
    OBVIOUS
  <2>1. n - k \in D
    OBVIOUS
  <2>2. n - m <= n - k
    BY <1>2, <1>3, <2>1
  <2> QED BY <2>2
<1>5. Max(S) \in S /\ \A k \in S : Max(S) >= k
  BY <1>3, <1>4 DEF Max
<1> QED BY <1>5

(* Places that reach from the first one are as many as the last one says.    *)
LEMMA FirstOnes ==
    ASSUME NEW n \in Nat, NEW I \in SUBSET (1 .. n),
           \A i \in I : \A j \in 1 .. n : j < i => j \in I
    PROVE  Cardinality(I) \in 0 .. n /\ I = 1 .. Cardinality(I)
<1>1. CASE I = {}
  <2>1. Cardinality(I) = 0
    BY <1>1, FS_EmptySet
  <2> QED BY <1>1, <2>1
<1>2. CASE I # {}
  <2> DEFINE m == Max(I)
  <2>1. m \in I /\ \A k \in I : k <= m
    BY <1>2, Greatest
  <2> HIDE DEF m
  <2>2. I = 1 .. m
    <3>1. m \in 1 .. n /\ m \in Nat
      BY <2>1
    <3>2. \A x \in 1 .. m : x \in 1 .. n /\ (x = m \/ x < m)
      BY <3>1
    <3>3. \A x \in 1 .. m : x \in I
      BY <2>1, <3>2
    <3>4. \A x \in I : x \in 1 .. m
      BY <2>1, <3>1
    <3> QED BY <3>3, <3>4
  <2>3. Cardinality(1 .. m) = m
    <3>1. m \in Nat
      BY <2>1
    <3>2. Cardinality(1 .. m) = m - 1 + 1
      BY <3>1, FS_Interval
    <3> QED BY <3>1, <3>2
  <2> QED BY <2>1, <2>2, <2>3
<1> QED BY <1>1, <1>2

(* t is s with e as its i-th element.                                        *)
Grown(S, s, i, e, t) ==
    /\ t \in Seq(S) /\ Len(t) = Len(s) + 1
    /\ \A j \in 1 .. Len(s) + 1 : t[j] = IF j < i THEN s[j] ELSE IF j = i THEN e ELSE s[j - 1]

LEMMA Inserted ==
    ASSUME NEW S, NEW s \in Seq(S), NEW i \in 1 .. Len(s) + 1, NEW e \in S
    PROVE  Grown(S, s, i, e, InsertAt(s, i, e))
<1> DEFINE before == SubSeq(s, 1, i - 1)
           one    == <<e>>
           behind == SubSeq(s, i, Len(s))
<1>1. InsertAt(s, i, e) = before \o one \o behind
  BY DEF InsertAt
<1>2. /\ before \in Seq(S) /\ Len(before) = i - 1
      /\ behind \in Seq(S) /\ Len(behind) = Len(s) + 1 - i
      /\ \A j \in 1 .. i - 1 : before[j] = s[j]
      /\ \A j \in 1 .. Len(s) + 1 - i : behind[j] = s[i + j - 1]
  BY SubSeqProperties
<1>3. one \in Seq(S) /\ Len(one) = 1 /\ one[1] = e
  OBVIOUS
<1> HIDE DEF before, one, behind
<1> DEFINE front == before \o one
           all   == front \o behind
<1>4. /\ front \in Seq(S) /\ Len(front) = i
      /\ \A j \in 1 .. i : front[j] = IF j < i THEN s[j] ELSE e
  <2>1. /\ front \in Seq(S) /\ Len(front) = Len(before) + Len(one)
        /\ \A j \in 1 .. Len(before) + Len(one) :
              front[j] = IF j <= Len(before) THEN before[j] ELSE one[j - Len(before)]
    <3>1. before \in Seq(S) /\ one \in Seq(S)
      BY <1>2, <1>3
    <3> QED BY <3>1, ConcatProperties, Zenon
  <2> HIDE DEF front
  <2> QED BY <1>2, <1>3, <2>1
<1> HIDE DEF front
<1>5. /\ all \in Seq(S) /\ Len(all) = Len(front) + Len(behind)
      /\ \A j \in 1 .. Len(front) + Len(behind) :
            all[j] = IF j <= Len(front) THEN front[j] ELSE behind[j - Len(front)]
  <2>1. front \in Seq(S) /\ behind \in Seq(S)
    BY <1>2, <1>4
  <2> QED BY <2>1, ConcatProperties, Zenon
<1>6. InsertAt(s, i, e) = all
  BY <1>1 DEF front
<1> HIDE DEF all
<1>7. Len(all) = Len(s) + 1
  BY <1>2, <1>4, <1>5
<1>8. ASSUME NEW j \in 1 .. Len(s) + 1
      PROVE  all[j] = IF j < i THEN s[j] ELSE IF j = i THEN e ELSE s[j - 1]
  <2>1. CASE j <= i
    BY <1>2, <1>4, <1>5, <2>1
  <2>2. CASE j > i
    <3>1. all[j] = behind[j - i]
      BY <1>2, <1>4, <1>5, <2>2
    <3>2. j - i \in 1 .. Len(s) + 1 - i
      BY <2>2
    <3>3. behind[j - i] = s[i + (j - i) - 1] /\ i + (j - i) - 1 = j - 1
      BY <1>2, <3>2
    <3> QED BY <2>2, <3>1, <3>3
  <2> QED BY <2>1, <2>2
<1>9. Grown(S, s, i, e, all)
  BY <1>5, <1>7, <1>8 DEF Grown
<1> QED BY <1>6, <1>9, Zenon

LEMMA Removed ==
    ASSUME NEW S, NEW s \in Seq(S), NEW i \in 1 .. Len(s)
    PROVE  /\ RemoveAt(s, i) \in Seq(S) /\ Len(RemoveAt(s, i)) = Len(s) - 1
           /\ \A j \in 1 .. Len(s) - 1 : RemoveAt(s, i)[j] = IF j < i THEN s[j] ELSE s[j + 1]
<1> DEFINE before == SubSeq(s, 1, i - 1)
           behind == SubSeq(s, i + 1, Len(s))
           all    == before \o behind
<1>1. RemoveAt(s, i) = all
  BY DEF RemoveAt
<1>2. /\ before \in Seq(S) /\ Len(before) = i - 1
      /\ behind \in Seq(S) /\ Len(behind) = Len(s) - i
      /\ \A j \in 1 .. i - 1 : before[j] = s[j]
      /\ \A j \in 1 .. Len(s) - i : behind[j] = s[(i + 1) + j - 1]
  BY SubSeqProperties
<1> HIDE DEF before, behind
<1>3. /\ all \in Seq(S) /\ Len(all) = Len(before) + Len(behind)
      /\ \A j \in 1 .. Len(before) + Len(behind) :
            all[j] = IF j <= Len(before) THEN before[j] ELSE behind[j - Len(before)]
  BY <1>2, ConcatProperties, ZenonT(40)
<1> HIDE DEF all
<1>4. Len(all) = Len(s) - 1
  BY <1>2, <1>3
<1>5. ASSUME NEW j \in 1 .. Len(s) - 1
      PROVE  all[j] = IF j < i THEN s[j] ELSE s[j + 1]
  <2>1. CASE j < i
    <3>1. j \in 1 .. i - 1 /\ j \in 1 .. Len(before) + Len(behind) /\ j <= Len(before)
      BY <1>2, <2>1
    <3> QED BY <1>2, <1>3, <2>1, <3>1
  <2>2. CASE ~(j < i)
    <3>1. all[j] = behind[j - (i - 1)]
      BY <1>2, <1>3, <2>2
    <3>2. j - (i - 1) \in 1 .. Len(s) - i
      BY <2>2
    <3>3. behind[j - (i - 1)] = s[(i + 1) + (j - (i - 1)) - 1]
          /\ (i + 1) + (j - (i - 1)) - 1 = j + 1
      BY <1>2, <3>2
    <3> QED BY <2>2, <3>1, <3>3
  <2> QED BY <2>1, <2>2
<1> QED BY <1>1, <1>3, <1>4, <1>5

-----------------------------------------------------------------------------
(* The list and the types of the rest, whatever the program does            *)

Pointers  == Arrays \cup {NoArray, JUNK}
Iterators == [next : Pointers, prev : Pointers, prevlev : Levels, term : Cells \cup {NULL},
              range : Keys \cup {0}]

Places    == {"idle", "next", "prev", "movenext", "moveprev", "crashed"}

Typed ==
    /\ chain \in Seq(Nodes)
    /\ sz \in [Cells -> 0 .. MaxLevel] /\ sz[NIL] = MaxLevel
    /\ key \in [Nodes -> Keys \cup {0}]
    /\ iter \in Iterators
    /\ exists \in BOOLEAN
    /\ pc \in [Users -> Places]
    /\ lev \in [Users -> Levels]

(* The nodes of the list are those with a height and a key, each once, and   *)
(* in the order of their keys.                                               *)
Chained ==
    /\ \A n \in Nodes : sz[n] # 0 <=> key[n] # 0
    /\ \A n \in Nodes : sz[n] # 0 <=> \E i \in 1 .. Len(chain) : chain[i] = n
    /\ \A i, j \in 1 .. Len(chain) : chain[i] = chain[j] => i = j
    /\ \A i, j \in 1 .. Len(chain) : i < j => key[chain[i]] <= key[chain[j]]

Listed == Typed /\ Chained

LEMMA ChainIs ==
    ASSUME Listed
    PROVE  /\ Len(chain) \in Nat /\ DOMAIN chain = 1 .. Len(chain)
           /\ \A i \in 1 .. Len(chain) : /\ chain[i] \in Nodes /\ chain[i] # NIL
                                         /\ sz[chain[i]] \in Levels /\ key[chain[i]] \in Keys
                                         /\ key[chain[i]] \in Nat
<1>1. chain \in Seq(Nodes)
  BY DEF Listed, Typed
<1>2. Len(chain) \in Nat /\ DOMAIN chain = 1 .. Len(chain)
  BY <1>1
<1>3. ASSUME NEW i \in 1 .. Len(chain)
      PROVE  /\ chain[i] \in Nodes /\ chain[i] # NIL
             /\ sz[chain[i]] \in Levels /\ key[chain[i]] \in Keys /\ key[chain[i]] \in Nat
  <2> DEFINE n == chain[i]
  <2>1. n \in Nodes
    BY <1>1
  <2>2. sz[n] # 0
    BY <2>1 DEF Listed, Chained
  <2> HIDE DEF n
  <2>3. sz[n] \in 0 .. MaxLevel /\ key[n] # 0 /\ key[n] \in Keys \cup {0}
    BY <2>1, <2>2 DEF Listed, Typed, Chained, Cells
  <2>4. key[n] \in Keys /\ key[n] \in Nat /\ n # NIL
    BY <2>1, <2>3
  <2>5. sz[n] \in Levels
    <3> DEFINE h == sz[n]
    <3>1. h \in 0 .. MaxLevel /\ h # 0
      BY <2>2, <2>3
    <3> HIDE DEF h
    <3>2. h \in 1 .. MaxLevel
      BY <3>1
    <3> QED BY <3>2 DEF h, Levels
  <2> QED BY <2>1, <2>4, <2>5 DEF n
<1> QED BY <1>2, <1>3

LEMMA PosIs ==
    ASSUME Listed, NEW i \in 1 .. Len(chain)
    PROVE  Pos(chain[i]) = i
BY ChainIs DEF Pos, Listed, Chained

LEMMA InList ==
    ASSUME Listed, NEW n \in Nodes, sz[n] # 0
    PROVE  Pos(n) \in 1 .. Len(chain) /\ chain[Pos(n)] = n
<1>1. PICK i \in 1 .. Len(chain) : chain[i] = n
  BY DEF Listed, Chained
<1> QED BY <1>1, PosIs

(* What next[l - 1] of a cell holds: the header, or the first node of that    *)
(* height after the cell.                                                     *)
AfterAt(c, l, i) ==
    /\ i \in 1 .. Len(chain) /\ sz[chain[i]] >= l /\ (c # NIL => i > Pos(c))
    /\ \A j \in 1 .. Len(chain) : sz[chain[j]] >= l /\ (c # NIL => j > Pos(c)) => i <= j

LEMMA AfterIs ==
    ASSUME Listed, NEW c, NEW l
    PROVE  \/ /\ After(c, l) = NIL
              /\ \A i \in 1 .. Len(chain) : ~(sz[chain[i]] >= l /\ (c # NIL => i > Pos(c)))
           \/ \E i : AfterAt(c, l, i) /\ After(c, l) = chain[i]
<1> DEFINE I == {i \in DOMAIN chain : sz[chain[i]] >= l /\ (c # NIL => i > Pos(c))}
<1>1. I \in SUBSET (1 .. Len(chain)) /\ I \in SUBSET Nat
  BY ChainIs
<1>2. CASE I = {}
  <2>1. After(c, l) = NIL
    BY <1>2 DEF After, FirstAt
  <2> QED BY <1>2, <2>1, ChainIs
<1>3. CASE I # {}
  <2> DEFINE m == Min(I)
  <2>1. m \in I /\ \A k \in I : m <= k
    <3> HIDE DEF I
    <3> QED BY <1>1, <1>3, Least
  <2>2. After(c, l) = chain[m]
    BY <1>3 DEF After, FirstAt
  <2> HIDE DEF m
  <2>3. AfterAt(c, l, m)
    BY <2>1, ChainIs DEF AfterAt
  <2> QED BY <2>2, <2>3
<1> QED BY <1>2, <1>3

(* What prev[l - 1] holds, likewise.                                         *)
BeforeAt(c, l, i) ==
    /\ i \in 1 .. Len(chain) /\ sz[chain[i]] >= l /\ (c # NIL => i < Pos(c))
    /\ \A j \in 1 .. Len(chain) : sz[chain[j]] >= l /\ (c # NIL => j < Pos(c)) => j <= i

LEMMA BeforeIs ==
    ASSUME Listed, NEW c, NEW l
    PROVE  \/ /\ Before(c, l) = NIL
              /\ \A i \in 1 .. Len(chain) : ~(sz[chain[i]] >= l /\ (c # NIL => i < Pos(c)))
           \/ \E i : BeforeAt(c, l, i) /\ Before(c, l) = chain[i]
<1> DEFINE I == {i \in DOMAIN chain : sz[chain[i]] >= l /\ (c # NIL => i < Pos(c))}
<1>1. Len(chain) \in Nat /\ I \in SUBSET (1 .. Len(chain))
  BY ChainIs
<1>2. CASE I = {}
  <2>1. Before(c, l) = NIL
    BY <1>2 DEF Before, LastAt
  <2> QED BY <1>2, <2>1, ChainIs
<1>3. CASE I # {}
  <2> DEFINE m == Max(I)
  <2>1. m \in I /\ \A k \in I : k <= m
    <3> HIDE DEF I
    <3> QED BY <1>1, <1>3, Greatest
  <2>2. Before(c, l) = chain[m]
    BY <1>3 DEF Before, LastAt
  <2> HIDE DEF m
  <2>3. BeforeAt(c, l, m)
    BY <2>1, ChainIs DEF BeforeAt
  <2> QED BY <2>2, <2>3
<1> QED BY <1>2, <1>3

LEMMA AtIs ==
    ASSUME Listed, NEW a, NEW l \in Levels
    PROVE  At(a, l) \in Cells /\ sz[At(a, l)] \in Levels /\ sz[At(a, l)] >= l
<1>1. At(a, l) = After(a.cell, l) \/ At(a, l) = Before(a.cell, l)
  BY DEF At
<1>2. At(a, l) = NIL \/ \E i \in 1 .. Len(chain) : At(a, l) = chain[i] /\ sz[chain[i]] >= l
  BY <1>1, AfterIs, BeforeIs DEF AfterAt, BeforeAt
<1>3. sz[NIL] = MaxLevel /\ l \in 1 .. MaxLevel
  BY DEF Listed, Typed, Levels
<1> QED BY <1>2, <1>3, ChainIs DEF Cells, Levels

LEMMA PointerIs ==
    ASSUME NEW c \in Cells, NEW way \in {"next", "prev"}
    PROVE  [cell |-> c, way |-> way] \in Pointers
BY DEF Pointers, Arrays

LEMMA IteratorIs ==
    ASSUME NEW a \in Pointers, NEW b \in Pointers, NEW l \in Levels, NEW t \in Cells \cup {NULL},
           NEW k \in Keys \cup {0}
    PROVE  [next |-> a, prev |-> b, prevlev |-> l, term |-> t, range |-> k] \in Iterators
BY DEF Iterators

LEMMA FieldsOf ==
    ASSUME NEW i \in Iterators
    PROVE  /\ i.next \in Pointers /\ i.prev \in Pointers /\ i.prevlev \in Levels
           /\ i.term \in Cells \cup {NULL} /\ i.range \in Keys \cup {0}
           /\ i = [next |-> i.next, prev |-> i.prev, prevlev |-> i.prevlev, term |-> i.term,
                   range |-> i.range]
BY DEF Iterators

LEMMA AtCellIs ==
    ASSUME Listed, NEW c \in Cells, c = NIL \/ sz[c] # 0
    PROVE  AtCell(c, sz[c]) \in Iterators /\ sz[c] \in Levels
<1>1. sz[c] \in Levels
  <2> DEFINE h == sz[c]
  <2>1. h \in 0 .. MaxLevel /\ h # 0
    BY DEF Listed, Typed
  <2> HIDE DEF h
  <2>2. h \in 1 .. MaxLevel
    BY <2>1
  <2> QED BY <2>2 DEF h, Levels
<1>2. [cell |-> c, way |-> "next"] \in Pointers /\ [cell |-> c, way |-> "prev"] \in Pointers
  BY PointerIs
<1> QED BY <1>1, <1>2, IteratorIs DEF AtCell

(* A step that leaves the list alone.                                        *)
LEMMA SameShape ==
    ASSUME Listed, UNCHANGED shape, iter' \in Iterators, exists' \in BOOLEAN,
           pc' \in [Users -> Places], lev' \in [Users -> Levels]
    PROVE  Listed'
BY DEF Listed, Typed, Chained, shape

LEMMA InitIs == Init => Listed
<1> SUFFICES ASSUME Init PROVE Listed
  OBVIOUS
<1>1. sz[NIL] = MaxLevel /\ sz \in [Cells -> 0 .. MaxLevel]
  BY DEF Init, Cells
<1>2. iter \in Iterators
  <2>1. MaxLevel \in Levels /\ NIL \in Cells
    BY DEF Levels, Cells
  <2>2. [cell |-> NIL, way |-> "next"] \in Pointers /\ [cell |-> NIL, way |-> "prev"] \in Pointers
    BY <2>1, PointerIs
  <2> QED BY <2>1, <2>2, IteratorIs DEF Init, AtCell
<1>3. Typed
  <2>1. chain \in Seq(Nodes) /\ key \in [Nodes -> Keys \cup {0}]
    BY DEF Init
  <2>3. exists \in BOOLEAN
    BY Zenon DEF Init
  <2>2. pc \in [Users -> Places] /\ lev \in [Users -> Levels]
    <3>1. 1 \in Levels
      BY DEF Levels
    <3> QED BY <3>1 DEF Init, Places
  <2> QED BY <1>1, <1>2, <2>1, <2>2, <2>3, Zenon DEF Typed
<1>4. Chained
  BY DEF Init, Chained, Cells
<1> QED BY <1>3, <1>4 DEF Listed

(* Insert: the new node is the p-th.                                         *)
InsertedAt(n, k, h, p) ==
    /\ p \in 1 .. Len(chain) + 1
    /\ chain' \in Seq(Nodes) /\ Len(chain') = Len(chain) + 1
    /\ \A j \in 1 .. Len(chain) + 1 :
          chain'[j] = IF j < p THEN chain[j] ELSE IF j = p THEN n ELSE chain[j - 1]
    /\ \A i \in 1 .. Len(chain) : key[chain[i]] < k <=> i < p
    /\ sz' = [sz EXCEPT ![n] = h]
    /\ key' = [key EXCEPT ![n] = k]

LEMMA InsertIs ==
    ASSUME Listed, NEW n \in Nodes, NEW k \in Keys, NEW h \in Levels, Insert(n, k, h)
    PROVE  \E p : InsertedAt(n, k, h, p)
<1> DEFINE I == {i \in DOMAIN chain : key[chain[i]] < k}
           p == Cardinality(I) + 1
<1>1. Len(chain) \in Nat /\ I \in SUBSET (1 .. Len(chain)) /\ chain \in Seq(Nodes) /\ k \in Nat
  BY ChainIs DEF Listed, Typed
<1>2. \A i \in I : \A j \in 1 .. Len(chain) : j < i => j \in I
  <2> SUFFICES ASSUME NEW i \in I, NEW j \in 1 .. Len(chain), j < i PROVE j \in I
    OBVIOUS
  <2>1. i \in 1 .. Len(chain) /\ key[chain[i]] < k
    BY ChainIs
  <2>2. key[chain[j]] <= key[chain[i]] /\ key[chain[i]] \in Nat /\ key[chain[j]] \in Nat
    BY <2>1, ChainIs DEF Listed, Chained
  <2>3. key[chain[j]] < k
    BY <1>1, <2>1, <2>2
  <2> QED BY <2>3, ChainIs
<1>3. Cardinality(I) \in 0 .. Len(chain) /\ I = 1 .. Cardinality(I)
  <2> HIDE DEF I
  <2> QED BY <1>1, <1>2, FirstOnes
<1>4. \A i \in 1 .. Len(chain) : key[chain[i]] < k <=> i \in I
  BY ChainIs
<1>5. chain' = InsertAt(chain, p, n)
  BY DEF Insert
<1> HIDE DEF I
<1>6. p \in 1 .. Len(chain) + 1 /\ \A i \in 1 .. Len(chain) : i \in I <=> i < p
  BY <1>1, <1>3
<1> HIDE DEF p
<1>7. /\ chain' \in Seq(Nodes) /\ Len(chain') = Len(chain) + 1
      /\ \A j \in 1 .. Len(chain) + 1 :
            chain'[j] = IF j < p THEN chain[j] ELSE IF j = p THEN n ELSE chain[j - 1]
  <2> DEFINE new == InsertAt(chain, p, n)
  <2>1. chain \in Seq(Nodes) /\ p \in 1 .. Len(chain) + 1 /\ n \in Nodes
    BY <1>1, <1>6
  <2>2. Grown(Nodes, chain, p, n, new)
    BY <2>1, Inserted, Zenon
  <2>3. chain' = new
    BY <1>5
  <2> HIDE DEF new
  <2> QED BY <2>2, <2>3 DEF Grown
<1>8. sz' = [sz EXCEPT ![n] = h] /\ key' = [key EXCEPT ![n] = k]
  BY DEF Insert
<1> QED BY <1>4, <1>6, <1>7, <1>8 DEF InsertedAt

(* Delete: the node was the p-th.                                            *)
DeletedAt(n, p) ==
    /\ p \in 1 .. Len(chain) /\ chain[p] = n
    /\ chain' \in Seq(Nodes) /\ Len(chain') = Len(chain) - 1
    /\ \A j \in 1 .. Len(chain) - 1 : chain'[j] = IF j < p THEN chain[j] ELSE chain[j + 1]
    /\ sz' = [sz EXCEPT ![n] = 0]
    /\ key' = [key EXCEPT ![n] = 0]

LEMMA DeleteIs ==
    ASSUME Listed, NEW n \in Nodes, Delete(n)
    PROVE  \E p : DeletedAt(n, p)
<1> DEFINE p == Pos(n)
<1>1. p \in 1 .. Len(chain) /\ chain[p] = n /\ chain \in Seq(Nodes)
  BY InList DEF Delete, Listed, Typed
<1>2. chain' = RemoveAt(chain, p)
  BY DEF Delete
<1> HIDE DEF p
<1>3. /\ chain' \in Seq(Nodes) /\ Len(chain') = Len(chain) - 1
      /\ \A j \in 1 .. Len(chain) - 1 : chain'[j] = IF j < p THEN chain[j] ELSE chain[j + 1]
  BY <1>1, <1>2, Removed
<1>4. sz' = [sz EXCEPT ![n] = 0] /\ key' = [key EXCEPT ![n] = 0]
  BY DEF Delete
<1> QED BY <1>1, <1>3, <1>4 DEF DeletedAt

LEMMA InsertKeeps ==
    ASSUME Listed, NEW n \in Nodes, NEW k \in Keys, NEW h \in Levels, NEW p,
           sz[n] = 0, InsertedAt(n, k, h, p), UNCHANGED <<exists, iter, pc, lev>>
    PROVE  Listed'
<1> DEFINE c == chain'
           s == sz'
           q == key'
           N == Len(chain)
           M == Len(c)
<1>1. /\ N \in Nat /\ p \in 1 .. N + 1 /\ M = N + 1 /\ c \in Seq(Nodes)
      /\ \A j \in 1 .. N + 1 : c[j] = IF j < p THEN chain[j] ELSE IF j = p THEN n ELSE chain[j - 1]
      /\ \A i \in 1 .. N : key[chain[i]] < k <=> i < p
  BY ChainIs DEF InsertedAt
<1>2. /\ \A m \in Cells : m # n => s[m] = sz[m]
      /\ \A m \in Nodes : m # n => q[m] = key[m]
      /\ s[n] = h /\ q[n] = k /\ s \in [Cells -> 0 .. MaxLevel] /\ q \in [Nodes -> Keys \cup {0}]
  BY DEF InsertedAt, Listed, Typed, Cells, Levels
<1>3. \A i \in 1 .. N : chain[i] \in Nodes /\ chain[i] # n /\ key[chain[i]] \in Nat
  <2>1. \A i \in 1 .. N : chain[i] # n
    BY DEF Listed, Chained
  <2> QED BY <2>1, ChainIs
<1>4. /\ \A i, j \in 1 .. N : chain[i] = chain[j] => i = j
      /\ \A i, j \in 1 .. N : i < j => key[chain[i]] <= key[chain[j]]
      /\ \A m \in Nodes : sz[m] # 0 <=> key[m] # 0
      /\ \A m \in Nodes : sz[m] # 0 <=> \E i \in 1 .. N : chain[i] = m
  BY DEF Listed, Chained
<1>5. n \in Nodes /\ n # NIL /\ k \in Nat /\ k # 0 /\ h # 0
  BY DEF Levels
<1> HIDE DEF c, s, q, N, M
<1>6. \A m \in Nodes : s[m] # 0 <=> q[m] # 0
  BY <1>2, <1>4, <1>5 DEF Cells
<1>7. \A j \in 1 .. M : \/ j = p /\ c[j] = n
                        \/ j < p /\ j \in 1 .. N /\ c[j] = chain[j]
                        \/ j > p /\ j - 1 \in 1 .. N /\ c[j] = chain[j - 1]
  BY <1>1
<1>8. ASSUME NEW m \in Nodes
      PROVE  s[m] # 0 <=> \E i \in 1 .. M : c[i] = m
  <2>1. CASE m = n
    <3>1. p \in 1 .. M /\ c[p] = n
      BY <1>1
    <3> QED BY <1>2, <1>5, <2>1, <3>1
  <2>2. CASE m # n
    <3>1. s[m] = sz[m]
      BY <1>2, <2>2 DEF Cells
    <3>2. ASSUME NEW i \in 1 .. N, chain[i] = m
          PROVE  \E j \in 1 .. M : c[j] = m
      <4>1. CASE i < p
        <5>1. i \in 1 .. M /\ c[i] = chain[i]
          BY <1>1, <4>1
        <5> QED BY <3>2, <5>1
      <4>2. CASE ~(i < p)
        <5>1. i + 1 \in 1 .. M /\ c[i + 1] = chain[(i + 1) - 1] /\ (i + 1) - 1 = i
          BY <1>1, <4>2
        <5> QED BY <3>2, <5>1
      <4> QED BY <4>1, <4>2
    <3>3. ASSUME NEW j \in 1 .. M, c[j] = m
          PROVE  \E i \in 1 .. N : chain[i] = m
      BY <1>7, <2>2, <3>3
    <3> QED BY <1>4, <3>1, <3>2, <3>3
  <2> QED BY <2>1, <2>2
<1>9. ASSUME NEW i \in 1 .. M, NEW j \in 1 .. M, c[i] = c[j]
      PROVE  i = j
  BY <1>1, <1>3, <1>4, <1>7, <1>9
<1>10. \A i \in 1 .. N : q[chain[i]] = key[chain[i]]
  BY <1>2, <1>3
<1>11. ASSUME NEW i \in 1 .. M, NEW j \in 1 .. M, i < j
       PROVE  q[c[i]] <= q[c[j]]
  <2>1. CASE i = p
    <3> DEFINE a == j - 1
    <3>1. c[i] = n /\ a \in 1 .. N /\ c[j] = chain[a] /\ ~(a < p)
      BY <1>1, <1>7, <1>11, <2>1
    <3> HIDE DEF a
    <3>2. ~(key[chain[a]] < k) /\ key[chain[a]] \in Nat
      BY <1>1, <1>3, <3>1
    <3>3. q[c[i]] = k /\ q[c[j]] = key[chain[a]]
      BY <1>2, <1>10, <3>1
    <3> QED BY <1>5, <3>2, <3>3
  <2>2. CASE j = p
    <3>1. c[j] = n /\ i \in 1 .. N /\ c[i] = chain[i] /\ i < p
      BY <1>1, <1>7, <1>11, <2>2
    <3>2. key[chain[i]] < k /\ key[chain[i]] \in Nat
      BY <1>1, <1>3, <3>1
    <3>3. q[c[i]] = key[chain[i]] /\ q[c[j]] = k
      BY <1>2, <1>10, <3>1
    <3> QED BY <1>5, <3>2, <3>3
  <2>3. CASE i # p /\ j # p
    <3>1. PICK a \in 1 .. N, b \in 1 .. N : c[i] = chain[a] /\ c[j] = chain[b] /\ a < b
      BY <1>1, <1>7, <1>11, <2>3, SMTT(30)
    <3> QED BY <1>4, <1>10, <3>1
  <2> QED BY <2>1, <2>2, <2>3
<1>12. s[NIL] = MaxLevel
  BY <1>2, <1>5 DEF Listed, Typed, Cells
<1>13. Typed'
  BY <1>1, <1>2, <1>12 DEF c, s, q, Listed, Typed
<1>14. Chained'
  BY <1>6, <1>8, <1>9, <1>11, Zenon DEF c, s, q, M, Chained
<1> QED BY <1>13, <1>14 DEF Listed

LEMMA DeleteKeeps ==
    ASSUME Listed, NEW n \in Nodes, NEW p, DeletedAt(n, p), UNCHANGED <<exists, iter, pc, lev>>
    PROVE  Listed'
<1> DEFINE c == chain'
           s == sz'
           q == key'
           N == Len(chain)
           M == Len(c)
<1>1. /\ N \in Nat /\ p \in 1 .. N /\ M = N - 1 /\ c \in Seq(Nodes) /\ chain[p] = n
      /\ \A j \in 1 .. N - 1 : c[j] = IF j < p THEN chain[j] ELSE chain[j + 1]
  BY ChainIs DEF DeletedAt
<1>2. /\ \A m \in Cells : m # n => s[m] = sz[m]
      /\ \A m \in Nodes : m # n => q[m] = key[m]
      /\ s[n] = 0 /\ q[n] = 0 /\ s \in [Cells -> 0 .. MaxLevel] /\ q \in [Nodes -> Keys \cup {0}]
  BY DEF DeletedAt, Listed, Typed, Cells, Levels
<1>3. \A i \in 1 .. N : chain[i] \in Nodes
  BY ChainIs
<1>4. /\ \A i, j \in 1 .. N : chain[i] = chain[j] => i = j
      /\ \A i, j \in 1 .. N : i < j => key[chain[i]] <= key[chain[j]]
      /\ \A m \in Nodes : sz[m] # 0 <=> key[m] # 0
      /\ \A m \in Nodes : sz[m] # 0 <=> \E i \in 1 .. N : chain[i] = m
  BY DEF Listed, Chained
<1>5. n # NIL
  OBVIOUS
<1> HIDE DEF c, s, q, N, M
<1>6. \A m \in Nodes : s[m] # 0 <=> q[m] # 0
  BY <1>2, <1>4 DEF Cells
<1>7. \A j \in 1 .. M : \/ j < p /\ j \in 1 .. N /\ c[j] = chain[j]
                        \/ j >= p /\ j + 1 \in 1 .. N /\ c[j] = chain[j + 1]
  BY <1>1
<1>8. \A j \in 1 .. M : c[j] # n
  BY <1>1, <1>4, <1>7
<1>9. ASSUME NEW m \in Nodes
      PROVE  s[m] # 0 <=> \E i \in 1 .. M : c[i] = m
  <2>1. CASE m = n
    BY <1>2, <1>8, <2>1
  <2>2. CASE m # n
    <3>1. s[m] = sz[m]
      BY <1>2, <2>2 DEF Cells
    <3>2. ASSUME NEW i \in 1 .. N, chain[i] = m
          PROVE  \E j \in 1 .. M : c[j] = m
      <4>1. CASE i < p
        <5>1. i \in 1 .. M /\ c[i] = chain[i]
          BY <1>1, <4>1
        <5> QED BY <3>2, <5>1
      <4>2. CASE i > p
        <5>1. i - 1 \in 1 .. M /\ c[i - 1] = chain[(i - 1) + 1] /\ (i - 1) + 1 = i
          BY <1>1, <4>2
        <5> QED BY <3>2, <5>1
      <4>3. i # p
        BY <1>1, <2>2, <3>2
      <4> QED BY <1>1, <4>1, <4>2, <4>3
    <3>3. ASSUME NEW j \in 1 .. M, c[j] = m
          PROVE  \E i \in 1 .. N : chain[i] = m
      BY <1>7, <3>3
    <3> QED BY <1>4, <3>1, <3>2, <3>3
  <2> QED BY <2>1, <2>2
<1>10. ASSUME NEW i \in 1 .. M, NEW j \in 1 .. M, c[i] = c[j]
       PROVE  i = j
  BY <1>1, <1>4, <1>7, <1>10
<1>11. ASSUME NEW i \in 1 .. M, NEW j \in 1 .. M, i < j
       PROVE  q[c[i]] <= q[c[j]]
  <2>1. PICK a \in 1 .. N, b \in 1 .. N : c[i] = chain[a] /\ c[j] = chain[b] /\ a < b
    BY <1>1, <1>7, <1>11
  <2>2. q[c[i]] = key[chain[a]] /\ q[c[j]] = key[chain[b]]
    BY <1>2, <1>3, <1>8, <2>1
  <2> QED BY <1>4, <2>1, <2>2
<1>12. s[NIL] = MaxLevel
  BY <1>2, <1>5 DEF Listed, Typed, Cells
<1>13. Typed'
  BY <1>1, <1>2, <1>12 DEF c, s, q, Listed, Typed
<1>14. Chained'
  BY <1>6, <1>9, <1>10, <1>11, Zenon DEF c, s, q, M, Chained
<1> QED BY <1>13, <1>14 DEF Listed

LEMMA AheadIs ==
    ASSUME iter \in Iterators, NEW n \in Cells, sz[n] \in Levels
    PROVE  /\ Ahead(n) \in Iterators
           /\ Ahead(n).next = [cell |-> n, way |-> "next"] /\ Ahead(n).prev = iter.next
           /\ Ahead(n).prevlev = sz[n] /\ Ahead(n).term = iter.term
           /\ Ahead(n).range = iter.range
<1>1. [cell |-> n, way |-> "next"] \in Pointers
  BY PointerIs
<1> QED BY <1>1 DEF Ahead, Iterators

LEMMA BackIs ==
    ASSUME iter \in Iterators, NEW n \in Cells, sz[n] \in Levels
    PROVE  /\ Back(n) \in Iterators
           /\ Back(n).next = iter.prev /\ Back(n).prev = [cell |-> n, way |-> "prev"]
           /\ Back(n).prevlev = sz[n] /\ Back(n).term = iter.term /\ Back(n).range = iter.range
<1>1. [cell |-> n, way |-> "prev"] \in Pointers
  BY PointerIs
<1> QED BY <1>1 DEF Back, Iterators

LEMMA ListingIs ==
    ASSUME NEW a \in Pointers, NEW t \in Cells \cup {NULL}, NEW k \in Keys
    PROVE  Listing(a, t, k) \in Iterators
<1>1. JUNK \in Pointers /\ 1 \in Levels
  BY DEF Pointers, Levels
<1> QED BY <1>1, IteratorIs DEF Listing

LEMMA SearchIs ==
    ASSUME Listed, NEW k \in Keys, SearchALL(k)
    PROVE  /\ MayMake /\ exists' = TRUE
           /\ \/ Fresh(Listing(NoArray, NULL, k))
              \/ \E b, e \in Cells :
                    /\ \/ /\ b = NIL /\ \A j \in 1 .. Len(chain) : ~(key[chain[j]] < k)
                       \/ \E i \in 1 .. Len(chain) :
                             /\ b = chain[i] /\ key[b] < k
                             /\ \A j \in 1 .. Len(chain) : key[chain[j]] < k => j <= i
                    /\ \E i \in 1 .. Len(chain) :
                             /\ e = chain[i] /\ key[e] = k
                             /\ \A j \in 1 .. Len(chain) : key[chain[j]] = k => j <= i
                    /\ Fresh(Listing([cell |-> b, way |-> "next"], After(e, 1), k))
<1> DEFINE equal  == {i \in DOMAIN chain : key[chain[i]] = k}
           before == {i \in DOMAIN chain : key[chain[i]] < k}
           b == LastAt(before)
           e == LastAt(equal)
<1>1. MayMake /\ exists' = TRUE
  BY DEF SearchALL
<1>2. \/ equal = {} /\ Fresh(Listing(NoArray, NULL, k))
      \/ equal # {} /\ Fresh(Listing([cell |-> b, way |-> "next"], After(e, 1), k))
  BY DEF SearchALL
<1>4. Len(chain) \in Nat /\ DOMAIN chain = 1 .. Len(chain)
      /\ \A i \in 1 .. Len(chain) : chain[i] \in Cells
  BY ChainIs DEF Cells
<1>5. equal \in SUBSET (1 .. Len(chain)) /\ before \in SUBSET (1 .. Len(chain))
  BY <1>4
<1>6. /\ \A i \in 1 .. Len(chain) : i \in equal <=> key[chain[i]] = k
      /\ \A i \in 1 .. Len(chain) : i \in before <=> key[chain[i]] < k
  BY <1>4
<1> HIDE DEF equal, before
<1>7. \/ /\ b = NIL /\ \A j \in 1 .. Len(chain) : ~(key[chain[j]] < k)
      \/ \E i \in 1 .. Len(chain) :
            /\ b = chain[i] /\ key[b] < k
            /\ \A j \in 1 .. Len(chain) : key[chain[j]] < k => j <= i
  <2>1. CASE before = {}
    BY <1>6, <2>1 DEF LastAt
  <2>2. CASE before # {}
    <3> DEFINE m == Max(before)
    <3>1. m \in before /\ \A i \in before : i <= m
      BY <1>4, <1>5, <2>2, Greatest
    <3>2. b = chain[m]
      BY <2>2 DEF LastAt
    <3> HIDE DEF m, b
    <3> QED BY <1>5, <1>6, <3>1, <3>2
  <2> QED BY <2>1, <2>2
<1>8. CASE equal # {} /\ Fresh(Listing([cell |-> b, way |-> "next"], After(e, 1), k))
  <2> DEFINE m == Max(equal)
  <2>1. m \in equal /\ \A i \in equal : i <= m
    BY <1>4, <1>5, <1>8, Greatest
  <2>2. e = chain[m]
    BY <1>8 DEF LastAt
  <2> HIDE DEF m, e
  <2>3. \E i \in 1 .. Len(chain) :
           /\ e = chain[i] /\ key[e] = k
           /\ \A j \in 1 .. Len(chain) : key[chain[j]] = k => j <= i
    BY <1>5, <1>6, <2>1, <2>2
  <2>4. b \in Cells /\ e \in Cells
    <3> HIDE DEF b
    <3> QED BY <1>4, <1>7, <2>3 DEF Cells
  <2> HIDE DEF b
  <2> QED BY <1>1, <1>7, <1>8, <2>3, <2>4
<1> QED BY <1>1, <1>2, <1>8

-----------------------------------------------------------------------------
(* What the steps of the iterator do to the types                           *)

LEMMA FreshKeeps ==
    ASSUME Listed, NEW i \in Iterators, Fresh(i), exists' \in BOOLEAN
    PROVE  Listed'
<1>1. UNCHANGED shape /\ iter' \in Iterators
  BY Zenon DEF Fresh
<1>2. pc' \in [Users -> Places] /\ lev' \in [Users -> Levels]
  <2>1. pc' = pc /\ lev' = lev
    BY Zenon DEF Fresh
  <2>2. pc \in [Users -> Places] /\ lev \in [Users -> Levels]
    BY Zenon DEF Listed, Typed
  <2> QED BY <2>1, <2>2, Zenon
<1> QED BY <1>1, <1>2, SameShape, Zenon

(* A step of user u that leaves the list alone.                              *)
LEMMA CallKeeps ==
    ASSUME Listed, NEW u \in Users, UNCHANGED <<shape, exists>>, iter' \in Iterators,
           NEW place \in Places, NEW l \in Levels,
           pc' = [pc EXCEPT ![u] = place] \/ pc' = pc,
           lev' = [lev EXCEPT ![u] = l] \/ lev' = lev
    PROVE  Listed'
<1>1. pc \in [Users -> Places] /\ lev \in [Users -> Levels] /\ exists \in BOOLEAN
  BY Zenon DEF Listed, Typed
<1>2. pc' \in [Users -> Places] /\ lev' \in [Users -> Levels]
  BY <1>1
<1>3. exists' \in BOOLEAN /\ UNCHANGED shape
  BY <1>1, Zenon
<1> QED BY <1>2, <1>3, SameShape, Zenon

LEMMA TestIs ==
    ASSUME NEW u \in Users, NEW way \in {"next", "prev"}, NEW a, NEW end, Test(u, way, a, end)
    PROVE  /\ UNCHANGED <<shape, exists, iter, lev, last>> /\ pc[u] = way /\ Valid(a, lev[u])
           /\ \/ /\ pc' = [pc EXCEPT ![u] = "idle"]
                 /\ reply' = [op |-> way, lev |-> lev[u], node |-> NULL]
              \/ /\ ~end /\ reply' = reply
                 /\ pc' = [pc EXCEPT ![u] = IF way = "next" THEN "movenext" ELSE "moveprev"]
<1>1. /\ pc[u] = way /\ Valid(a, lev[u]) /\ UNCHANGED <<iter, last>>
      /\ \/ end /\ Answer(u, way, NULL)
         \/ /\ ~end
            /\ pc' = [pc EXCEPT ![u] = IF way = "next" THEN "movenext" ELSE "moveprev"]
            /\ UNCHANGED <<shape, exists, lev, reply>>
  BY DEF Test
<1> QED BY <1>1 DEF Answer

LEMMA MoveIs ==
    ASSUME Listed, NEW u \in Users, MoveNext(u) \/ MovePrev(u)
    PROVE  /\ UNCHANGED <<shape, exists, lev>> /\ pc' = [pc EXCEPT ![u] = "idle"]
           /\ \/ /\ pc[u] = "movenext" /\ Valid(iter.next, lev[u]) /\ last' = "next"
                 /\ iter' = Ahead(At(iter.next, lev[u]))
                 /\ reply' = [op |-> "next", lev |-> lev[u], node |-> At(iter.next, lev[u])]
              \/ /\ pc[u] = "moveprev" /\ Valid(iter.prev, lev[u]) /\ last' = "prev"
                 /\ iter' = Back(At(iter.prev, lev[u]))
                 /\ reply' = [op |-> "prev", lev |-> lev[u], node |-> At(iter.prev, lev[u])]
<1>1. CASE MoveNext(u)
  BY <1>1 DEF MoveNext, Answer
<1>2. CASE MovePrev(u)
  BY <1>2 DEF MovePrev, Answer
<1> QED BY <1>1, <1>2

LEMMA MoveKeeps ==
    ASSUME Listed, NEW u \in Users, MoveNext(u) \/ MovePrev(u)
    PROVE  Listed'
<1>1. iter' \in Iterators
  <2>1. lev[u] \in Levels /\ iter \in Iterators
    BY DEF Listed, Typed
  <2>2. \/ iter' = Ahead(At(iter.next, lev[u]))
        \/ iter' = Back(At(iter.prev, lev[u]))
    BY MoveIs, Zenon
  <2>3. ASSUME NEW a PROVE At(a, lev[u]) \in Cells /\ sz[At(a, lev[u])] \in Levels
    BY <2>1, AtIs
  <2> QED BY <2>1, <2>2, <2>3, AheadIs, BackIs, Zenon
<1>2. UNCHANGED <<shape, exists>> /\ lev' = lev /\ pc' = [pc EXCEPT ![u] = "idle"]
  BY MoveIs
<1>3. "idle" \in Places /\ 1 \in Levels
  BY DEF Places, Levels
<1> QED BY <1>1, <1>2, <1>3, CallKeeps, Zenon

LEMMA SearchKeeps ==
    ASSUME Listed, NEW k \in Keys, SearchALL(k)
    PROVE  Listed'
<1>1. NoArray \in Pointers /\ NULL \in Cells \cup {NULL}
  BY DEF Pointers
<1>2. ASSUME NEW b \in Cells, NEW e
      PROVE  [cell |-> b, way |-> "next"] \in Pointers /\ After(e, 1) \in Cells \cup {NULL}
  <2>1. After(e, 1) = NIL \/ \E i \in 1 .. Len(chain) : After(e, 1) = chain[i]
    BY AfterIs DEF AfterAt
  <2>2. After(e, 1) \in Cells
    BY <2>1, ChainIs DEF Cells
  <2> QED BY <2>2, PointerIs
<1>3. exists' \in BOOLEAN
  BY SearchIs, Zenon
<1>4. \E i \in Iterators : Fresh(i)
  BY <1>1, <1>2, SearchIs, ListingIs, ZenonT(40)
<1> QED BY <1>3, <1>4, FreshKeeps, Zenon

LEMMA CellKeeps ==
    ASSUME Listed, NEW c \in Cells,
           SetIterator(c) \/ ResetIterator(c) \/ (DestroyIterator /\ c = NIL)
    PROVE  Listed'
<1>1. c = NIL \/ sz[c] # 0
  BY Zenon DEF SetIterator, ResetIterator
<1>2. exists' \in BOOLEAN
  BY Zenon DEF SetIterator, ResetIterator, DestroyIterator, Listed, Typed
<1>3. Fresh(AtCell(c, sz[c]))
  <2>1. sz[NIL] = MaxLevel
    BY DEF Listed, Typed
  <2> QED BY <2>1, Zenon DEF SetIterator, ResetIterator, DestroyIterator
<1>4. AtCell(c, sz[c]) \in Iterators
  BY <1>1, AtCellIs, Zenon
<1> QED BY <1>2, <1>3, <1>4, FreshKeeps, Zenon

LEMMA AskKeeps ==
    ASSUME Listed, NEW u \in Users, NEW way \in {"next", "prev"},
           (\E l \in Levels : Ask(u, way, l)) \/ AskNothing(u, way)
    PROVE  Listed'
<1>1. iter' = iter /\ iter \in Iterators
  BY Zenon DEF Ask, AskNothing, Listed, Typed
<1>2. way \in Places /\ "crashed" \in Places /\ 1 \in Levels
  BY DEF Places, Levels
<1>3. CASE \E l \in Levels : Ask(u, way, l)
  <2>1. PICK l \in Levels : Ask(u, way, l)
    BY <1>3
  <2>2. UNCHANGED <<shape, exists>> /\ pc' = [pc EXCEPT ![u] = way] /\ lev' = [lev EXCEPT ![u] = l]
    BY <2>1 DEF Ask
  <2> QED BY <1>1, <1>2, <2>2, CallKeeps, Zenon
<1>4. CASE AskNothing(u, way)
  <2>1. /\ UNCHANGED <<shape, exists>> /\ lev' = lev
        /\ pc' = [pc EXCEPT ![u] = "crashed"] \/ pc' = pc
    BY <1>4 DEF AskNothing
  <2> QED BY <1>1, <1>2, <2>1, CallKeeps, Zenon
<1> QED BY <1>3, <1>4

LEMMA TestKeeps ==
    ASSUME Listed, NEW u \in Users, TestNext(u) \/ TestPrev(u)
    PROVE  Listed'
<1>1. iter \in Iterators /\ "idle" \in Places /\ "movenext" \in Places /\ "moveprev" \in Places
      /\ 1 \in Levels
  BY DEF Listed, Typed, Places, Levels
<1>2. ASSUME NEW way \in {"next", "prev"}, NEW a, NEW end, Test(u, way, a, end)
      PROVE  Listed'
  <2>1. /\ UNCHANGED <<shape, exists>> /\ iter' = iter /\ lev' = lev
        /\ \/ pc' = [pc EXCEPT ![u] = "idle"]
           \/ pc' = [pc EXCEPT ![u] = IF way = "next" THEN "movenext" ELSE "moveprev"]
    BY <1>2, TestIs
  <2>2. (IF way = "next" THEN "movenext" ELSE "moveprev") \in Places
    BY <1>1
  <2> QED BY <1>1, <2>1, <2>2, CallKeeps, Zenon
<1>3. CASE iter.next = NoArray /\ Answer(u, "next", NULL) /\ UNCHANGED <<iter, last>>
  <2>1. /\ UNCHANGED <<shape, exists>> /\ iter' = iter /\ lev' = lev
        /\ pc' = [pc EXCEPT ![u] = "idle"]
    BY <1>3 DEF Answer
  <2> QED BY <1>1, <2>1, CallKeeps, Zenon
<1>4. \/ \E way \in {"next", "prev"} : \E a, end : Test(u, way, a, end)
      \/ iter.next = NoArray /\ Answer(u, "next", NULL) /\ UNCHANGED <<iter, last>>
  BY Zenon DEF TestNext, TestPrev
<1> QED BY <1>2, <1>3, <1>4, Zenon

LEMMA WriteKeeps ==
    ASSUME Listed, NEW n \in Nodes,
           (\E k \in Keys, h \in Levels : Insert(n, k, h)) \/ Delete(n)
    PROVE  Listed'
<1>1. UNCHANGED <<exists, iter, pc, lev>>
  BY Zenon DEF Insert, Delete
<1>2. CASE \E k \in Keys, h \in Levels : Insert(n, k, h)
  <2>1. PICK k \in Keys, h \in Levels : Insert(n, k, h)
    BY <1>2
  <2>2. sz[n] = 0
    BY <2>1 DEF Insert
  <2>3. PICK p : InsertedAt(n, k, h, p)
    BY <2>1, InsertIs
  <2> QED BY <1>1, <2>2, <2>3, InsertKeeps
<1>3. CASE Delete(n)
  <2>1. PICK p : DeletedAt(n, p)
    BY <1>3, DeleteIs
  <2> QED BY <1>1, <2>1, DeleteKeeps
<1> QED BY <1>2, <1>3

LEMMA StutterKeeps ==
    ASSUME Listed, UNCHANGED vars
    PROVE  Listed'
<1>1. /\ iter' = iter /\ exists' = exists /\ pc' = pc /\ lev' = lev /\ UNCHANGED shape
  BY Zenon DEF vars
<1>2. iter \in Iterators /\ exists \in BOOLEAN /\ pc \in [Users -> Places]
      /\ lev \in [Users -> Levels]
  BY Zenon DEF Listed, Typed
<1> QED BY <1>1, <1>2, SameShape, Zenon

LEMMA StepKeeps == Listed /\ [Next]_vars => Listed'
<1> SUFFICES ASSUME Listed, [Next]_vars PROVE Listed'
  OBVIOUS
<1>1. CASE \E n \in Nodes : (\E k \in Keys, h \in Levels : Insert(n, k, h)) \/ Delete(n)
  BY <1>1, WriteKeeps
<1>2. CASE \E c \in Cells : SetIterator(c) \/ ResetIterator(c) \/ (DestroyIterator /\ c = NIL)
  BY <1>2, CellKeeps
<1>3. CASE \E k \in Keys : SearchALL(k)
  BY <1>3, SearchKeeps
<1>4. CASE \E u \in Users, way \in {"next", "prev"} :
              (\E l \in Levels : Ask(u, way, l)) \/ AskNothing(u, way)
  BY <1>4, AskKeeps
<1>5. CASE \E u \in Users : TestNext(u) \/ TestPrev(u)
  BY <1>5, TestKeeps
<1>6. CASE \E u \in Users : MoveNext(u) \/ MovePrev(u)
  BY <1>6, MoveKeeps
<1>7. CASE UNCHANGED vars
  BY <1>7, StutterKeeps
<1>8. NIL \in Cells
  BY DEF Cells
<1> QED BY <1>1, <1>2, <1>3, <1>4, <1>5, <1>6, <1>7, <1>8, Zenon DEF Next

(* The list stays sorted, without repetitions, made of the nodes that have a  *)
(* height and a key, and every variable keeps its type, whatever the program  *)
(* does with the iterator (skl_ins.c, skl_del.c, skl_iter.c).                 *)
THEOREM Typing == Spec => []TypeOK
<1>1. Listed => TypeOK
  <2> SUFFICES ASSUME Listed PROVE TypeOK
    OBVIOUS
  <2>1. /\ iter.next \in Pointers /\ iter.prev \in Pointers /\ iter.prevlev \in Levels
        /\ iter.term \in Cells \cup {NULL}
    BY FieldsOf DEF Listed, Typed
  <2>2. {iter.next, iter.prev} \subseteq Arrays \cup {NoArray, JUNK}
    BY <2>1 DEF Pointers
  <2>3. /\ chain \in Seq(Nodes)
        /\ sz \in [Cells -> 0 .. MaxLevel] /\ key \in [Nodes -> Keys \cup {0}]
        /\ exists \in BOOLEAN /\ lev \in [Users -> Levels]
        /\ pc \in [Users -> {"idle", "next", "prev", "movenext", "moveprev", "crashed"}]
    BY Zenon DEF Listed, Typed, Places
  <2> QED BY <2>1, <2>2, <2>3, Zenon DEF TypeOK
<1> QED BY <1>1, InitIs, StepKeeps, PTL DEF Spec

-----------------------------------------------------------------------------
(* One cautious user                                                        *)

(* What the theorems below assume of the program: it keeps the rules, and    *)
(* one thread uses the iterator.                                             *)
Cautious == {"keep", "quiet", "way", "forward", "own", "made"} \subseteq Contract
Alone    == \A u, v \in Users : u = v

There(c) == c \in Cells /\ sz[c] # 0

(* Where the iterator points.                                                *)
Pointing ==
    exists =>
        /\ iter.next = NoArray \/ There(iter.next.cell)
        /\ iter.range = 0 => There(iter.next.cell) /\ There(iter.prev.cell)
        /\ iter.term = NULL \/ There(iter.term)
        /\ iter.range = 0 /\ last \in {"set", "next"} => iter.prevlev <= sz[iter.next.cell]
        /\ iter.range = 0 /\ last \in {"set", "prev"} => iter.prevlev <= sz[iter.prev.cell]

(* Where its user is.                                                        *)
Calling ==
    \A u \in Users :
        /\ pc[u] # "crashed"
        /\ pc[u] # "idle" => exists
        /\ pc[u] \in {"next", "movenext"} /\ iter.range # 0 => lev[u] = 1
        /\ pc[u] = "next" => iter.next = NoArray \/ Valid(iter.next, lev[u])
        /\ pc[u] = "movenext" => Valid(iter.next, lev[u]) /\ ~EndAhead(lev[u])
        /\ pc[u] \in {"prev", "moveprev"} => iter.range = 0 /\ Valid(iter.prev, lev[u])
        /\ pc[u] = "moveprev" => ~EndBack(lev[u])

(* The nodes with the keys below k are at or before cell c.                  *)
BelowEnds(c, k) ==
    /\ c # NIL => key[c] <= k
    /\ \A j \in 1 .. Len(chain) :
          key[chain[j]] < k => c # NIL /\ \A i \in 1 .. Len(chain) : chain[i] = c => j <= i

(* Those with the keys above k are at or after cell t.                       *)
AboveBegins(t, k) ==
    /\ t # NIL => key[t] > k
    /\ \A j \in 1 .. Len(chain) :
          key[chain[j]] > k => t # NIL /\ \A i \in 1 .. Len(chain) : chain[i] = t => i <= j

Ranging ==
    exists /\ iter.range # 0 /\ iter.next # NoArray =>
        /\ iter.next.way = "next" /\ iter.term # NULL
        /\ BelowEnds(iter.next.cell, iter.range)
        /\ AboveBegins(iter.term, iter.range)

Replying ==
    /\ AnswersAreNodes
    /\ WithinRange

IInv == Listed /\ Pointing /\ Calling /\ Ranging /\ Replying

LEMMA SameEnds ==
    ASSUME UNCHANGED <<shape, iter>>, NEW l
    PROVE  (EndAhead(l)' <=> EndAhead(l)) /\ (EndBack(l)' <=> EndBack(l))
<1>1. chain' = chain /\ sz' = sz /\ iter' = iter
  BY DEF shape
<1> QED BY <1>1 DEF EndAhead, EndBack, At, After, Before, FirstAt, LastAt, Pos

LEMMA SameRanging ==
    ASSUME Ranging, UNCHANGED <<shape, exists, iter>>
    PROVE  Ranging'
<1>1. chain' = chain /\ key' = key /\ iter' = iter /\ exists' = exists
  BY DEF shape
<1> QED BY <1>1 DEF Ranging, BelowEnds, AboveBegins

LEMMA SamePointing ==
    ASSUME Pointing, UNCHANGED <<shape, exists, iter, last>>
    PROVE  Pointing'
<1>1. sz' = sz /\ iter' = iter /\ exists' = exists /\ last' = last
  BY DEF shape
<1> QED BY <1>1 DEF Pointing, There, Cells

LEMMA SameReply ==
    ASSUME Replying, UNCHANGED <<shape, iter, reply>>
    PROVE  Replying'
<1>1. sz' = sz /\ key' = key /\ iter' = iter /\ reply' = reply
  BY DEF shape
<1> QED BY <1>1 DEF Replying, AnswersAreNodes, WithinRange

LEMMA SameCalling ==
    ASSUME Calling, UNCHANGED <<shape, exists, iter, pc, lev>>
    PROVE  Calling'
<1>1. chain' = chain /\ sz' = sz /\ iter' = iter /\ exists' = exists /\ pc' = pc /\ lev' = lev
  BY DEF shape
<1>2. ASSUME NEW u \in Users
      PROVE  /\ EndAhead(lev[u])' <=> EndAhead(lev[u])
             /\ EndBack(lev[u])' <=> EndBack(lev[u])
  BY <1>1 DEF EndAhead, EndBack, At, After, Before, FirstAt, LastAt, Pos
<1>3. ASSUME NEW u \in Users
      PROVE  /\ Valid(iter.next, lev[u])' <=> Valid(iter.next, lev[u])
             /\ Valid(iter.prev, lev[u])' <=> Valid(iter.prev, lev[u])
  BY <1>1 DEF Valid, Cells
<1> QED BY <1>1, <1>2, <1>3 DEF Calling

(* A step that nobody is in a call at.                                       *)
LEMMA NobodyCalls ==
    ASSUME \A u \in Users : pc'[u] = "idle"
    PROVE  Calling'
BY DEF Calling

LEMMA SameAll ==
    ASSUME IInv, UNCHANGED vars
    PROVE  Pointing' /\ Calling' /\ Ranging' /\ Replying'
BY SameRanging, SamePointing, SameReply, SameCalling DEF IInv, vars

-----------------------------------------------------------------------------
(* Insertions and deletions                                                 *)

LEMMA WriteIs ==
    ASSUME IInv, Cautious, NEW n \in Nodes,
           (\E k \in Keys, h \in Levels : Insert(n, k, h)) \/ Delete(n)
    PROVE  /\ UNCHANGED <<exists, iter, last, pc, lev>> /\ reply' = [op |-> "write"]
           /\ \A u \in Users : pc[u] \in {"idle", "next"}
           /\ \A c \in Nodes \ {n} : sz'[c] = sz[c] /\ key'[c] = key[c]
           /\ \A c \in Held : There(c) => sz'[c] = sz[c] /\ c # n
<1>1. /\ UNCHANGED <<exists, iter, last, pc, lev>> /\ reply' = [op |-> "write"] /\ ~Reading
  BY Zenon DEF Insert, Delete
<1>2. sz \in [Cells -> 0 .. MaxLevel] /\ key \in [Nodes -> Keys \cup {0}]
  BY DEF IInv, Listed, Typed
<1>3. /\ \A c \in Cells \ {n} : sz'[c] = sz[c]
      /\ \A c \in Nodes \ {n} : key'[c] = key[c]
  <2>1. CASE \E k \in Keys, h \in Levels : Insert(n, k, h)
    <3>1. \E k, h : sz' = [sz EXCEPT ![n] = h] /\ key' = [key EXCEPT ![n] = k]
      BY <2>1 DEF Insert
    <3> QED BY <1>2, <3>1 DEF Cells
  <2>2. CASE Delete(n)
    <3>1. sz' = [sz EXCEPT ![n] = 0] /\ key' = [key EXCEPT ![n] = 0]
      BY <2>2 DEF Delete
    <3> QED BY <1>2, <3>1 DEF Cells
  <2> QED BY <2>1, <2>2
<1>4. ASSUME NEW c \in Held, There(c) PROVE c # n
  <2>1. CASE \E k \in Keys, h \in Levels : Insert(n, k, h)
    BY <1>4, <2>1 DEF Insert, There
  <2>2. CASE Delete(n)
    BY <1>4, <2>2 DEF Delete, MayDelete, Cautious
  <2> QED BY <2>1, <2>2
<1>5. \A c \in Held : There(c) => sz'[c] = sz[c] /\ c # n
  BY <1>3, <1>4 DEF There
<1>6. \A u \in Users : pc[u] \in {"idle", "next"}
  BY <1>1, Zenon DEF Reading
<1>7. \A c \in Nodes \ {n} : sz'[c] = sz[c] /\ key'[c] = key[c]
  BY <1>3 DEF Cells
<1> QED BY <1>1, <1>5, <1>6, <1>7

LEMMA HeldIs ==
    ASSUME exists
    PROVE  iter.next.cell \in Held /\ iter.prev.cell \in Held /\ iter.term \in Held
BY DEF Held

LEMMA WritePoints ==
    ASSUME IInv, Cautious, NEW n \in Nodes,
           (\E k \in Keys, h \in Levels : Insert(n, k, h)) \/ Delete(n)
    PROVE  Pointing'
<1>1. exists' = exists /\ iter' = iter /\ last' = last
  BY WriteIs
<1>2. \A c \in Held : There(c) => sz'[c] = sz[c]
  BY WriteIs
<1> SUFFICES ASSUME exists PROVE Pointing'
  BY <1>1 DEF Pointing
<1>3. \A c \in {iter.next.cell, iter.prev.cell, iter.term} :
         There(c) => c \in Cells /\ sz[c] # 0 /\ sz'[c] = sz[c]
  BY <1>2, HeldIs DEF There
<1>4. Pointing
  BY DEF IInv
<1> QED BY <1>1, <1>3, <1>4 DEF Pointing, There, Cells

LEMMA WriteCalls ==
    ASSUME IInv, Cautious, NEW n \in Nodes,
           (\E k \in Keys, h \in Levels : Insert(n, k, h)) \/ Delete(n)
    PROVE  Calling'
<1>1. /\ exists' = exists /\ iter' = iter /\ pc' = pc /\ lev' = lev
      /\ \A u \in Users : pc[u] \in {"idle", "next"}
  BY WriteIs
<1>2. \A c \in Held : There(c) => sz'[c] = sz[c]
  BY WriteIs
<1>3. Pointing /\ Calling
  BY DEF IInv
<1>4. exists /\ iter.next # NoArray => sz'[iter.next.cell] = sz[iter.next.cell]
  BY <1>2, <1>3, HeldIs DEF Pointing
<1>5. ASSUME NEW u \in Users, pc[u] = "next"
      PROVE  iter.next = NoArray \/ Valid(iter.next, lev[u])'
  BY <1>1, <1>3, <1>4, <1>5 DEF Calling, Valid, Cells
<1>6. \A u \in Users : /\ pc'[u] # "crashed" /\ (pc'[u] # "idle" => exists')
                       /\ pc'[u] \in {"idle", "next"}
                       /\ pc'[u] \in {"next", "movenext"} /\ iter'.range # 0 => lev'[u] = 1
  BY <1>1, <1>3 DEF Calling
<1>7. \A u \in Users : pc'[u] = "next" => iter'.next = NoArray \/ Valid(iter.next, lev[u])'
  BY <1>1, <1>5
<1> QED BY <1>6, <1>7 DEF Calling

(* Two nodes that stay are in the same order before and after.               *)
OrderKept(n) ==
    \A i2, j2 \in 1 .. Len(chain') :
        chain'[i2] # n /\ chain'[j2] # n =>
            \E i, j \in 1 .. Len(chain) :
                chain[i] = chain'[i2] /\ chain[j] = chain'[j2] /\ (j <= i => j2 <= i2)

LEMMA InsertOrder ==
    ASSUME Listed, NEW n \in Nodes, NEW k, NEW h, NEW p, InsertedAt(n, k, h, p)
    PROVE  OrderKept(n)
<1> DEFINE c == chain'
           N == Len(chain)
           M == Len(c)
<1>1. /\ N \in Nat /\ p \in 1 .. N + 1 /\ M = N + 1
      /\ \A j \in 1 .. N + 1 : c[j] = IF j < p THEN chain[j] ELSE IF j = p THEN n ELSE chain[j - 1]
  BY ChainIs DEF InsertedAt
<1> HIDE DEF c, N, M
<1>2. ASSUME NEW i2 \in 1 .. M, NEW j2 \in 1 .. M, c[i2] # n, c[j2] # n
      PROVE  \E i, j \in 1 .. N : chain[i] = c[i2] /\ chain[j] = c[j2] /\ (j <= i => j2 <= i2)
  <2> DEFINE i == IF i2 < p THEN i2 ELSE i2 - 1
             j == IF j2 < p THEN j2 ELSE j2 - 1
  <2>1. i \in 1 .. N /\ chain[i] = c[i2] /\ i2 # p
    BY <1>1, <1>2
  <2>2. j \in 1 .. N /\ chain[j] = c[j2] /\ j2 # p
    BY <1>1, <1>2
  <2>3. j <= i => j2 <= i2
    BY <1>1, <2>1, <2>2
  <2> HIDE DEF i, j
  <2> QED BY <2>1, <2>2, <2>3
<1> QED BY <1>2, Zenon DEF OrderKept, c, M, N

LEMMA DeleteOrder ==
    ASSUME Listed, NEW n \in Nodes, NEW p, DeletedAt(n, p)
    PROVE  OrderKept(n) /\ \A j \in 1 .. Len(chain') : chain'[j] # n
<1> DEFINE c == chain'
           N == Len(chain)
           M == Len(c)
<1>1. /\ N \in Nat /\ p \in 1 .. N /\ M = N - 1 /\ chain[p] = n
      /\ \A j \in 1 .. N - 1 : c[j] = IF j < p THEN chain[j] ELSE chain[j + 1]
  BY ChainIs DEF DeletedAt
<1>2. \A i, j \in 1 .. N : chain[i] = chain[j] => i = j
  BY DEF Listed, Chained
<1> HIDE DEF c, N, M
<1>3. ASSUME NEW i2 \in 1 .. M, NEW j2 \in 1 .. M
      PROVE  \E i, j \in 1 .. N : chain[i] = c[i2] /\ chain[j] = c[j2] /\ (j <= i => j2 <= i2)
  <2> DEFINE i == IF i2 < p THEN i2 ELSE i2 + 1
             j == IF j2 < p THEN j2 ELSE j2 + 1
  <2>1. i \in 1 .. N /\ chain[i] = c[i2]
    BY <1>1
  <2>2. j \in 1 .. N /\ chain[j] = c[j2]
    BY <1>1
  <2>3. j <= i => j2 <= i2
    BY <1>1
  <2> HIDE DEF i, j
  <2> QED BY <2>1, <2>2, <2>3
<1>4. \A j \in 1 .. M : c[j] # n
  <2> SUFFICES ASSUME NEW j2 \in 1 .. M PROVE c[j2] # n
    OBVIOUS
  <2> DEFINE i == IF j2 < p THEN j2 ELSE j2 + 1
  <2>1. i \in 1 .. N /\ chain[i] = c[j2] /\ i # p
    BY <1>1
  <2> HIDE DEF i
  <2> QED BY <1>1, <1>2, <2>1
<1> QED BY <1>3, <1>4, Zenon DEF OrderKept, c, M, N

LEMMA WriteOrders ==
    ASSUME IInv, Cautious, NEW n \in Nodes,
           (\E k \in Keys, h \in Levels : Insert(n, k, h)) \/ Delete(n)
    PROVE  /\ OrderKept(n)
           /\ iter.range # 0 => \A j \in 1 .. Len(chain') : chain'[j] = n => key'[n] = iter.range
<1>1. Listed
  BY DEF IInv
<1>2. CASE \E k \in Keys, h \in Levels : Insert(n, k, h)
  <2>1. PICK k \in Keys, h \in Levels : Insert(n, k, h)
    BY <1>2
  <2>2. PICK p : InsertedAt(n, k, h, p)
    BY <1>1, <2>1, InsertIs
  <2>3. iter.range # 0 => key'[n] = iter.range
    BY <1>1, <2>1 DEF Insert, MayInsert, Cautious, Listed, Typed
  <2> QED BY <1>1, <2>2, <2>3, InsertOrder
<1>3. CASE Delete(n)
  <2>1. PICK p : DeletedAt(n, p)
    BY <1>1, <1>3, DeleteIs
  <2> QED BY <1>1, <2>1, DeleteOrder
<1> QED BY <1>2, <1>3

LEMMA WriteRanges ==
    ASSUME IInv, Cautious, NEW n \in Nodes,
           (\E k \in Keys, h \in Levels : Insert(n, k, h)) \/ Delete(n)
    PROVE  Ranging'
<1> DEFINE c == iter.next.cell
           t == iter.term
           k == iter.range
           Q == key'
           C == chain'
           M == Len(C)
<1>1. exists' = exists /\ iter' = iter
  BY WriteIs
<1> SUFFICES ASSUME exists, iter.range # 0, iter.next # NoArray PROVE Ranging'
  BY <1>1 DEF Ranging
<1>2. /\ iter.next.way = "next" /\ iter.term # NULL
      /\ BelowEnds(c, k) /\ AboveBegins(t, k) /\ There(c) /\ There(t)
  BY DEF IInv, Ranging, Pointing
<1>3. c # n /\ t # n /\ \A m \in Nodes \ {n} : Q[m] = key[m]
  BY <1>2, WriteIs, HeldIs, ZenonT(40)
<1>4. /\ c # NIL => Q[c] = key[c]
      /\ t # NIL => Q[t] = key[t]
  BY <1>2, <1>3 DEF There, Cells
<1>5. OrderKept(n) /\ \A j \in 1 .. M : C[j] = n => Q[n] = k
  BY WriteOrders
<1>6. \A i \in 1 .. Len(chain) : chain[i] \in Nodes
  BY ChainIs DEF IInv
<1>7. k \in Nat
  BY DEF IInv, Listed, Typed, Iterators
<1> HIDE DEF c, t, k
<1>8. ASSUME NEW j \in 1 .. M, Q[C[j]] < k
      PROVE  c # NIL /\ \A i \in 1 .. M : C[i] = c => j <= i
  <2>1. C[j] # n
    BY <1>5, <1>7, <1>8
  <2>2. ASSUME NEW i \in 1 .. M, C[i] # n
        PROVE  \E i1, j1 \in 1 .. Len(chain) : /\ chain[i1] = C[i] /\ chain[j1] = C[j]
                                               /\ (j1 <= i1 => j <= i)
                                               /\ key[chain[j1]] < k
    <3>1. PICK i1 \in 1 .. Len(chain), j1 \in 1 .. Len(chain) :
                chain[i1] = C[i] /\ chain[j1] = C[j] /\ (j1 <= i1 => j <= i)
      BY <1>5, <2>1, <2>2 DEF OrderKept
    <3>2. key[chain[j1]] < k
      BY <1>3, <1>6, <1>8, <2>1, <3>1
    <3> QED BY <3>1, <3>2
  <2>3. c # NIL
    BY <1>2, <2>1, <2>2 DEF BelowEnds
  <2>4. ASSUME NEW i \in 1 .. M, C[i] = c
        PROVE  j <= i
    <3>1. C[i] # n
      BY <1>3, <2>4
    <3> QED BY <1>2, <2>2, <2>4, <3>1 DEF BelowEnds
  <2> QED BY <2>3, <2>4
<1>9. ASSUME NEW j \in 1 .. M, Q[C[j]] > k
      PROVE  t # NIL /\ \A i \in 1 .. M : C[i] = t => i <= j
  <2>1. C[j] # n
    BY <1>5, <1>7, <1>9
  <2>2. ASSUME NEW i \in 1 .. M, C[i] # n
        PROVE  \E i1, j1 \in 1 .. Len(chain) : /\ chain[i1] = C[i] /\ chain[j1] = C[j]
                                               /\ (i1 <= j1 => i <= j)
                                               /\ key[chain[j1]] > k
    <3>1. PICK i1 \in 1 .. Len(chain), j1 \in 1 .. Len(chain) :
                chain[i1] = C[i] /\ chain[j1] = C[j] /\ (i1 <= j1 => i <= j)
      BY <1>5, <2>1, <2>2 DEF OrderKept
    <3>2. key[chain[j1]] > k
      BY <1>3, <1>6, <1>9, <2>1, <3>1
    <3> QED BY <3>1, <3>2
  <2>3. t # NIL
    BY <1>2, <2>1, <2>2 DEF AboveBegins
  <2>4. ASSUME NEW i \in 1 .. M, C[i] = t
        PROVE  i <= j
    <3>1. C[i] # n
      BY <1>3, <2>4
    <3> QED BY <1>2, <2>2, <2>4, <3>1 DEF AboveBegins
  <2> QED BY <2>3, <2>4
<1>10. (c # NIL => Q[c] <= k) /\ (t # NIL => Q[t] > k)
  BY <1>2, <1>4 DEF BelowEnds, AboveBegins
<1> HIDE DEF Q, C, M
<1>11. Ranging' <=>
          (exists' /\ iter'.range # 0 /\ iter'.next # NoArray =>
              /\ iter'.next.way = "next" /\ iter'.term # NULL
              /\ BelowEnds(iter.next.cell, iter.range)'
              /\ AboveBegins(iter.term, iter.range)')
  BY DEF Ranging
<1>12. BelowEnds(iter.next.cell, iter.range)'
  BY <1>1, <1>8, <1>10, Zenon DEF BelowEnds, c, k, Q, C, M
<1>13. AboveBegins(iter.term, iter.range)'
  BY <1>1, <1>9, <1>10, Zenon DEF AboveBegins, t, k, Q, C, M
<1> QED BY <1>1, <1>2, <1>11, <1>12, <1>13

LEMMA WriteSafe ==
    ASSUME IInv, Cautious, NEW n \in Nodes,
           (\E k \in Keys, h \in Levels : Insert(n, k, h)) \/ Delete(n)
    PROVE  Pointing' /\ Calling' /\ Ranging' /\ Replying'
<1>1. reply' = [op |-> "write"]
  BY WriteIs
<1>2. Replying'
  BY <1>1 DEF Replying, AnswersAreNodes, WithinRange
<1> QED BY <1>2, WritePoints, WriteCalls, WriteRanges

-----------------------------------------------------------------------------
(* The iterator is made, reset or destroyed                                 *)

LEMMA FreshSafe ==
    ASSUME IInv, Cautious, NEW i, Fresh(i), MayMake \/ MayReplace
    PROVE  Calling' /\ Replying'
<1>1. \A u \in Users : pc[u] = "idle"
  BY DEF MayMake, MayReplace, Cautious, IInv, Calling
<1>2. pc' = pc /\ reply' = [op |-> "set"]
  BY DEF Fresh
<1>3. Calling'
  BY <1>1, <1>2, NobodyCalls
<1>4. Replying'
  BY <1>2 DEF Replying, AnswersAreNodes, WithinRange
<1> QED BY <1>3, <1>4

LEMMA CellSafe ==
    ASSUME IInv, Cautious, NEW c \in Cells,
           SetIterator(c) \/ ResetIterator(c) \/ (DestroyIterator /\ c = NIL)
    PROVE  Pointing' /\ Calling' /\ Ranging' /\ Replying'
<1>1. sz[NIL] = MaxLevel /\ sz \in [Cells -> 0 .. MaxLevel]
  BY DEF IInv, Listed, Typed
<1>2. /\ MayMake \/ MayReplace
      /\ c = NIL \/ sz[c] # 0
      /\ Fresh(AtCell(c, sz[c]))
  BY <1>1, Zenon DEF SetIterator, ResetIterator, DestroyIterator
<1>3. There(c) /\ sz[c] \in Nat
  BY <1>1, <1>2 DEF There
<1>4. sz' = sz /\ iter' = AtCell(c, sz[c])
  BY <1>2 DEF Fresh, shape
<1>5. iter'.next.cell = c /\ iter'.prev.cell = c /\ iter'.term = NULL /\ iter'.range = 0
      /\ iter'.prevlev = sz[c]
  BY <1>4 DEF AtCell
<1>6. Pointing'
  BY <1>3, <1>4, <1>5 DEF Pointing, There, Cells
<1>7. Ranging'
  BY <1>5 DEF Ranging
<1> QED BY <1>2, <1>6, <1>7, FreshSafe

LEMMA SearchEnds ==
    ASSUME Listed, NEW k \in Keys, NEW b \in Cells,
           \/ /\ b = NIL /\ \A j \in 1 .. Len(chain) : ~(key[chain[j]] < k)
           \/ \E i \in 1 .. Len(chain) :
                 /\ b = chain[i] /\ key[b] < k
                 /\ \A j \in 1 .. Len(chain) : key[chain[j]] < k => j <= i
    PROVE  BelowEnds(b, k) /\ There(b)
<1>1. k \in Nat /\ \A i, j \in 1 .. Len(chain) : chain[i] = chain[j] => i = j
  BY DEF Listed, Chained
<1>2. CASE b = NIL /\ \A j \in 1 .. Len(chain) : ~(key[chain[j]] < k)
  BY <1>2 DEF BelowEnds, There, Listed, Typed
<1>3. CASE \E i \in 1 .. Len(chain) :
              /\ b = chain[i] /\ key[b] < k
              /\ \A j \in 1 .. Len(chain) : key[chain[j]] < k => j <= i
  <2>1. PICK i \in 1 .. Len(chain) :
              /\ b = chain[i] /\ key[b] < k
              /\ \A j \in 1 .. Len(chain) : key[chain[j]] < k => j <= i
    BY <1>3
  <2>2. b \in Nodes /\ b # NIL /\ key[b] \in Nat /\ sz[b] \in Levels
    BY <2>1, ChainIs
  <2>3. There(b)
    BY <2>2 DEF There, Cells, Levels
  <2>4. \A j \in 1 .. Len(chain) : chain[j] = b => j = i
    BY <1>1, <2>1
  <2> QED BY <1>1, <2>1, <2>2, <2>3, <2>4 DEF BelowEnds
<1> QED BY <1>2, <1>3

LEMMA SearchBegins ==
    ASSUME Listed, NEW k \in Keys, NEW e \in Cells,
           \E i \in 1 .. Len(chain) :
              /\ e = chain[i] /\ key[e] = k
              /\ \A j \in 1 .. Len(chain) : key[chain[j]] = k => j <= i
    PROVE  AboveBegins(After(e, 1), k) /\ There(After(e, 1))
<1> DEFINE t == After(e, 1)
<1>1. PICK m \in 1 .. Len(chain) :
            /\ e = chain[m] /\ key[e] = k
            /\ \A j \in 1 .. Len(chain) : key[chain[j]] = k => j <= m
  OBVIOUS
<1>2. Pos(e) = m /\ e # NIL /\ Len(chain) \in Nat /\ k \in Nat
  BY <1>1, PosIs, ChainIs
<1>3. /\ \A i, j \in 1 .. Len(chain) : chain[i] = chain[j] => i = j
      /\ \A i, j \in 1 .. Len(chain) : i < j => key[chain[i]] <= key[chain[j]]
  BY DEF Listed, Chained
<1>4. \A i \in 1 .. Len(chain) : /\ chain[i] \in Nodes /\ chain[i] # NIL
                                 /\ sz[chain[i]] >= 1 /\ key[chain[i]] \in Nat
  BY ChainIs DEF Levels
<1>5. \A j \in 1 .. Len(chain) : key[chain[j]] > k <=> j > m
  <2> SUFFICES ASSUME NEW j \in 1 .. Len(chain) PROVE key[chain[j]] > k <=> j > m
    OBVIOUS
  <2>1. CASE j > m
    <3>1. key[chain[m]] <= key[chain[j]] /\ key[chain[j]] # k
      BY <1>1, <1>3, <2>1
    <3> QED BY <1>1, <1>2, <1>4, <2>1, <3>1
  <2>2. CASE j = m
    BY <1>1, <1>2, <2>2
  <2>3. CASE j < m
    <3>1. key[chain[j]] <= key[chain[m]]
      BY <1>3, <2>3
    <3> QED BY <1>1, <1>2, <1>4, <2>3, <3>1
  <2> QED BY <2>1, <2>2, <2>3
<1>6. \/ t = NIL /\ \A i \in 1 .. Len(chain) : ~(i > m)
      \/ \E i \in 1 .. Len(chain) : /\ t = chain[i] /\ i > m
                                    /\ \A j \in 1 .. Len(chain) : j > m => i <= j
  BY <1>2, <1>4, AfterIs DEF AfterAt
<1> HIDE DEF t
<1>7. ASSUME t = NIL, \A i \in 1 .. Len(chain) : ~(i > m)
      PROVE  AboveBegins(t, k) /\ There(t)
  BY <1>5, <1>7 DEF AboveBegins, There, Cells, Listed, Typed
<1>8. ASSUME \E i \in 1 .. Len(chain) : /\ t = chain[i] /\ i > m
                                        /\ \A j \in 1 .. Len(chain) : j > m => i <= j
      PROVE  AboveBegins(t, k) /\ There(t)
  <2>1. PICK i \in 1 .. Len(chain) : /\ t = chain[i] /\ i > m
                                     /\ \A j \in 1 .. Len(chain) : j > m => i <= j
    BY <1>8
  <2>2. There(t) /\ t # NIL /\ key[t] > k
    BY <1>4, <1>5, <2>1 DEF There, Cells
  <2>3. \A j \in 1 .. Len(chain) : chain[j] = t => j = i
    BY <1>3, <2>1
  <2> QED BY <1>5, <2>1, <2>2, <2>3 DEF AboveBegins
<1>9. AboveBegins(t, k) /\ There(t)
  BY <1>6, <1>7, <1>8
<1> QED BY <1>9 DEF t

LEMMA SearchSafe ==
    ASSUME IInv, Cautious, NEW k \in Keys, SearchALL(k)
    PROVE  Pointing' /\ Calling' /\ Ranging' /\ Replying'
<1>1. Listed /\ k # 0
  BY DEF IInv
<1>2. Calling' /\ Replying'
  BY <1>1, SearchIs, FreshSafe, Zenon
<1>3. ASSUME NEW b, NEW t, BelowEnds(b, k), There(b), AboveBegins(t, k), There(t),
             Fresh(Listing([cell |-> b, way |-> "next"], t, k))
      PROVE  Pointing' /\ Ranging'
  <2>1. /\ iter'.next = [cell |-> b, way |-> "next"] /\ iter'.next.cell = b
        /\ iter'.next.way = "next" /\ iter'.term = t /\ iter'.range = k
    BY <1>3 DEF Fresh, Listing
  <2>2. chain' = chain /\ key' = key /\ sz' = sz
    BY <1>3 DEF Fresh, shape
  <2>3. t # NULL
    BY <1>3 DEF There, Cells
  <2>4. Pointing'
    BY <1>1, <1>3, <2>1, <2>2 DEF Pointing, There, Cells
  <2>5. BelowEnds(iter.next.cell, iter.range)' /\ AboveBegins(iter.term, iter.range)'
    BY <1>3, <2>1, <2>2 DEF BelowEnds, AboveBegins
  <2>6. Ranging'
    BY <2>1, <2>3, <2>5 DEF Ranging
  <2> QED BY <2>4, <2>6
<1>4. CASE Fresh(Listing(NoArray, NULL, k))
  <2>1. iter'.next = NoArray /\ iter'.term = NULL /\ iter'.range = k
    BY <1>4 DEF Fresh, Listing
  <2> QED BY <1>1, <1>2, <2>1 DEF Pointing, Ranging
<1>5. CASE \E b, e \in Cells :
              /\ BelowEnds(b, k) /\ There(b)
              /\ AboveBegins(After(e, 1), k) /\ There(After(e, 1))
              /\ Fresh(Listing([cell |-> b, way |-> "next"], After(e, 1), k))
  BY <1>2, <1>3, <1>5
<1> QED BY <1>1, <1>4, <1>5, SearchIs, SearchEnds, SearchBegins, Zenon

-----------------------------------------------------------------------------
(* The calls                                                                *)

(* The node after cell c, while the keys k lie between c and t.              *)
LEMMA NextInRange ==
    ASSUME Listed, NEW k \in Nat, NEW c, NEW t, There(c), There(t),
           BelowEnds(c, k), AboveBegins(t, k), After(c, 1) \notin {NIL, t}
    PROVE  key[After(c, 1)] = k /\ BelowEnds(After(c, 1), k)
<1> DEFINE N == Len(chain)
<1>1. PICK i : AfterAt(c, 1, i) /\ After(c, 1) = chain[i]
  BY AfterIs, Zenon
<1>2. /\ \A a, b \in 1 .. N : chain[a] = chain[b] => a = b
      /\ \A a, b \in 1 .. N : a < b => key[chain[a]] <= key[chain[b]]
  BY DEF Listed, Chained
<1>3. \A a \in 1 .. N : /\ chain[a] \in Nodes /\ chain[a] # NIL
                        /\ sz[chain[a]] >= 1 /\ key[chain[a]] \in Nat
  BY ChainIs DEF Levels
<1>4. \A x : There(x) /\ x # NIL => \E a \in 1 .. N : chain[a] = x /\ Pos(x) = a
  <2> SUFFICES ASSUME NEW x, There(x), x # NIL
               PROVE  \E a \in 1 .. N : chain[a] = x /\ Pos(x) = a
    OBVIOUS
  <2>1. Pos(x) \in 1 .. N /\ chain[Pos(x)] = x
    BY InList DEF There, Cells
  <2> QED BY <2>1
<1>5. /\ i \in 1 .. N /\ (c # NIL => i > Pos(c))
      /\ \A j \in 1 .. N : (c # NIL => j > Pos(c)) => i <= j
  BY <1>1, <1>3 DEF AfterAt
<1> HIDE DEF N
<1>6. ~(key[chain[i]] < k)
  <2> SUFFICES ASSUME key[chain[i]] < k PROVE FALSE
    OBVIOUS
  <2>1. c # NIL /\ \A a \in 1 .. N : chain[a] = c => i <= a
    BY <1>5 DEF BelowEnds, N
  <2>2. PICK a \in 1 .. N : chain[a] = c /\ Pos(c) = a
    BY <1>4, <2>1
  <2> QED BY <1>5, <2>1, <2>2
<1>7. ~(key[chain[i]] > k)
  <2> SUFFICES ASSUME key[chain[i]] > k PROVE FALSE
    OBVIOUS
  <2>1. t # NIL /\ key[t] > k /\ \A a \in 1 .. N : chain[a] = t => a <= i
    BY <1>5 DEF AboveBegins, N
  <2>2. PICK a \in 1 .. N : chain[a] = t
    BY <1>4, <2>1
  <2>3. a < i
    BY <1>1, <1>5, <2>1, <2>2
  <2>4. c # NIL => a > Pos(c)
    <3> SUFFICES ASSUME c # NIL PROVE a > Pos(c)
      OBVIOUS
    <3>1. PICK b \in 1 .. N : chain[b] = c /\ Pos(c) = b
      BY <1>4
    <3>2. key[chain[b]] <= k /\ key[chain[a]] > k /\ key[chain[a]] \in Nat /\ key[chain[b]] \in Nat
      BY <1>3, <2>1, <2>2, <3>1 DEF BelowEnds
    <3>3. ~(a < b) /\ a # b
      BY <1>2, <3>2
    <3> QED BY <3>1, <3>3
  <2> QED BY <1>5, <2>3, <2>4
<1>8. key[chain[i]] = k
  BY <1>3, <1>5, <1>6, <1>7
<1>9. ASSUME NEW j \in 1 .. N, key[chain[j]] < k, NEW a \in 1 .. N, chain[a] = chain[i]
      PROVE  j <= a
  <2>1. a = i
    BY <1>2, <1>5, <1>9
  <2>2. ~(i < j)
    BY <1>2, <1>3, <1>5, <1>8, <1>9
  <2> QED BY <1>5, <2>1, <2>2
<1>10. BelowEnds(chain[i], k)
  BY <1>3, <1>5, <1>8, <1>9 DEF BelowEnds, N
<1> QED BY <1>1, <1>8, <1>10

LEMMA OnlyCaller ==
    ASSUME Alone, NEW u \in Users, NEW v \in Users
    PROVE  v = u
BY DEF Alone

LEMMA AskSafe ==
    ASSUME IInv, Cautious, Alone, NEW u \in Users, NEW way \in {"next", "prev"}, NEW l \in Levels,
           Ask(u, way, l)
    PROVE  Pointing' /\ Calling' /\ Ranging' /\ Replying'
<1>1. /\ exists /\ MayStep(way, l) /\ l <= iter.prevlev
      /\ pc' = [pc EXCEPT ![u] = way] /\ lev' = [lev EXCEPT ![u] = l]
      /\ UNCHANGED <<shape, exists, iter, last, reply>>
  BY Zenon DEF Ask
<1>2. pc'[u] = way /\ lev'[u] = l
  BY <1>1 DEF IInv, Listed, Typed
<1>3. /\ l > 1 => last \in {"set", way}
      /\ iter.range # 0 => way = "next" /\ l = 1
  BY <1>1 DEF MayStep, Cautious
<1>4. l \in Nat /\ l >= 1 /\ iter.prevlev \in Nat /\ \A c \in Cells : sz[c] \in Nat
  BY DEF Levels, IInv, Listed, Typed, Iterators
<1>5. Pointing
  BY DEF IInv
<1>6. way = "next" => iter.next = NoArray \/ Valid(iter.next, l)
  <2> SUFFICES ASSUME way = "next", iter.next # NoArray PROVE Valid(iter.next, l)
    OBVIOUS
  <2> DEFINE c == iter.next.cell
  <2>1. There(c) /\ (iter.range = 0 /\ last \in {"set", "next"} => iter.prevlev <= sz[c])
    BY <1>1, <1>5 DEF Pointing
  <2> HIDE DEF c
  <2>2. c \in Cells /\ l <= sz[c]
    BY <1>1, <1>3, <1>4, <2>1 DEF There
  <2> QED BY <2>2 DEF Valid, c
<1>7. way = "prev" => iter.range = 0 /\ Valid(iter.prev, l)
  <2> SUFFICES ASSUME way = "prev" PROVE iter.range = 0 /\ Valid(iter.prev, l)
    OBVIOUS
  <2> DEFINE c == iter.prev.cell
  <2>1. iter.range = 0
    BY <1>3
  <2>2. There(c) /\ (last \in {"set", "prev"} => iter.prevlev <= sz[c])
    BY <1>1, <1>5, <2>1 DEF Pointing
  <2> HIDE DEF c
  <2>3. c \in Cells /\ l <= sz[c]
    BY <1>1, <1>3, <1>4, <2>2 DEF There
  <2> QED BY <2>1, <2>3 DEF Valid, c
<1>8. iter' = iter /\ sz' = sz /\ exists' = exists
  BY <1>1 DEF shape
<1>9. /\ way = "next" => iter'.next = NoArray \/ Valid(iter.next, lev[u])'
      /\ way = "prev" => iter'.range = 0 /\ Valid(iter.prev, lev[u])'
  BY <1>2, <1>6, <1>7, <1>8 DEF Valid, Cells
<1>10. Calling'
  BY <1>1, <1>2, <1>3, <1>8, <1>9, OnlyCaller DEF Calling
<1> QED BY <1>1, <1>10, SameRanging, SamePointing, SameReply DEF IInv

LEMMA AskNothingSafe ==
    ASSUME IInv, Cautious, NEW u \in Users, NEW way \in {"next", "prev"}, AskNothing(u, way)
    PROVE  Pointing' /\ Calling' /\ Ranging' /\ Replying'
<1>1. /\ UNCHANGED <<shape, exists, iter, last, pc, lev>>
      /\ reply' = [op |-> way, lev |-> 1, node |-> NULL]
  BY DEF AskNothing, MayAskNothing, Cautious
<1>2. Replying'
  BY <1>1 DEF Replying, AnswersAreNodes, WithinRange
<1> QED BY <1>1, <1>2, SameRanging, SamePointing, SameCalling DEF IInv

(* A step of user u to a place where nothing is known to be checked.         *)
LEMMA IdleCalls ==
    ASSUME Listed, Alone, NEW u \in Users, pc' = [pc EXCEPT ![u] = "idle"]
    PROVE  Calling'
<1>1. pc'[u] = "idle"
  BY DEF Listed, Typed
<1> QED BY <1>1, OnlyCaller, NobodyCalls

LEMMA TestSafe ==
    ASSUME IInv, Alone, NEW u \in Users, TestNext(u) \/ TestPrev(u)
    PROVE  Pointing' /\ Calling' /\ Ranging' /\ Replying'
<1>1. Listed /\ Calling
  BY DEF IInv
<1>2. ASSUME UNCHANGED <<shape, exists, iter, lev, last>>,
             pc' = [pc EXCEPT ![u] = "idle"], NEW way, NEW l,
             reply' = [op |-> way, lev |-> l, node |-> NULL]
      PROVE  Pointing' /\ Calling' /\ Ranging' /\ Replying'
  <2>1. Replying'
    BY <1>2 DEF Replying, AnswersAreNodes, WithinRange
  <2> QED BY <1>1, <1>2, <2>1, IdleCalls, SameRanging, SamePointing DEF IInv
<1>3. CASE iter.next = NoArray /\ Answer(u, "next", NULL) /\ UNCHANGED <<iter, last>>
  <2>1. /\ UNCHANGED <<shape, exists, iter, lev, last>> /\ pc' = [pc EXCEPT ![u] = "idle"]
        /\ reply' = [op |-> "next", lev |-> lev[u], node |-> NULL]
    BY <1>3 DEF Answer
  <2> QED BY <1>2, <2>1
<1>4. ASSUME Test(u, "next", iter.next, EndAhead(lev[u])), reply' = reply,
             ~EndAhead(lev[u]), pc' = [pc EXCEPT ![u] = "movenext"]
      PROVE  Pointing' /\ Calling' /\ Ranging' /\ Replying'
  <2>1. /\ UNCHANGED <<shape, exists, iter, lev, last>>
        /\ pc[u] = "next" /\ Valid(iter.next, lev[u])
    BY <1>4, TestIs
  <2>2. pc'[u] = "movenext"
    BY <1>1, <1>4 DEF Listed, Typed
  <2>3. chain' = chain /\ sz' = sz /\ iter' = iter /\ lev' = lev /\ exists' = exists
    BY <2>1 DEF shape
  <2>4. ~EndAhead(lev[u])'
    BY <1>4, <2>3 DEF EndAhead, EndBack, At, After, Before, FirstAt, LastAt, Pos
  <2>5. Valid(iter.next, lev[u])'
    BY <2>1, <2>3 DEF Valid, Cells
  <2>6. exists /\ (iter.range # 0 => lev[u] = 1)
    BY <1>1, <2>1 DEF Calling
  <2>7. Calling'
    BY <2>2, <2>3, <2>4, <2>5, <2>6, OnlyCaller DEF Calling
  <2> QED BY <1>4, <2>1, <2>7, SameRanging, SamePointing, SameReply DEF IInv
<1>5. ASSUME Test(u, "prev", iter.prev, EndBack(lev[u])), reply' = reply,
             ~EndBack(lev[u]), pc' = [pc EXCEPT ![u] = "moveprev"]
      PROVE  Pointing' /\ Calling' /\ Ranging' /\ Replying'
  <2>1. /\ UNCHANGED <<shape, exists, iter, lev, last>>
        /\ pc[u] = "prev" /\ Valid(iter.prev, lev[u])
    BY <1>5, TestIs
  <2>2. pc'[u] = "moveprev"
    BY <1>1, <1>5 DEF Listed, Typed
  <2>3. chain' = chain /\ sz' = sz /\ iter' = iter /\ lev' = lev /\ exists' = exists
    BY <2>1 DEF shape
  <2>4. ~EndBack(lev[u])'
    BY <1>5, <2>3 DEF EndAhead, EndBack, At, After, Before, FirstAt, LastAt, Pos
  <2>5. Valid(iter.prev, lev[u])'
    BY <2>1, <2>3 DEF Valid, Cells
  <2>6. exists /\ iter.range = 0
    BY <1>1, <2>1 DEF Calling
  <2>7. Calling'
    BY <2>2, <2>3, <2>4, <2>5, <2>6, OnlyCaller DEF Calling
  <2> QED BY <1>5, <2>1, <2>7, SameRanging, SamePointing, SameReply DEF IInv
<1>6. CASE Test(u, "next", iter.next, EndAhead(lev[u]))
  <2>1. /\ UNCHANGED <<shape, exists, iter, lev, last>>
        /\ \/ /\ pc' = [pc EXCEPT ![u] = "idle"]
              /\ reply' = [op |-> "next", lev |-> lev[u], node |-> NULL]
           \/ /\ ~EndAhead(lev[u]) /\ reply' = reply
              /\ pc' = [pc EXCEPT ![u] = IF "next" = "next" THEN "movenext" ELSE "moveprev"]
    BY <1>6, TestIs
  <2> QED BY <1>2, <1>4, <1>6, <2>1
<1>7. CASE Test(u, "prev", iter.prev, EndBack(lev[u]))
  <2>1. /\ UNCHANGED <<shape, exists, iter, lev, last>>
        /\ \/ /\ pc' = [pc EXCEPT ![u] = "idle"]
              /\ reply' = [op |-> "prev", lev |-> lev[u], node |-> NULL]
           \/ /\ ~EndBack(lev[u]) /\ reply' = reply
              /\ pc' = [pc EXCEPT ![u] = IF "prev" = "next" THEN "movenext" ELSE "moveprev"]
    BY <1>7, TestIs
  <2> QED BY <1>2, <1>5, <1>7, <2>1
<1>8. \/ Test(u, "next", iter.next, EndAhead(lev[u]))
      \/ Test(u, "prev", iter.prev, EndBack(lev[u]))
      \/ iter.next = NoArray /\ Answer(u, "next", NULL) /\ UNCHANGED <<iter, last>>
  BY Zenon DEF TestNext, TestPrev
<1> QED BY <1>3, <1>6, <1>7, <1>8

LEMMA MoveNextSafe ==
    ASSUME IInv, Alone, NEW u \in Users, MoveNext(u)
    PROVE  Pointing' /\ Calling' /\ Ranging' /\ Replying'
<1> DEFINE l == lev[u]
           node == At(iter.next, l)
<1>1. /\ UNCHANGED <<shape, exists, lev>> /\ pc' = [pc EXCEPT ![u] = "idle"]
      /\ pc[u] = "movenext" /\ Valid(iter.next, l) /\ last' = "next"
      /\ iter' = Ahead(node) /\ reply' = [op |-> "next", lev |-> l, node |-> node]
  BY DEF MoveNext, Answer
<1>2. /\ Listed /\ iter \in Iterators /\ l \in Levels /\ \A c \in Cells : sz[c] \in Nat
  BY DEF IInv, Listed, Typed
<1>3. node \in Cells /\ sz[node] \in Levels
  BY <1>2, AtIs
<1>4. exists /\ node \notin {NIL, iter.term} /\ (iter.range # 0 => l = 1)
  BY <1>1 DEF IInv, Calling, EndAhead
<1>5. node \in Nodes /\ There(node)
  BY <1>3, <1>4 DEF There, Cells, Levels
<1>6. There(iter.next.cell)
  BY <1>1, <1>2 DEF Valid, There, Levels
<1>7. iter.next # NoArray
  BY <1>6 DEF NoArray, There, Cells
<1>8. iter.range # 0 =>
         /\ key[node] = iter.range /\ iter.term # NULL
         /\ BelowEnds(node, iter.range) /\ AboveBegins(iter.term, iter.range)
  <2> SUFFICES ASSUME iter.range # 0
               PROVE  /\ key[node] = iter.range /\ iter.term # NULL
                      /\ BelowEnds(node, iter.range) /\ AboveBegins(iter.term, iter.range)
    OBVIOUS
  <2>1. /\ iter.next.way = "next" /\ iter.term # NULL /\ There(iter.term)
        /\ BelowEnds(iter.next.cell, iter.range) /\ AboveBegins(iter.term, iter.range)
    BY <1>4, <1>7 DEF IInv, Ranging, Pointing
  <2>2. node = After(iter.next.cell, 1)
    BY <1>4, <2>1 DEF At
  <2>3. iter.range \in Nat
    BY <1>2 DEF Iterators
  <2> HIDE DEF node
  <2> QED BY <1>2, <1>4, <1>6, <2>1, <2>2, <2>3, NextInRange
<1> HIDE DEF node, l
<1>9. /\ iter'.next = [cell |-> node, way |-> "next"] /\ iter'.prev = iter.next
      /\ iter'.prevlev = sz[node] /\ iter'.term = iter.term /\ iter'.range = iter.range
  BY <1>1, <1>2, <1>3, AheadIs
<1>10. chain' = chain /\ sz' = sz /\ key' = key /\ exists' = exists
  BY <1>1 DEF shape
<1>11. iter'.next.cell = node /\ iter'.next.way = "next"
  BY <1>9
<1>12. Pointing'
  <2>1. iter.term = NULL \/ There(iter.term)
    BY <1>4 DEF IInv, Pointing
  <2> QED BY <1>1, <1>2, <1>3, <1>5, <1>6, <1>9, <1>10, <1>11, <2>1 DEF Pointing, There, Cells
<1>13. Calling'
  BY <1>1, <1>2, IdleCalls
<1>14. iter.range # 0 =>
          BelowEnds(iter.next.cell, iter.range)' /\ AboveBegins(iter.term, iter.range)'
  BY <1>8, <1>9, <1>10, <1>11 DEF BelowEnds, AboveBegins
<1>15. Ranging'
  BY <1>8, <1>9, <1>11, <1>14 DEF Ranging
<1>16. Replying'
  BY <1>1, <1>5, <1>8, <1>9, <1>10 DEF Replying, AnswersAreNodes, WithinRange, There
<1> QED BY <1>12, <1>13, <1>15, <1>16

LEMMA MovePrevSafe ==
    ASSUME IInv, Alone, NEW u \in Users, MovePrev(u)
    PROVE  Pointing' /\ Calling' /\ Ranging' /\ Replying'
<1> DEFINE l == lev[u]
           node == At(iter.prev, l)
<1>1. /\ UNCHANGED <<shape, exists, lev>> /\ pc' = [pc EXCEPT ![u] = "idle"]
      /\ pc[u] = "moveprev" /\ Valid(iter.prev, l) /\ last' = "prev"
      /\ iter' = Back(node) /\ reply' = [op |-> "prev", lev |-> l, node |-> node]
  BY DEF MovePrev, Answer
<1>2. /\ Listed /\ iter \in Iterators /\ l \in Levels /\ \A c \in Cells : sz[c] \in Nat
  BY DEF IInv, Listed, Typed
<1>3. node \in Cells /\ sz[node] \in Levels
  BY <1>2, AtIs
<1>4. exists /\ node # NIL /\ iter.range = 0
  BY <1>1 DEF IInv, Calling, EndBack
<1>5. node \in Nodes /\ There(node)
  BY <1>3, <1>4 DEF There, Cells, Levels
<1>6. There(iter.prev.cell)
  BY <1>1, <1>2 DEF Valid, There, Levels
<1> HIDE DEF node, l
<1>7. /\ iter'.next = iter.prev /\ iter'.prev = [cell |-> node, way |-> "prev"]
      /\ iter'.prevlev = sz[node] /\ iter'.term = iter.term /\ iter'.range = iter.range
  BY <1>1, <1>2, <1>3, BackIs
<1>8. chain' = chain /\ sz' = sz /\ key' = key /\ exists' = exists
  BY <1>1 DEF shape
<1>9. iter'.prev.cell = node
  BY <1>7
<1>10. Pointing'
  <2>1. iter.term = NULL \/ There(iter.term)
    BY <1>4 DEF IInv, Pointing
  <2> QED BY <1>1, <1>2, <1>3, <1>5, <1>6, <1>7, <1>8, <1>9, <2>1 DEF Pointing, There, Cells
<1>11. Calling'
  BY <1>1, <1>2, IdleCalls
<1>12. Ranging'
  BY <1>4, <1>7 DEF Ranging
<1>13. Replying'
  BY <1>1, <1>4, <1>5, <1>7, <1>8 DEF Replying, AnswersAreNodes, WithinRange, There
<1> QED BY <1>10, <1>11, <1>12, <1>13

-----------------------------------------------------------------------------
(* The theorems                                                             *)

LEMMA InitSafe == Init => IInv
<1> SUFFICES ASSUME Init PROVE IInv
  OBVIOUS
<1>1. Pointing /\ Ranging
  BY DEF Init, Pointing, Ranging
<1>2. Calling
  BY DEF Init, Calling
<1>3. Replying
  BY DEF Init, Replying, AnswersAreNodes, WithinRange
<1> QED BY <1>1, <1>2, <1>3, InitIs DEF IInv

LEMMA StepSafe == Cautious /\ Alone /\ IInv /\ [Next]_vars => IInv'
<1> SUFFICES ASSUME Cautious, Alone, IInv, [Next]_vars PROVE IInv'
  OBVIOUS
<1>0. Listed'
  BY StepKeeps DEF IInv
<1>1. CASE \E n \in Nodes : (\E k \in Keys, h \in Levels : Insert(n, k, h)) \/ Delete(n)
  BY <1>0, <1>1, WriteSafe DEF IInv
<1>2. CASE \E c \in Cells : SetIterator(c) \/ ResetIterator(c) \/ (DestroyIterator /\ c = NIL)
  BY <1>0, <1>2, CellSafe DEF IInv
<1>3. CASE \E k \in Keys : SearchALL(k)
  BY <1>0, <1>3, SearchSafe DEF IInv
<1>4. CASE \E u \in Users, way \in {"next", "prev"} :
              (\E l \in Levels : Ask(u, way, l)) \/ AskNothing(u, way)
  BY <1>0, <1>4, AskSafe, AskNothingSafe DEF IInv
<1>5. CASE \E u \in Users : TestNext(u) \/ TestPrev(u)
  BY <1>0, <1>5, TestSafe DEF IInv
<1>6. CASE \E u \in Users : MoveNext(u) \/ MovePrev(u)
  BY <1>0, <1>6, MoveNextSafe, MovePrevSafe DEF IInv
<1>7. CASE UNCHANGED vars
  BY <1>0, <1>7, SameAll DEF IInv
<1>8. NIL \in Cells
  BY DEF Cells
<1> QED BY <1>1, <1>2, <1>3, <1>4, <1>5, <1>6, <1>7, <1>8, Zenon DEF Next

LEMMA Invariance == Cautious /\ Alone => (Spec => []IInv)
<1> SUFFICES ASSUME Cautious, Alone
             PROVE  Spec => []IInv
  OBVIOUS
<1>1. IInv /\ [Next]_vars => IInv'
  BY StepSafe
<1> QED BY <1>1, InitSafe, PTL DEF Spec

(* While one thread uses the iterator and the program keeps the rules, no    *)
(* call follows a pointer that leads nowhere or reads an array beyond its    *)
(* end, whatever the writers do between the start of a call and its tests    *)
(* (skl_iter.c, someSanityChecks, getNext, getPrev).                         *)
THEOREM Sound == Cautious /\ Alone => (Spec => []NoFault)
<1> SUFFICES ASSUME Cautious, Alone
             PROVE  Spec => []NoFault
  OBVIOUS
<1>1. Spec => []IInv
  BY Invariance
<1>2. IInv => NoFault
  BY DEF IInv, Calling, NoFault
<1> QED BY <1>1, <1>2, PTL

(* A step forward or back answers nothing or a node that is in the list,     *)
(* never the header (skl_iter.c, getNext, getPrev).                          *)
THEOREM RealAnswers == Cautious /\ Alone => (Spec => []AnswersAreNodes)
<1> SUFFICES ASSUME Cautious, Alone
             PROVE  Spec => []AnswersAreNodes
  OBVIOUS
<1>1. Spec => []IInv
  BY Invariance
<1>2. IInv => AnswersAreNodes
  BY DEF IInv, Replying
<1> QED BY <1>1, <1>2, PTL

(* The iterator of MySKLsearchALL lists nodes with the key it was asked for, *)
(* though others delete, and insert that key, meanwhile (skl_search.c).      *)
THEOREM OneKeyOnly == Cautious /\ Alone => (Spec => []WithinRange)
<1> SUFFICES ASSUME Cautious, Alone
             PROVE  Spec => []WithinRange
  OBVIOUS
<1>1. Spec => []IInv
  BY Invariance
<1>2. IInv => WithinRange
  BY DEF IInv, Replying
<1> QED BY <1>1, <1>2, PTL

-----------------------------------------------------------------------------
(* Two steps in a row                                                       *)

(* What the iterator keeps of the last answer, until the list changes.       *)
Remembering ==
    /\ iter.range = 0 => iter.term = NULL
    /\ reply.op \in {"next", "prev"} => reply.lev \in Levels
    /\ reply.op = "next" /\ reply.node # NULL =>
          /\ iter.next = [cell |-> reply.node, way |-> "next"]
          /\ At(iter.prev, reply.lev) = reply.node
    /\ reply.op = "prev" /\ reply.node # NULL =>
          /\ iter.prev = [cell |-> reply.node, way |-> "prev"] /\ iter.range = 0
          /\ At(iter.next, reply.lev) = reply.node

LEMMA SameMemory ==
    ASSUME Remembering, UNCHANGED <<shape, iter, reply>>
    PROVE  Remembering'
<1>1. chain' = chain /\ sz' = sz /\ iter' = iter /\ reply' = reply
  BY DEF shape
<1>2. /\ At(iter.prev, reply.lev)' = At(iter.prev, reply.lev)
      /\ At(iter.next, reply.lev)' = At(iter.next, reply.lev)
  BY <1>1 DEF At, After, Before, FirstAt, LastAt, Pos
<1> QED BY <1>1, <1>2 DEF Remembering

(* A step that answers nothing.                                              *)
LEMMA NoMemory ==
    ASSUME iter'.range = 0 => iter'.term = NULL,
           \/ reply'.op \notin {"next", "prev"}
           \/ reply'.node = NULL /\ reply'.lev \in Levels
    PROVE  Remembering'
BY DEF Remembering

LEMMA MoveRemembers ==
    ASSUME IInv, Remembering, NEW u \in Users, MoveNext(u) \/ MovePrev(u)
    PROVE  Remembering'
<1>1. Listed /\ iter \in Iterators /\ lev[u] \in Levels
  BY DEF IInv, Listed, Typed
<1>2. UNCHANGED shape
  BY <1>1, MoveIs
<1>3. chain' = chain /\ sz' = sz
  BY <1>2 DEF shape
<1>4. \A a : At(a, lev[u]) \in Cells /\ sz[At(a, lev[u])] \in Levels
  BY <1>1, AtIs
<1>5. CASE /\ pc[u] = "movenext" /\ iter' = Ahead(At(iter.next, lev[u]))
           /\ reply' = [op |-> "next", lev |-> lev[u], node |-> At(iter.next, lev[u])]
  <2> DEFINE node == At(iter.next, lev[u])
             l == lev[u]
  <2>1. /\ iter'.next = [cell |-> node, way |-> "next"] /\ iter'.prev = iter.next
        /\ iter'.term = iter.term /\ iter'.range = iter.range
    BY <1>1, <1>4, <1>5, AheadIs
  <2>2. reply'.lev = lev[u]
    BY <1>5
  <2>3. At(iter.prev, reply.lev)' = node
    BY <1>3, <2>1, <2>2 DEF At, After, Before, FirstAt, LastAt, Pos
  <2>4. reply'.op = "next" /\ reply'.node = node
    BY <1>5
  <2> HIDE DEF node
  <2> QED BY <1>1, <2>1, <2>2, <2>3, <2>4 DEF Remembering
<1>6. CASE /\ pc[u] = "moveprev" /\ iter' = Back(At(iter.prev, lev[u]))
           /\ reply' = [op |-> "prev", lev |-> lev[u], node |-> At(iter.prev, lev[u])]
  <2> DEFINE node == At(iter.prev, lev[u])
  <2>1. /\ iter'.prev = [cell |-> node, way |-> "prev"] /\ iter'.next = iter.prev
        /\ iter'.term = iter.term /\ iter'.range = iter.range
    BY <1>1, <1>4, <1>6, BackIs
  <2>2. reply'.lev = lev[u]
    BY <1>6
  <2>3. At(iter.next, reply.lev)' = node
    BY <1>3, <2>1, <2>2 DEF At, After, Before, FirstAt, LastAt, Pos
  <2>4. reply'.op = "prev" /\ reply'.node = node
    BY <1>6
  <2>5. iter.range = 0
    BY <1>6 DEF IInv, Calling
  <2> HIDE DEF node
  <2> QED BY <1>1, <2>1, <2>2, <2>3, <2>4, <2>5 DEF Remembering
<1> QED BY <1>1, <1>5, <1>6, MoveIs, Zenon

LEMMA TestRemembers ==
    ASSUME IInv, Remembering, NEW u \in Users, TestNext(u) \/ TestPrev(u)
    PROVE  Remembering'
<1>1. lev[u] \in Levels /\ (iter.range = 0 => iter.term = NULL)
  BY DEF IInv, Listed, Typed, Remembering
<1>2. /\ UNCHANGED <<shape, iter>>
      /\ \/ reply' = reply
         \/ \E way : reply' = [op |-> way, lev |-> lev[u], node |-> NULL]
  <2>1. ASSUME NEW way \in {"next", "prev"}, NEW a, NEW end, Test(u, way, a, end)
        PROVE  /\ UNCHANGED <<shape, iter>>
               /\ reply' = reply \/ reply' = [op |-> way, lev |-> lev[u], node |-> NULL]
    BY <2>1, TestIs
  <2>2. CASE iter.next = NoArray /\ Answer(u, "next", NULL) /\ UNCHANGED <<iter, last>>
    BY <2>2 DEF Answer
  <2>3. \/ Test(u, "next", iter.next, EndAhead(lev[u]))
        \/ Test(u, "prev", iter.prev, EndBack(lev[u]))
        \/ iter.next = NoArray /\ Answer(u, "next", NULL) /\ UNCHANGED <<iter, last>>
    BY Zenon DEF TestNext, TestPrev
  <2> QED BY <2>1, <2>2, <2>3
<1>3. CASE reply' = reply
  BY <1>2, <1>3, SameMemory
<1>4. CASE \E way : reply' = [op |-> way, lev |-> lev[u], node |-> NULL]
  <2>1. reply'.node = NULL /\ reply'.lev = lev[u]
    BY <1>4
  <2> QED BY <1>1, <1>2, <2>1, NoMemory
<1> QED BY <1>2, <1>3, <1>4

LEMMA FreshRemembers ==
    ASSUME NEW i, Fresh(i), i.range = 0 => i.term = NULL
    PROVE  Remembering'
<1>1. iter' = i /\ reply' = [op |-> "set"]
  BY DEF Fresh
<1> QED BY <1>1, NoMemory

LEMMA StepRemembers ==
    ASSUME IInv, Cautious, Remembering, [Next]_vars
    PROVE  Remembering'
<1>1. iter.range = 0 => iter.term = NULL
  BY DEF Remembering
<1>2. CASE \E n \in Nodes : (\E k \in Keys, h \in Levels : Insert(n, k, h)) \/ Delete(n)
  <2>1. iter' = iter /\ reply' = [op |-> "write"]
    BY <1>2, WriteIs
  <2> QED BY <1>1, <2>1, NoMemory
<1>3. CASE \E c \in Cells : SetIterator(c) \/ ResetIterator(c) \/ DestroyIterator
  <2>1. \E c, l : Fresh(AtCell(c, l))
    BY <1>3, Zenon DEF SetIterator, ResetIterator, DestroyIterator
  <2>2. \A c, l : AtCell(c, l).term = NULL
    BY DEF AtCell
  <2> QED BY <2>1, <2>2, FreshRemembers
<1>4. CASE \E k \in Keys : SearchALL(k)
  <2>1. PICK k \in Keys : SearchALL(k)
    BY <1>4
  <2>2. \E a, t : Fresh(Listing(a, t, k))
    BY <2>1, Zenon DEF SearchALL
  <2>3. \A a, t : Listing(a, t, k).range # 0
    BY DEF Listing
  <2> QED BY <2>2, <2>3, FreshRemembers
<1>5. CASE \E u \in Users, way \in {"next", "prev"}, l \in Levels : Ask(u, way, l)
  <2>1. UNCHANGED <<shape, iter, reply>>
    BY <1>5 DEF Ask
  <2> QED BY <2>1, SameMemory
<1>6. CASE \E u \in Users, way \in {"next", "prev"} : AskNothing(u, way)
  <2>1. iter' = iter /\ \E way : reply' = [op |-> way, lev |-> 1, node |-> NULL]
    BY <1>6 DEF AskNothing, MayAskNothing, Cautious
  <2>2. reply'.node = NULL /\ reply'.lev \in Levels
    BY <2>1 DEF Levels
  <2> QED BY <1>1, <2>1, <2>2, NoMemory
<1>7. CASE \E u \in Users : TestNext(u) \/ TestPrev(u)
  BY <1>7, TestRemembers
<1>8. CASE \E u \in Users : MoveNext(u) \/ MovePrev(u)
  BY <1>8, MoveRemembers
<1>9. CASE UNCHANGED vars
  BY <1>9, SameMemory DEF vars
<1>10. NIL \in Cells
  BY DEF Cells
<1> QED BY <1>2, <1>3, <1>4, <1>5, <1>6, <1>7, <1>8, <1>9, <1>10, Zenon DEF Next

(* A call that ends, and what it found.                                      *)
LEMMA AnswerIs ==
    ASSUME IInv, [Next]_vars, Answered
    PROVE  \E u \in Users :
              /\ reply'.lev = lev[u] /\ UNCHANGED shape
              /\ \/ reply'.op = "next" /\ reply'.node = NULL
                                       /\ (iter.next = NoArray \/ EndAhead(lev[u]))
                 \/ reply'.op = "prev" /\ reply'.node = NULL /\ EndBack(lev[u])
                 \/ /\ reply'.op = "next" /\ reply'.node = At(iter.next, lev[u])
                    /\ ~EndAhead(lev[u])
                 \/ /\ reply'.op = "prev" /\ reply'.node = At(iter.prev, lev[u])
                    /\ ~EndBack(lev[u])
<1>1. PICK u \in Users : pc[u] # "idle" /\ pc'[u] = "idle"
  BY DEF Answered
<1>2. pc \in [Users -> Places]
  BY DEF IInv, Listed, Typed
<1>3. ~UNCHANGED pc
  BY <1>1
<1>4. ASSUME NEW v \in Users, NEW place, pc' = [pc EXCEPT ![v] = place]
      PROVE  v = u /\ place = "idle"
  BY <1>1, <1>2, <1>4
<1>5. \E v \in Users : TestNext(v) \/ MoveNext(v) \/ TestPrev(v) \/ MovePrev(v)
  <2>1. \A n \in Nodes : ~Delete(n) /\ \A k \in Keys, h \in Levels : ~Insert(n, k, h)
    BY <1>3, Zenon DEF Delete, Insert
  <2>2. ~DestroyIterator /\ \A c \in Cells : ~SetIterator(c) /\ ~ResetIterator(c)
    BY <1>3, Zenon DEF DestroyIterator, SetIterator, ResetIterator, Fresh
  <2>3. \A k \in Keys : ~SearchALL(k)
    BY <1>3, Zenon DEF SearchALL, Fresh
  <2>4. \A v \in Users, way \in {"next", "prev"} :
           ~AskNothing(v, way) /\ \A l \in Levels : ~Ask(v, way, l)
    BY <1>3, <1>4 DEF AskNothing, Ask
  <2>5. ~UNCHANGED vars
    BY <1>3, Zenon DEF vars
  <2> QED BY <2>1, <2>2, <2>3, <2>4, <2>5, Zenon DEF Next
<1>6. PICK v \in Users : TestNext(v) \/ MoveNext(v) \/ TestPrev(v) \/ MovePrev(v)
  BY <1>5
<1>7. CASE MoveNext(v)
  <2>1. ~EndAhead(lev[v])
    BY <1>7 DEF MoveNext, IInv, Calling
  <2>2. /\ UNCHANGED shape
        /\ reply' = [op |-> "next", lev |-> lev[v], node |-> At(iter.next, lev[v])]
    BY <1>7 DEF MoveNext, Answer
  <2> QED BY <2>1, <2>2
<1>8. CASE MovePrev(v)
  <2>1. ~EndBack(lev[v])
    BY <1>8 DEF MovePrev, IInv, Calling
  <2>2. /\ UNCHANGED shape
        /\ reply' = [op |-> "prev", lev |-> lev[v], node |-> At(iter.prev, lev[v])]
    BY <1>8 DEF MovePrev, Answer
  <2> QED BY <2>1, <2>2
<1>9. ASSUME NEW way \in {"next", "prev"}, NEW a, NEW end, Test(v, way, a, end)
      PROVE  end /\ UNCHANGED shape /\ reply' = [op |-> way, lev |-> lev[v], node |-> NULL]
  <2>1. \/ end /\ Answer(v, way, NULL)
        \/ pc' = [pc EXCEPT ![v] = IF way = "next" THEN "movenext" ELSE "moveprev"]
    BY <1>9, Zenon DEF Test
  <2>2. (IF way = "next" THEN "movenext" ELSE "moveprev") # "idle"
    OBVIOUS
  <2>3. end /\ Answer(v, way, NULL)
    BY <1>4, <2>1, <2>2, Zenon
  <2> QED BY <2>3 DEF Answer
<1>10. CASE TestNext(v)
  <2>1. CASE Test(v, "next", iter.next, EndAhead(lev[v]))
    <3>1. EndAhead(lev[v]) /\ UNCHANGED shape /\ reply' = [op |-> "next", lev |-> lev[v], node |-> NULL]
      BY <1>9, <2>1
    <3> QED BY <3>1
  <2>2. CASE iter.next = NoArray /\ Answer(v, "next", NULL)
    <3>1. UNCHANGED shape /\ reply' = [op |-> "next", lev |-> lev[v], node |-> NULL]
      BY <2>2 DEF Answer
    <3> QED BY <2>2, <3>1
  <2> QED BY <1>10, <2>1, <2>2, Zenon DEF TestNext
<1>11. CASE TestPrev(v)
  <2>1. EndBack(lev[v]) /\ UNCHANGED shape /\ reply' = [op |-> "prev", lev |-> lev[v], node |-> NULL]
    BY <1>9, <1>11 DEF TestPrev
  <2> QED BY <2>1
<1> QED BY <1>6, <1>7, <1>8, <1>10, <1>11

(* The neighbour of a node on a level is what its array holds.               *)
LEMMA AfterNeighbours ==
    ASSUME Listed, NEW n \in Nodes, NEW l \in Levels, sz[n] >= l
    PROVE  \/ After(n, l) = NIL /\ \A x \in Nodes : ~Neighbours(n, x, l)
           \/ /\ After(n, l) \in Nodes
              /\ \A x \in Nodes : Neighbours(n, x, l) <=> x = After(n, l)
<1>1. /\ Len(chain) \in Nat /\ DOMAIN chain = 1 .. Len(chain)
      /\ \A i \in 1 .. Len(chain) : chain[i] \in Nodes /\ sz[chain[i]] \in Nat
  BY ChainIs DEF Levels
<1>2. sz[n] # 0 /\ l \in Nat /\ n # NIL
  BY DEF Levels, Listed, Typed, Cells
<1> DEFINE p == Pos(n)
<1>3. p \in 1 .. Len(chain) /\ chain[p] = n
  BY <1>2, InList
<1>4. \A i, j \in 1 .. Len(chain) : chain[i] = chain[j] => i = j
  BY DEF Listed, Chained
<1>5. ASSUME NEW x \in Nodes, Neighbours(n, x, l)
      PROVE  \E j \in 1 .. Len(chain) :
                /\ chain[j] = x /\ p < j /\ sz[chain[j]] >= l
                /\ \A m \in 1 .. Len(chain) : p < m /\ m < j => sz[chain[m]] < l
  <2> HIDE DEF p
  <2> QED BY <1>1, <1>3, <1>4, <1>5 DEF Neighbours
<1>6. CASE /\ After(n, l) = NIL
           /\ \A i \in 1 .. Len(chain) : ~(sz[chain[i]] >= l /\ (n # NIL => i > p))
  <2> HIDE DEF p
  <2>1. \A x \in Nodes : ~Neighbours(n, x, l)
    BY <1>1, <1>3, <1>5, <1>6
  <2> QED BY <1>6, <2>1
<1>7. CASE \E i : AfterAt(n, l, i) /\ After(n, l) = chain[i]
  <2>1. PICK i : AfterAt(n, l, i) /\ After(n, l) = chain[i]
    BY <1>7
  <2>2. /\ i \in 1 .. Len(chain) /\ sz[chain[i]] >= l /\ i > p
        /\ \A j \in 1 .. Len(chain) : sz[chain[j]] >= l /\ j > p => i <= j
    BY <1>2, <2>1 DEF AfterAt
  <2> HIDE DEF p
  <2>3. Neighbours(n, chain[i], l)
    <3>1. \A m \in 1 .. Len(chain) : p < m /\ m < i => sz[chain[m]] < l
      BY <1>1, <1>2, <1>3, <2>2
    <3> QED BY <1>1, <1>3, <2>2, <3>1 DEF Neighbours
  <2>4. ASSUME NEW x \in Nodes, Neighbours(n, x, l)
        PROVE  x = chain[i]
    <3>1. PICK j \in 1 .. Len(chain) :
                /\ chain[j] = x /\ p < j /\ sz[chain[j]] >= l
                /\ \A m \in 1 .. Len(chain) : p < m /\ m < j => sz[chain[m]] < l
      BY <1>5, <2>4
    <3>2. i <= j
      BY <1>3, <2>2, <3>1
    <3>3. ~(i < j)
      BY <1>1, <1>2, <1>3, <2>2, <3>1
    <3>4. i = j
      BY <1>1, <2>2, <3>2, <3>3
    <3> QED BY <3>1, <3>4
  <2> QED BY <1>1, <2>1, <2>2, <2>3, <2>4
<1> QED BY <1>6, <1>7, AfterIs

LEMMA BeforeNeighbours ==
    ASSUME Listed, NEW n \in Nodes, NEW l \in Levels, sz[n] >= l
    PROVE  \/ Before(n, l) = NIL /\ \A x \in Nodes : ~Neighbours(x, n, l)
           \/ Before(n, l) \in Nodes /\ Neighbours(Before(n, l), n, l)
<1>1. /\ Len(chain) \in Nat /\ DOMAIN chain = 1 .. Len(chain)
      /\ \A i \in 1 .. Len(chain) : chain[i] \in Nodes /\ sz[chain[i]] \in Nat
  BY ChainIs DEF Levels
<1>2. sz[n] # 0 /\ l \in Nat /\ n # NIL
  BY DEF Levels, Listed, Typed, Cells
<1> DEFINE p == Pos(n)
<1>3. p \in 1 .. Len(chain) /\ chain[p] = n
  BY <1>2, InList
<1>4. \A i, j \in 1 .. Len(chain) : chain[i] = chain[j] => i = j
  BY DEF Listed, Chained
<1>5. CASE /\ Before(n, l) = NIL
           /\ \A i \in 1 .. Len(chain) : ~(sz[chain[i]] >= l /\ (n # NIL => i < p))
  <2> HIDE DEF p
  <2>1. ASSUME NEW x \in Nodes, Neighbours(x, n, l)
        PROVE  FALSE
    <3>1. PICK i, j \in 1 .. Len(chain) : chain[i] = x /\ chain[j] = n /\ i < j /\ sz[x] >= l
      BY <1>1, <2>1 DEF Neighbours
    <3>2. j = p
      BY <1>3, <1>4, <3>1
    <3> QED BY <1>2, <1>5, <3>1, <3>2
  <2> QED BY <1>5, <2>1
<1>6. CASE \E i : BeforeAt(n, l, i) /\ Before(n, l) = chain[i]
  <2>1. PICK i : BeforeAt(n, l, i) /\ Before(n, l) = chain[i]
    BY <1>6
  <2>2. /\ i \in 1 .. Len(chain) /\ sz[chain[i]] >= l /\ i < p
        /\ \A j \in 1 .. Len(chain) : sz[chain[j]] >= l /\ j < p => j <= i
    BY <1>2, <2>1 DEF BeforeAt
  <2> HIDE DEF p
  <2>3. \A m \in 1 .. Len(chain) : i < m /\ m < p => sz[chain[m]] < l
    BY <1>1, <1>2, <1>3, <2>2
  <2>4. Neighbours(chain[i], n, l)
    BY <1>1, <1>3, <2>2, <2>3 DEF Neighbours
  <2> QED BY <1>1, <2>1, <2>2, <2>4
<1> QED BY <1>5, <1>6, BeforeIs

LEMMA StepWalks ==
    ASSUME IInv, Remembering, [Next]_vars, Answered,
           reply.op \in {"next", "prev"}, reply.node # NULL, reply'.lev = reply.lev
    PROVE  /\ reply'.op # reply.op => reply'.node = reply.node
           /\ reply.op = "next" /\ reply'.op = "next" =>
                 \/ /\ reply'.node # NULL /\ reply'.node # iter.term
                    /\ Neighbours(reply.node, reply'.node, reply.lev)
                 \/ /\ reply'.node = NULL
                    /\ \A x \in Nodes : Neighbours(reply.node, x, reply.lev) => x = iter.term
           /\ reply.op = "prev" /\ reply'.op = "prev" =>
                 \/ reply'.node # NULL /\ Neighbours(reply'.node, reply.node, reply.lev)
                 \/ reply'.node = NULL /\ \A x \in Nodes : ~Neighbours(x, reply.node, reply.lev)
<1> DEFINE n == reply.node
           m == reply'.node
           l == reply.lev
<1>1. /\ Listed /\ n \in Nodes /\ n # NIL /\ l \in Levels
  BY DEF IInv, Replying, AnswersAreNodes, Remembering
<1>2. exists
  BY DEF Answered, IInv, Calling
<1>3. sz[n] >= l
  BY <1>1, AtIs DEF Remembering
<1>4. PICK u \in Users :
        /\ reply'.lev = lev[u]
        /\ \/ reply'.op = "next" /\ m = NULL /\ (iter.next = NoArray \/ EndAhead(lev[u]))
           \/ reply'.op = "prev" /\ m = NULL /\ EndBack(lev[u])
           \/ reply'.op = "next" /\ m = At(iter.next, lev[u]) /\ ~EndAhead(lev[u])
           \/ reply'.op = "prev" /\ m = At(iter.prev, lev[u]) /\ ~EndBack(lev[u])
  BY AnswerIs
<1>5. lev[u] = l
  BY <1>4
<1>6. NULL \notin Cells /\ NULL \notin Nodes
  BY DEF Cells
<1>7. /\ EndAhead(l) <=> At(iter.next, l) = NIL \/ At(iter.next, l) = iter.term
      /\ EndBack(l) <=> At(iter.prev, l) = NIL
  BY DEF EndAhead, EndBack
<1>8. CASE reply.op = "next"
  <2>1. iter.next = [cell |-> n, way |-> "next"] /\ At(iter.prev, l) = n
    BY <1>8 DEF Remembering
  <2>2. At(iter.next, l) = After(n, l) /\ iter.next.cell = n
    BY <2>1 DEF At
  <2>3. iter.next # NoArray
    BY <1>1, <1>6, <2>2 DEF NoArray
  <2> HIDE DEF n, m, l
  <2>4. reply'.op = "prev" => m = n
    BY <1>1, <1>4, <1>5, <1>7, <2>1
  <2>5. ASSUME reply'.op = "next"
        PROVE  \/ m # NULL /\ m # iter.term /\ Neighbours(n, m, l)
               \/ m = NULL /\ \A x \in Nodes : Neighbours(n, x, l) => x = iter.term
    BY <1>1, <1>3, <1>4, <1>5, <1>6, <1>7, <2>2, <2>3, <2>5, AfterNeighbours
  <2>6. reply'.op \in {"next", "prev"}
    BY <1>4
  <2> QED BY <1>8, <2>4, <2>5, <2>6 DEF n, m, l
<1>9. CASE reply.op = "prev"
  <2>1. /\ iter.prev = [cell |-> n, way |-> "prev"] /\ iter.range = 0
        /\ At(iter.next, l) = n /\ iter.term = NULL
    BY <1>9 DEF Remembering
  <2>2. At(iter.prev, l) = Before(n, l)
    BY <2>1 DEF At
  <2>3. iter.next # NoArray
    BY <1>2, <1>6, <2>1 DEF NoArray, IInv, Pointing, There
  <2> HIDE DEF n, m, l
  <2>4. reply'.op = "next" => m = n
    BY <1>1, <1>4, <1>5, <1>6, <1>7, <2>1, <2>3
  <2>5. ASSUME reply'.op = "prev"
        PROVE  \/ m # NULL /\ Neighbours(m, n, l)
               \/ m = NULL /\ \A x \in Nodes : ~Neighbours(x, n, l)
    BY <1>1, <1>3, <1>4, <1>5, <1>6, <1>7, <2>2, <2>5, BeforeNeighbours
  <2>6. reply'.op \in {"next", "prev"}
    BY <1>4
  <2> QED BY <1>9, <2>4, <2>5, <2>6 DEF n, m, l
<1> QED BY <1>8, <1>9

(* While the program keeps the rules, two steps in a row go from neighbour   *)
(* to neighbour on their level, and forward and back leads to the same node, *)
(* however the tests of one call and the changes of others are interleaved   *)
(* (skl_iter.c, getNext, getPrev).                                           *)
THEOREM InOrder == Cautious /\ Alone => (Spec => WalksInOrder)
<1> SUFFICES ASSUME Cautious, Alone
             PROVE  Spec => WalksInOrder
  OBVIOUS
<1>1. Init => IInv /\ Remembering
  BY InitSafe DEF Init, AtCell, Remembering
<1>2. IInv /\ Remembering /\ [Next]_vars => IInv' /\ Remembering'
  BY StepSafe, StepRemembers
<1>3. /\ IInv /\ Remembering /\ [Next]_vars
      /\ Answered /\ reply.op \in {"next", "prev"} /\ reply.node # NULL /\ reply'.lev = reply.lev
      => LET n == reply.node
             m == reply'.node
             l == reply.lev
         IN  /\ reply'.op # reply.op => m = n
             /\ reply.op = "next" /\ reply'.op = "next" =>
                   \/ m # NULL /\ m # iter.term /\ Neighbours(n, m, l)
                   \/ m = NULL /\ \A x \in Nodes : Neighbours(n, x, l) => x = iter.term
             /\ reply.op = "prev" /\ reply'.op = "prev" =>
                   \/ m # NULL /\ Neighbours(m, n, l)
                   \/ m = NULL /\ \A x \in Nodes : ~Neighbours(x, n, l)
  BY StepWalks, Zenon
<1> QED BY <1>1, <1>2, <1>3, PTL DEF Spec, WalksInOrder
=============================================================================
