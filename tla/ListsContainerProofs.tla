------------------------ MODULE ListsContainerProofs ------------------------
(***************************************************************************)
(* Theorems about ListsContainer, for any threads, any finite set of lists *)
(* and any step LC_MSTL by which the array grows.                          *)
(***************************************************************************)
EXTENDS ListsContainer, FiniteSetTheorems, WellFoundedInduction, SequenceTheorems, TLAPS

-----------------------------------------------------------------------------
(* Induction over the numbers, for a set in place of a predicate            *)

(* Every set of natural numbers that has a member has a least one.           *)
LEMMA LeastNumber ==
    ASSUME NEW S \in SUBSET Nat, S # {}
    PROVE  \E m \in S : \A k \in S : m <= k
<1>1. PICK m \in S : \A k \in S : <<k, m>> \notin OpToRel(<, Nat)
  BY NatLessThanWellFounded, WFMin, Zenon
<1>2. \A k \in S : ~(k < m)
  BY <1>1, Zenon DEF OpToRel
<1> QED BY <1>2

(* What is true of 0, and of i + 1 when it is true of i, is true up to n:    *)
(* holds is the set of numbers it is true of.                                *)
LEMMA Upwards ==
    ASSUME NEW n \in Nat, NEW holds, 0 \in holds,
           \A i \in 1 .. n : i - 1 \in holds => i \in holds
    PROVE  \A i \in 0 .. n : i \in holds
<1> DEFINE fails == {i \in 0 .. n : i \notin holds}
<1>1. SUFFICES ASSUME fails # {}
               PROVE  FALSE
  OBVIOUS
<1>2. PICK m \in fails : \A k \in fails : m <= k
  <2>1. fails \in SUBSET Nat
    OBVIOUS
  <2> HIDE DEF fails
  <2> QED BY <1>1, <2>1, LeastNumber
<1>3. m \in 1 .. n /\ m - 1 \in holds
  BY <1>2
<1> QED BY <1>2, <1>3

(* f begins with first, and has at i what step[i] makes of what is before.   *)
Iterates(f, first, step) ==
    f[0] = first /\ \A i \in DOMAIN step : f[i] = step[i][f[i - 1]]

(* What steps make of first, one after the other, is a function.             *)
LEMMA Iterate ==
    ASSUME NEW n \in Nat, NEW A, NEW first \in A, NEW step \in [1 .. n -> [A -> A]]
    PROVE  \E f \in [0 .. n -> A] : Iterates(f, first, step)
<1> DEFINE Upto(f, k) == f[0] = first /\ \A i \in 1 .. k : f[i] = step[i][f[i - 1]]
           holds == {k \in 0 .. n : \E f \in [0 .. n -> A] : Upto(f, k)}
<1>1. 0 \in holds
  <2> DEFINE f == [i \in 0 .. n |-> first]
  <2>1. f \in [0 .. n -> A] /\ Upto(f, 0)
    OBVIOUS
  <2> HIDE DEF f, Upto
  <2> QED BY <2>1
<1>2. ASSUME NEW k \in 1 .. n, k - 1 \in holds
      PROVE  k \in holds
  <2>1. PICK f \in [0 .. n -> A] : Upto(f, k - 1)
    BY <1>2
  <2> DEFINE turn == step[k][f[k - 1]]
             g    == [f EXCEPT ![k] = turn]
  <2>2. turn \in A /\ k - 1 \in 0 .. n /\ k \in 0 .. n /\ k - 1 # k /\ 0 # k
    BY <2>1
  <2>3. g \in [0 .. n -> A] /\ g[k] = turn /\ \A i \in 0 .. n : i # k => g[i] = f[i]
    BY <2>1, <2>2
  <2>4. ASSUME NEW i \in 1 .. k
        PROVE  g[i] = step[i][g[i - 1]]
    <3>1. CASE i = k
      BY <2>2, <2>3, <3>1
    <3>2. CASE i # k
      <4>1. i \in 1 .. k - 1 /\ i \in 0 .. n /\ i - 1 \in 0 .. n /\ i - 1 # k
        BY <3>2
      <4> HIDE DEF g
      <4> QED BY <2>1, <2>3, <3>2, <4>1
    <3> QED BY <3>1, <3>2
  <2>5. Upto(g, k)
    BY <2>1, <2>2, <2>3, <2>4
  <2> HIDE DEF g, Upto
  <2> QED BY <2>2, <2>3, <2>5
<1>3. n \in holds
  <2>1. \A k \in 0 .. n : k \in holds
    <3> HIDE DEF holds
    <3> QED BY <1>1, <1>2, Upwards
  <2> HIDE DEF holds
  <2> QED BY <2>1
<1>4. PICK f \in [0 .. n -> A] : Upto(f, n)
  BY <1>3
<1>5. Iterates(f, first, step)
  BY <1>4 DEF Iterates
<1> QED BY <1>4, <1>5

-----------------------------------------------------------------------------
(* Sums over finite sets                                                     *)

(* The function by which SumFunctionOnSet adds.                              *)
Total(f, h, s) == IF s = {} THEN 0
                  ELSE f[CHOOSE x \in s : TRUE] + h[s \ {CHOOSE x \in s : TRUE}]

Totals(f, S, h) == h = [s \in SUBSET S |-> Total(f, h, s)]

LEMMA Smaller ==
    ASSUME NEW S, IsFiniteSet(S), NEW s \in SUBSET S, NEW x \in s
    PROVE  /\ IsFiniteSet(s) /\ Cardinality(s) \in Nat /\ Cardinality(s) # 0
           /\ s \ {x} \in SUBSET S /\ Cardinality(s \ {x}) = Cardinality(s) - 1
BY FS_Subset, FS_CardinalityType, FS_RemoveElement, FS_EmptySet

LEMMA Chosen ==
    ASSUME NEW s, s # {}
    PROVE  (CHOOSE x \in s : TRUE) \in s
OBVIOUS

(* There is such a function, on sets of at most n elements first.            *)
LEMMA TotalsExist ==
    ASSUME NEW S, IsFiniteSet(S), NEW f, \A x \in S : f[x] \in Nat
    PROVE  \E h \in [SUBSET S -> Nat] : Totals(f, S, h)
<1> DEFINE Upto(h, n) == \A s \in SUBSET S : Cardinality(s) <= n => h[s] = Total(f, h, s)
           holds == {n \in Nat : \E h \in [SUBSET S -> Nat] : Upto(h, n)}
<1>1. Cardinality(S) \in Nat /\ \A s \in SUBSET S : Cardinality(s) \in Nat /\ Cardinality(s) <= Cardinality(S)
  BY FS_Subset, FS_CardinalityType
<1>2. 0 \in holds
  <2> DEFINE h == [s \in SUBSET S |-> 0]
  <2>1. ASSUME NEW s \in SUBSET S, Cardinality(s) <= 0
        PROVE  s = {}
    BY <1>1, <2>1, FS_Subset, FS_EmptySet
  <2>2. h \in [SUBSET S -> Nat] /\ Upto(h, 0)
    BY <2>1 DEF Total
  <2> HIDE DEF h, Upto
  <2> QED BY <2>2
<1>3. ASSUME NEW n \in 1 .. Cardinality(S), n - 1 \in holds
      PROVE  n \in holds
  <2>1. PICK g \in [SUBSET S -> Nat] : Upto(g, n - 1)
    BY <1>3
  <2>2. n \in Nat /\ n - 1 \in Nat
    BY <1>1
  <2> DEFINE h == [s \in SUBSET S |-> IF Cardinality(s) <= n - 1 THEN g[s] ELSE Total(f, g, s)]
  <2>3. ASSUME NEW s \in SUBSET S
        PROVE  Total(f, g, s) \in Nat
    <3>1. CASE s = {}
      BY <3>1 DEF Total
    <3>2. CASE s # {}
      <4> DEFINE x == CHOOSE x \in s : TRUE
      <4>1. x \in s
        BY <3>2, Chosen
      <4>2. Total(f, g, s) = f[x] + g[s \ {x}]
        BY <3>2 DEF Total
      <4> HIDE DEF x
      <4> QED BY <2>1, <4>1, <4>2
    <3> QED BY <3>1, <3>2
  <2>4. h \in [SUBSET S -> Nat]
    BY <2>1, <2>3
  <2>5. ASSUME NEW s \in SUBSET S, Cardinality(s) <= n
        PROVE  h[s] = Total(f, h, s)
    <3>1. h[s] = Total(f, g, s)
      BY <1>1, <2>1, <2>2
    <3>2. CASE s = {}
      BY <3>1, <3>2 DEF Total
    <3>3. CASE s # {}
      <4> DEFINE x == CHOOSE x \in s : TRUE
      <4>1. x \in s
        BY <3>3, Chosen
      <4>2. Total(f, g, s) = f[x] + g[s \ {x}] /\ Total(f, h, s) = f[x] + h[s \ {x}]
        BY <3>3 DEF Total
      <4> HIDE DEF x
      <4>3. s \ {x} \in SUBSET S /\ Cardinality(s \ {x}) <= n - 1
        BY <1>1, <2>2, <2>5, <4>1, Smaller
      <4>4. h[s \ {x}] = g[s \ {x}]
        BY <4>3
      <4> QED BY <3>1, <4>2, <4>4
    <3> QED BY <3>2, <3>3
  <2> HIDE DEF h
  <2>6. Upto(h, n)
    BY <2>5
  <2> HIDE DEF Upto
  <2> QED BY <2>2, <2>4, <2>6
<1>4. Cardinality(S) \in holds
  <2>1. \A i \in 0 .. Cardinality(S) : i \in holds
    <3> HIDE DEF holds
    <3> QED BY <1>1, <1>2, <1>3, Upwards
  <2> HIDE DEF holds
  <2> QED BY <1>1, <2>1
<1>5. PICK h \in [SUBSET S -> Nat] : Upto(h, Cardinality(S))
  BY <1>4
<1>6. \A s \in SUBSET S : h[s] = Total(f, h, s)
  BY <1>1, <1>5
<1>7. Totals(f, S, h)
  BY <1>5, <1>6 DEF Totals
<1> QED BY <1>7

(* It is the only one, and it does not matter which element comes first.     *)
LEMMA TotalsUnique ==
    ASSUME NEW S, IsFiniteSet(S), NEW f, NEW R, IsFiniteSet(R), NEW g, Totals(f, S, g),
           NEW h, Totals(f, R, h), NEW s \in SUBSET S, s \in SUBSET R
    PROVE  g[s] = h[s]
<1> DEFINE holds == {n \in Nat : \A r \in SUBSET s : Cardinality(r) <= n => g[r] = h[r]}
<1>1. /\ IsFiniteSet(s) /\ Cardinality(s) \in Nat
      /\ \A r \in SUBSET s : Cardinality(r) \in Nat /\ Cardinality(r) <= Cardinality(s)
  BY FS_Subset, FS_CardinalityType
<1>2. \A r \in SUBSET s : g[r] = Total(f, g, r) /\ h[r] = Total(f, h, r)
  BY DEF Totals
<1>3. 0 \in holds
  <2>1. ASSUME NEW r \in SUBSET s, Cardinality(r) <= 0
        PROVE  r = {}
    BY <1>1, <2>1, FS_Subset, FS_EmptySet
  <2>2. g[{}] = 0 /\ h[{}] = 0
    BY <1>2 DEF Total
  <2> QED BY <2>1, <2>2
<1>4. ASSUME NEW n \in 1 .. Cardinality(s), n - 1 \in holds
      PROVE  n \in holds
  <2>1. n \in Nat /\ n - 1 \in Nat
    BY <1>1
  <2>2. ASSUME NEW r \in SUBSET s, Cardinality(r) <= n
        PROVE  g[r] = h[r]
    <3>1. CASE r = {}
      BY <1>2, <3>1 DEF Total
    <3>2. CASE r # {}
      <4> DEFINE x == CHOOSE x \in r : TRUE
      <4>1. x \in r
        BY <3>2, Chosen
      <4>2. Total(f, g, r) = f[x] + g[r \ {x}] /\ Total(f, h, r) = f[x] + h[r \ {x}]
        BY <3>2 DEF Total
      <4> HIDE DEF x
      <4>3. r \ {x} \in SUBSET s /\ Cardinality(r \ {x}) <= n - 1
        BY <1>1, <2>1, <2>2, <4>1, Smaller
      <4>4. g[r \ {x}] = h[r \ {x}]
        BY <1>4, <4>3
      <4> QED BY <1>2, <4>2, <4>4
    <3> QED BY <3>1, <3>2
  <2> QED BY <2>1, <2>2
<1>5. \A i \in 0 .. Cardinality(s) : i \in holds
  <2> HIDE DEF holds
  <2> QED BY <1>1, <1>3, <1>4, Upwards
<1>6. Cardinality(s) \in holds
  <2> HIDE DEF holds
  <2> QED BY <1>1, <1>5
<1> QED BY <1>1, <1>6

LEMMA TotalsAnyOrder ==
    ASSUME NEW S, IsFiniteSet(S), NEW f, \A x \in S : f[x] \in Nat,
           NEW h \in [SUBSET S -> Nat], Totals(f, S, h), NEW z \in S
    PROVE  h[S] = f[z] + h[S \ {z}]
<1> DEFINE holds == {n \in Nat : \A s \in SUBSET S : \A x \in s :
                                    Cardinality(s) <= n => h[s] = f[x] + h[s \ {x}]}
<1>1. Cardinality(S) \in Nat /\ \A s \in SUBSET S : Cardinality(s) \in Nat /\ Cardinality(s) <= Cardinality(S)
  BY FS_Subset, FS_CardinalityType
<1>2. \A s \in SUBSET S : h[s] = Total(f, h, s)
  BY DEF Totals
<1>3. 0 \in holds
  <2>1. ASSUME NEW s \in SUBSET S, NEW x \in s, Cardinality(s) <= 0
        PROVE  FALSE
    <3>1. Cardinality(s) \in Nat /\ Cardinality(s) # 0
      BY Smaller
    <3> QED BY <2>1, <3>1
  <2> QED BY <2>1
<1>4. ASSUME NEW n \in 1 .. Cardinality(S), n - 1 \in holds
      PROVE  n \in holds
  <2>1. n \in Nat /\ n - 1 \in Nat
    BY <1>1
  <2>2. ASSUME NEW s \in SUBSET S, NEW x \in s, Cardinality(s) <= n
        PROVE  h[s] = f[x] + h[s \ {x}]
    <3> DEFINE y == CHOOSE y \in s : TRUE
    <3>1. y \in s /\ h[s] = f[y] + h[s \ {y}]
      BY <1>2, Chosen DEF Total
    <3> HIDE DEF y
    <3>2. CASE x = y
      BY <3>1, <3>2
    <3>3. CASE x # y
      <4>1. /\ s \ {x} \in SUBSET S /\ Cardinality(s \ {x}) <= n - 1
            /\ s \ {y} \in SUBSET S /\ Cardinality(s \ {y}) <= n - 1
        BY <1>1, <2>1, <2>2, <3>1, Smaller
      <4>2. y \in s \ {x} /\ x \in s \ {y}
        BY <3>1, <3>3
      <4>3. /\ h[s \ {x}] = f[y] + h[(s \ {x}) \ {y}]
            /\ h[s \ {y}] = f[x] + h[(s \ {y}) \ {x}]
        BY <1>4, <4>1, <4>2
      <4>4. (s \ {x}) \ {y} = (s \ {y}) \ {x} /\ (s \ {x}) \ {y} \in SUBSET S
        OBVIOUS
      <4>5. f[x] \in Nat /\ f[y] \in Nat /\ h[(s \ {x}) \ {y}] \in Nat
        BY <3>1, <4>4
      <4> DEFINE rest == h[(s \ {x}) \ {y}]
                 less == h[s \ {x}]
      <4>6. h[s] = f[y] + (f[x] + rest) /\ less = f[y] + rest
        BY <3>1, <4>3, <4>4
      <4> HIDE DEF rest, less
      <4>7. h[s] = f[x] + less
        <5>1. rest \in Nat
          BY <4>5 DEF rest
        <5> QED BY <4>5, <4>6, <5>1
      <4> QED BY <4>7 DEF less
    <3> QED BY <3>2, <3>3
  <2> QED BY <2>1, <2>2
<1>5. \A i \in 0 .. Cardinality(S) : i \in holds
  <2> HIDE DEF holds
  <2> QED BY <1>1, <1>3, <1>4, Upwards
<1>6. Cardinality(S) \in holds
  <2> HIDE DEF holds
  <2> QED BY <1>1, <1>5
<1> QED BY <1>1, <1>6

LEMMA SumIsSome ==
    ASSUME NEW S, NEW f, NEW g, Totals(f, S, g)
    PROVE  \E h : Totals(f, S, h) /\ SumFunctionOnSet(f, S) = h[S]
<1> DEFINE Adds(h) == h = [s \in SUBSET S |-> IF s = {} THEN 0
                             ELSE f[CHOOSE x \in s : TRUE] + h[s \ {CHOOSE x \in s : TRUE}]]
<1>1. \A h : Adds(h) <=> Totals(f, S, h)
  BY Zenon DEF Totals, Total
<1>2. Adds(g)
  BY <1>1
<1>3. \E h : Adds(h) /\ SumFunctionOnSet(f, S) = h[S]
  BY <1>2, Zenon DEF SumFunctionOnSet, FoldFunctionOnSet, MapThenFoldSet
<1> HIDE DEF Adds
<1> QED BY <1>1, <1>3

(* What SumFunctionOnSet is of the set itself.                               *)
LEMMA SumIsTotal ==
    ASSUME NEW S, IsFiniteSet(S), NEW f, \A x \in S : f[x] \in Nat,
           NEW g, Totals(f, S, g), NEW R \in SUBSET S
    PROVE  SumFunctionOnSet(f, R) = g[R]
<1>1. IsFiniteSet(R)
  BY FS_Subset
<1>2. PICK k : Totals(f, R, k)
  BY <1>1, TotalsExist
<1>3. \E h : Totals(f, R, h) /\ SumFunctionOnSet(f, R) = h[R]
  BY <1>2, SumIsSome
<1>4. PICK h : Totals(f, R, h) /\ SumFunctionOnSet(f, R) = h[R]
  BY <1>3
<1>5. h[R] = g[R]
  BY <1>1, <1>4, TotalsUnique
<1> QED BY <1>4, <1>5

(* The sum over no set is 0, that over a set is what any element brings and  *)
(* the sum over the others.                                                  *)
LEMMA SumsUp ==
    ASSUME NEW S, IsFiniteSet(S), NEW f, \A x \in S : f[x] \in Nat
    PROVE  /\ SumFunctionOnSet(f, S) \in Nat
           /\ SumFunctionOnSet(f, {}) = 0
           /\ \A x \in S : SumFunctionOnSet(f, S) = f[x] + SumFunctionOnSet(f, S \ {x})
<1>1. PICK h \in [SUBSET S -> Nat] : Totals(f, S, h)
  BY TotalsExist
<1>2. \A R \in SUBSET S : SumFunctionOnSet(f, R) = h[R]
  BY <1>1, SumIsTotal
<1>3. h[{}] = 0
  BY <1>1 DEF Totals, Total
<1>4. \A x \in S : h[S] = f[x] + h[S \ {x}]
  BY <1>1, TotalsAnyOrder
<1> QED BY <1>2, <1>3, <1>4

(* It depends on the values in the set only.                                 *)
LEMMA SumsAgree ==
    ASSUME NEW S, IsFiniteSet(S), NEW f, NEW g, \A x \in S : f[x] \in Nat /\ g[x] = f[x]
    PROVE  SumFunctionOnSet(f, S) = SumFunctionOnSet(g, S)
<1>1. PICK h \in [SUBSET S -> Nat] : Totals(f, S, h)
  BY TotalsExist
<1>2. \A s \in SUBSET S : Total(g, h, s) = Total(f, h, s)
  <2> SUFFICES ASSUME NEW s \in SUBSET S
               PROVE  Total(g, h, s) = Total(f, h, s)
    OBVIOUS
  <2>1. CASE s = {}
    BY <2>1 DEF Total
  <2>2. CASE s # {}
    <3> DEFINE x == CHOOSE x \in s : TRUE
    <3>1. /\ x \in s
          /\ Total(g, h, s) = g[x] + h[s \ {x}] /\ Total(f, h, s) = f[x] + h[s \ {x}]
      BY <2>2, Chosen DEF Total
    <3> HIDE DEF x
    <3> QED BY <3>1
  <2> QED BY <2>1, <2>2
<1>3. Totals(g, S, h)
  BY <1>1, <1>2 DEF Totals
<1>4. SumFunctionOnSet(f, S) = h[S] /\ SumFunctionOnSet(g, S) = h[S]
  BY <1>1, <1>3, SumIsTotal
<1> QED BY <1>4

USE ContainerAssumption DEF ContainerAssumption

(* What the theorems assume of the program.                                  *)
Cautious == {"alone", "owned", "once", "dst"} \subseteq Contract

-----------------------------------------------------------------------------
(* The inductive invariant                                                   *)

Inside == {"grow", "store", "unlock"}     \* with the mutex
Adding == {"lock"} \cup Inside
Ending == {"sweep", "reset"}

Entries == Lists \cup {NULL, UNSET}

(* The program has put a list into the array, and not counted it yet.        *)
Stored(t) == th[t].pc = "unlock" /\ th[t].i > 0

Typed ==
    /\ build \in Builds
    /\ state \in [Lists -> {"none", "live", "gone"}] /\ dst \in [Lists -> BOOLEAN]
    /\ lc \in [acl : Seq(Entries), max_lists : Nat, lists_cnt : Nat,
               mode : {"LC_NONE", "LC_FULL"}]
    /\ th \in [Threads -> [pc : {"run"} \cup Adding \cup Ending, l : Lists \cup {NULL},
                           i : Nat, fatal : BOOLEAN]]
    /\ mtx_lock \in Threads \cup {NULL}
    /\ added \subseteq Lists
    /\ outcome \in {"running", "exited"}

(* A list has a destroyer of nodes, and was made before it was added.        *)
Made ==
    /\ \A l \in Lists : state[l] = "live" => dst[l]
    /\ \A l \in added : state[l] # "none"

(* There is room for what is counted, and only added lists are.              *)
Sized ==
    /\ lc.lists_cnt <= lc.max_lists /\ lc.lists_cnt <= Cardinality(added)
    /\ IF lc.acl = NoArray THEN lc.lists_cnt = 0 ELSE lc.max_lists <= Len(lc.acl)

(* Who adds a list does so while there is an array, with a list that nobody  *)
(* else adds and that nobody destroys; who ends the container is alone.      *)
AddingOne(t) ==
    /\ lc.acl # NoArray
    /\ th[t].l \in Lists /\ state[th[t].l] = "live"
    /\ \A u \in Threads \ {t} : th[u].l # th[t].l
    /\ ~Stored(t) => th[t].i = 0 /\ th[t].l \notin added

Counting(t) ==
    /\ th[t].i = lc.lists_cnt + 1 /\ th[t].i <= lc.max_lists /\ th[t].i <= Cardinality(added)
    /\ lc.acl[th[t].i] = th[t].l /\ th[t].l \in added
    /\ \A j \in 1 .. lc.lists_cnt : lc.acl[j] # th[t].l

Placed(t) ==
    /\ th[t].pc \in Inside <=> mtx_lock = t
    /\ th[t].pc \notin Adding => th[t].l = NULL
    /\ th[t].pc \in Adding => AddingOne(t)
    /\ th[t].pc = "store" => lc.lists_cnt < lc.max_lists
    /\ Stored(t) => Counting(t)
    /\ th[t].pc \in Ending => Alone(t)
    /\ th[t].pc = "sweep" => lc.acl # NoArray /\ th[t].i <= lc.lists_cnt

(* After the first d entries the array holds the lists that were added and   *)
(* are there, each once, but for those not counted yet.                      *)
Kept(d) ==
    /\ \A j \in d + 1 .. lc.lists_cnt : lc.acl[j] \in added /\ state[lc.acl[j]] = "live"
    /\ \A j, k \in d + 1 .. lc.lists_cnt : lc.acl[j] = lc.acl[k] => j = k
    /\ \A l \in added : state[l] = "live" =>
          \/ \E j \in d + 1 .. lc.lists_cnt : lc.acl[j] = l
          \/ \E t \in Threads : Stored(t) /\ th[t].l = l

Swept ==
    /\ (\A t \in Threads : th[t].pc \notin Ending) => Kept(0)
    /\ \A t \in Threads : th[t].pc = "sweep" => Kept(th[t].i)
    /\ \A t \in Threads : th[t].pc = "reset" => \A l \in added : state[l] # "live"

IInv == Typed /\ Made /\ Sized /\ (\A t \in Threads : Placed(t)) /\ Swept

-----------------------------------------------------------------------------
(* Calls on lists                                                            *)

(* The thread goes on to destroy the container.                              *)
Ends(t) ==
    /\ Alone(t) /\ th[t].pc = "run"
    /\ \E f \in BOOLEAN :
          th' = [th EXCEPT ![t] = [pc |-> IF lc.acl # NoArray THEN "sweep" ELSE "reset",
                                   l |-> NULL, i |-> 0, fatal |-> f]]

IsMade(l) ==
    /\ state[l] = "none"
    /\ state' = [state EXCEPT ![l] = "live"] /\ dst' = [dst EXCEPT ![l] = TRUE]

IsDestroyed(l) ==
    /\ state[l] = "live" /\ ~Pushing(l) /\ ~InContainer(l)
    /\ state' = [state EXCEPT ![l] = "gone"] /\ dst' = dst

(* What a call on lists means for the container.                             *)
ListsStep(t) ==
    /\ UNCHANGED <<build, cont, outcome>>
    /\ \/ UNCHANGED <<state, dst>> /\ (UNCHANGED th \/ Ends(t))
       \/ UNCHANGED th /\ \E l \in Lists : IsMade(l) \/ IsDestroyed(l)

LEMMA FatalEnds ==
    ASSUME Cautious, NEW t \in Threads, th[t].pc = "run", MayEnd(t), Fatal(t)
    PROVE  Ends(t)
<1>1. Alone(t)
  BY DEF Cautious, MayEnd
<1> QED BY <1>1, Zenon DEF Ends, Fatal

LEMMA ExhaustedEnds ==
    ASSUME Cautious, NEW t \in Threads, th[t].pc = "run", Exhausted(t)
    PROVE  UNCHANGED th \/ Ends(t)
<1>1. UNCHANGED th \/ (MayEnd(t) /\ Fatal(t))
  BY Zenon DEF Exhausted
<1> QED BY <1>1, FatalEnds

LEMMA FillStep ==
    ASSUME Cautious, NEW t \in Threads, th[t].pc = "run", NEW l, NEW s, NEW mode,
           Fill(t, l, s, mode)
    PROVE  ListsStep(t)
<1>1. UNCHANGED <<build, state, dst, cont, outcome>> /\ (UNCHANGED th \/ Exhausted(t))
  BY Zenon DEF Fill
<1>2. UNCHANGED th \/ Ends(t)
  BY <1>1, ExhaustedEnds
<1> QED BY <1>1, <1>2 DEF ListsStep

LEMMA OnListsSteps ==
    ASSUME Cautious, Typed, Made, NEW t \in Threads, OnLists(t)
    PROVE  ListsStep(t)
<1>1. ASSUME NEW l \in Lists, NEW d \in BOOLEAN, InitList(t, l, d)
      PROVE  ListsStep(t)
  <2>1. th[t].pc = "run" /\ state[l] = "none" /\ d = TRUE
    BY <1>1 DEF InitList, Call, Cautious
  <2>2. CASE state' = [state EXCEPT ![l] = "live"] /\ dst' = [dst EXCEPT ![l] = d] /\ UNCHANGED th
    <3>1. IsMade(l)
      BY <2>1, <2>2 DEF IsMade
    <3> QED BY <1>1, <2>2, <3>1 DEF InitList, ListsStep
  <2>3. ASSUME NEW part, PartMissing(t, part), UNCHANGED <<state, dst>>
        PROVE  ListsStep(t)
    <3>1. (MayEnd(t) /\ Fatal(t)) \/ Exhausted(t)
      BY <2>3, Zenon DEF PartMissing
    <3>2. UNCHANGED th \/ Ends(t)
      BY <2>1, <3>1, FatalEnds, ExhaustedEnds
    <3> QED BY <1>1, <2>3, <3>2 DEF InitList, ListsStep
  <2>4. \/ state' = [state EXCEPT ![l] = "live"] /\ dst' = [dst EXCEPT ![l] = d] /\ UNCHANGED th
        \/ UNCHANGED <<state, dst>> /\ \E i \in DOMAIN Parts : PartMissing(t, Parts[i])
    BY <1>1, Zenon DEF InitList
  <2> QED BY <2>2, <2>3, <2>4, Zenon
<1>2. ASSUME NEW l \in Lists, Destroy(t, l)
      PROVE  ListsStep(t)
  <2>1. th[t].pc = "run" /\ state[l] = "live" /\ ~Pushing(l) /\ ~InContainer(l) /\ dst[l]
    BY <1>2 DEF Destroy, Call, Cautious, Made
  <2>2. Destroyed(l) /\ UNCHANGED th /\ UNCHANGED <<build, cont, outcome>>
    BY <1>2, <2>1, Zenon DEF Destroy
  <2>3. IsDestroyed(l)
    BY <2>1, <2>2 DEF Destroyed, IsDestroyed
  <2> QED BY <2>2, <2>3 DEF ListsStep
<1>3. ASSUME NEW l \in Lists, NEW k \in Keys, Insert(t, l, k)
      PROVE  ListsStep(t)
  <2>1. th[t].pc = "run" /\ UNCHANGED <<build, state, dst, cont, outcome>>
    BY <1>3 DEF Insert, Call
  <2>2. UNCHANGED th \/ Exhausted(t)
    BY <1>3, Zenon DEF Insert
  <2> QED BY <2>1, <2>2, ExhaustedEnds DEF ListsStep
<1>4. ASSUME NEW l \in Lists, NEW k \in Keys, Delete(t, l, k)
      PROVE  ListsStep(t)
  <2>1. UNCHANGED <<build, state, dst, cont, th, outcome>>
    BY <1>4, Zenon DEF Delete
  <2> QED BY <2>1 DEF ListsStep
<1>5. ASSUME NEW l \in Lists, NEW m \in Lists, JoinND(t, l, m)
      PROVE  ListsStep(t)
  <2>1. th[t].pc = "run" /\ dst[l]
    BY <1>5 DEF JoinND, Call, AllLive, Made
  <2>2. Fill(t, l, nodes[m], "ND")
    BY <1>5, <2>1, Zenon DEF JoinND
  <2> QED BY <2>1, <2>2, FillStep
<1>6. ASSUME NEW l \in Lists, NEW m \in Lists, JoinAD(t, l, m) \/ Copy(t, l, m)
      PROVE  ListsStep(t)
  BY <1>6, FillStep DEF JoinAD, Copy, Call
<1>7. ASSUME NEW l \in Lists, NEW m \in Lists, NEW n \in Lists, Intersect(t, l, m, n)
      PROVE  ListsStep(t)
  BY <1>7, FillStep DEF Intersect, Call
<1> QED BY <1>1, <1>2, <1>3, <1>4, <1>5, <1>6, <1>7 DEF OnLists

-----------------------------------------------------------------------------
(* Each step keeps the invariant                                             *)

(* Nobody adds when all threads but one are elsewhere, and that one too.     *)
LEMMA AllRun ==
    ASSUME Typed, \A u \in Threads : Placed(u), Swept,
           NEW t \in Threads, Alone(t), th[t].pc = "run"
    PROVE  /\ \A u \in Threads : th[u].pc = "run" /\ th[u].l = NULL /\ mtx_lock # u
           /\ Kept(0)
<1>1. \A u \in Threads : th[u].pc = "run"
  BY DEF Alone
<1>2. \A u \in Threads : th[u].l = NULL /\ mtx_lock # u
  BY <1>1 DEF Placed, Adding, Inside
<1>3. Kept(0)
  BY <1>1 DEF Swept, Ending
<1> QED BY <1>1, <1>2, <1>3

(* The container as far as it matters: its array and what is in it.          *)
SameArray ==
    /\ lc'.acl = lc.acl /\ lc'.max_lists = lc.max_lists /\ lc'.lists_cnt = lc.lists_cnt
    /\ lc' \in [acl : Seq(Entries), max_lists : Nat, lists_cnt : Nat,
                mode : {"LC_NONE", "LC_FULL"}]

LEMMA EndsStep ==
    ASSUME IInv, NEW t \in Threads, Ends(t), SameArray,
           UNCHANGED <<build, state, dst, mtx_lock, added, outcome>>
    PROVE  IInv'
<1>1. /\ \A u \in Threads : th[u].pc = "run" /\ th[u].l = NULL /\ mtx_lock # u
      /\ Kept(0)
  BY AllRun DEF IInv, Ends
<1>2. PICK f \in BOOLEAN :
        th' = [th EXCEPT ![t] = [pc |-> IF lc.acl # NoArray THEN "sweep" ELSE "reset",
                                 l |-> NULL, i |-> 0, fatal |-> f]]
  BY DEF Ends
<1> DEFINE p == IF lc.acl # NoArray THEN "sweep" ELSE "reset"
<1>3. p \in Ending /\ (p = "sweep" => lc.acl # NoArray) /\ (p = "reset" => lc.acl = NoArray)
  BY DEF Ending
<1> HIDE DEF p
<1>4. th' = [th EXCEPT ![t] = [pc |-> p, l |-> NULL, i |-> 0, fatal |-> f]]
  BY <1>2 DEF p
<1>5. th'[t] = [pc |-> p, l |-> NULL, i |-> 0, fatal |-> f]
  BY <1>4 DEF IInv, Typed
<1>6. \A u \in Threads : u # t => th'[u] = th[u] /\ th'[u].pc = "run" /\ th'[u].l = NULL
  BY <1>1, <1>4 DEF IInv, Typed
<1>7. p \notin Adding /\ p # "run" /\ "run" \notin Adding \cup Ending
  BY <1>3 DEF Ending, Adding, Inside
<1>8. Typed'
  BY <1>3, <1>4 DEF IInv, Typed, SameArray
<1>9. Made' /\ Sized'
  BY DEF IInv, Made, Sized, SameArray
<1>10. ASSUME NEW u \in Threads
       PROVE  Placed(u)'
  <2>1. th'[u].pc \notin Adding /\ th'[u].l = NULL /\ mtx_lock' # u
    BY <1>1, <1>5, <1>6, <1>7
  <2>2. ~Stored(u)'
    BY <2>1 DEF Stored, Adding, Inside
  <2>3. th'[u].pc \in Ending => Alone(u)' /\ u = t
    BY <1>5, <1>6, <1>7 DEF Alone
  <2>4. th'[u].pc = "sweep" => lc'.acl # NoArray /\ th'[u].i <= lc'.lists_cnt
    BY <1>3, <1>5, <2>3 DEF Ending, IInv, Typed, SameArray
  <2> QED BY <2>1, <2>2, <2>3, <2>4 DEF Placed, Adding, Inside
<1>11. Kept(0)'
  <2>1. \A u \in Threads : ~Stored(u)
    BY <1>1 DEF Stored
  <2> QED BY <1>1, <2>1 DEF Kept, SameArray
<1>12. Swept'
  <2>1. \A u \in Threads : th'[u].pc \in Ending => u = t
    BY <1>6, <1>7
  <2>2. \A u \in Threads : th'[u].pc = "sweep" => Kept(th[u].i)'
    <3>1. th'[t].i = 0
      BY <1>5
    <3> QED BY <1>11, <2>1, <3>1 DEF Kept, Ending
  <2>3. ASSUME p = "reset", NEW l \in added
        PROVE  state[l] # "live"
    <3>1. lc.lists_cnt = 0 /\ \A u \in Threads : ~Stored(u)
      BY <1>1, <1>3, <2>3 DEF Stored, IInv, Sized
    <3> QED BY <1>1, <3>1 DEF Kept
  <2> QED BY <1>3, <1>5, <2>1, <2>2, <2>3 DEF Swept, Ending
<1> QED BY <1>8, <1>9, <1>10, <1>12 DEF IInv

(* A list is made or destroyed while the container stays as it is.           *)
LEMMA LivesStep ==
    ASSUME IInv, NEW m \in Lists, IsMade(m) \/ IsDestroyed(m),
           UNCHANGED <<build, cont, th, outcome>>
    PROVE  IInv'
<1>1. /\ state \in [Lists -> {"none", "live", "gone"}] /\ dst \in [Lists -> BOOLEAN]
      /\ UNCHANGED <<lc, mtx_lock, added>>
  BY DEF IInv, Typed, cont
<1>2. /\ state' \in [Lists -> {"none", "live", "gone"}] /\ dst' \in [Lists -> BOOLEAN]
      /\ \A l \in Lists : l # m => state'[l] = state[l] /\ dst'[l] = dst[l]
  BY <1>1 DEF IsMade, IsDestroyed
<1>3. Typed'
  BY <1>1, <1>2 DEF IInv, Typed
<1>4. Made'
  BY <1>1, <1>2 DEF IInv, Typed, Made, IsMade, IsDestroyed
<1>5. Sized'
  BY <1>1 DEF IInv, Sized
<1>6. ASSUME NEW u \in Threads
      PROVE  Placed(u)'
  <2>1. th[u].pc \in Adding => state'[th[u].l] = "live"
    BY <1>2 DEF IInv, Placed, AddingOne, IsMade, IsDestroyed, Pushing
  <2> QED BY <1>1, <2>1 DEF IInv, Placed, AddingOne, Counting, Stored, Alone
<1>7. ASSUME NEW d \in Nat, Kept(d)
      PROVE  Kept(d)'
  <2>1. ASSUME NEW j \in d + 1 .. lc.lists_cnt
        PROVE  lc.acl[j] \in added /\ state'[lc.acl[j]] = "live"
    <3>1. lc.acl[j] \in added /\ state[lc.acl[j]] = "live" /\ added \subseteq Lists
      BY <1>7, <2>1 DEF Kept, IInv, Typed
    <3>2. j \in 1 .. lc.lists_cnt /\ lc.acl # NoArray
      BY DEF IInv, Sized, Typed
    <3>3. IsDestroyed(m) => lc.acl[j] # m
      BY <3>2 DEF IsDestroyed, InContainer
    <3> QED BY <1>2, <3>1, <3>3 DEF IsMade
  <2>2. \A l \in added : state'[l] = "live" => state[l] = "live"
    BY <1>1, <1>2 DEF IInv, Made, Typed, IsMade, IsDestroyed
  <2> QED BY <1>1, <1>7, <2>1, <2>2 DEF Kept, Stored
<1>8. \A l \in added : state'[l] = "live" => state[l] = "live"
  BY <1>1, <1>2 DEF IInv, Made, Typed, IsMade, IsDestroyed
<1>9. Swept'
  <2>1. \A u \in Threads : th[u].i \in Nat
    BY DEF IInv, Typed
  <2> QED BY <1>1, <1>7, <1>8, <2>1 DEF IInv, Swept
<1> QED BY <1>3, <1>4, <1>5, <1>6, <1>9 DEF IInv

LEMMA Stutter ==
    ASSUME IInv, SameArray, UNCHANGED <<build, state, dst, mtx_lock, added, th, outcome>>
    PROVE  IInv'
<1>1. Typed' /\ Made' /\ Sized'
  BY DEF IInv, Typed, Made, Sized, SameArray
<1>2. \A u \in Threads : Placed(u)'
  BY DEF IInv, Placed, AddingOne, Counting, Stored, Alone, SameArray
<1>3. \A d : Kept(d)' <=> Kept(d)
  BY DEF Kept, Stored, SameArray
<1>4. Swept'
  BY <1>3 DEF IInv, Swept
<1> QED BY <1>1, <1>2, <1>4 DEF IInv

LEMMA ListsKeep ==
    ASSUME Cautious, IInv, NEW t \in Threads, OnLists(t)
    PROVE  IInv'
<1>1. ListsStep(t)
  BY OnListsSteps DEF IInv
<1>2. SameArray /\ UNCHANGED <<lc, mtx_lock, added>>
  BY <1>1 DEF ListsStep, cont, SameArray, IInv, Typed
<1> QED BY <1>1, <1>2, EndsStep, LivesStep, Stutter DEF ListsStep

-----------------------------------------------------------------------------
(* Making the container, and beginning to end it                             *)

(* A thread that is in no call begins one.                                   *)
LEMMA Began ==
    ASSUME NEW p, NEW l
    PROVE  /\ [Running EXCEPT !.pc = p] = [pc |-> p, l |-> NULL, i |-> 0, fatal |-> FALSE]
           /\ [Running EXCEPT !.pc = p, !.fatal = TRUE] = [pc |-> p, l |-> NULL, i |-> 0, fatal |-> TRUE]
           /\ [Running EXCEPT !.pc = p, !.l = l] = [pc |-> p, l |-> l, i |-> 0, fatal |-> FALSE]
<1> DEFINE no   == FALSE
           yes  == TRUE
           next == [Running EXCEPT !.pc = p]
<1>1. Running = [pc |-> "run", l |-> NULL, i |-> 0, fatal |-> no]
  BY DEF Running
<1> HIDE DEF no, yes
<1>2. next = [pc |-> p, l |-> NULL, i |-> 0, fatal |-> no]
  BY <1>1
<1> HIDE DEF next
<1>3. /\ [next EXCEPT !.fatal = yes] = [pc |-> p, l |-> NULL, i |-> 0, fatal |-> yes]
      /\ [next EXCEPT !.l = l] = [pc |-> p, l |-> l, i |-> 0, fatal |-> no]
  BY <1>2
<1> QED BY <1>2, <1>3 DEF no, yes, next

LEMMA NewArray ==
    ASSUME NEW n \in Nat
    PROVE  LET a == [i \in 1 .. n |-> UNSET] IN a \in Seq(Entries) /\ Len(a) = n
BY DEF Entries

LEMMA InitContainerKeeps ==
    ASSUME Cautious, IInv, NEW t \in Threads, InitContainer(t)
    PROVE  IInv'
<1>1. /\ th[t].pc = "run" /\ lc.acl = NoArray /\ Alone(t)
      /\ UNCHANGED <<build, state, dst, mtx_lock, added, outcome>>
  BY DEF InitContainer, Call, Cautious
<1>2. /\ \A u \in Threads : th[u].pc = "run" /\ th[u].l = NULL /\ mtx_lock # u
      /\ Kept(0)
  BY <1>1, AllRun DEF IInv
<1>3. lc = [acl |-> lc.acl, max_lists |-> lc.max_lists, lists_cnt |-> lc.lists_cnt, mode |-> lc.mode]
      /\ lc.max_lists \in Nat /\ lc.lists_cnt = 0
  BY <1>1 DEF IInv, Typed, Sized
<1> DEFINE size == lc.max_lists + LC_MSTL
           new  == [i \in 1 .. size |-> UNSET]
<1>4. CASE lc' = [lc EXCEPT !.mode = "LC_FULL", !.acl = new] /\ UNCHANGED th
  <2>1. new \in Seq(Entries) /\ Len(new) = size /\ size \in Nat /\ size > lc.max_lists
    <3>1. size \in Nat /\ size > lc.max_lists
      BY <1>3
    <3> HIDE DEF size
    <3> QED BY <3>1, NewArray
  <2> HIDE DEF new, size
  <2>2. /\ lc'.acl = new /\ lc'.max_lists = lc.max_lists /\ lc'.lists_cnt = 0
        /\ lc' \in [acl : Seq(Entries), max_lists : Nat, lists_cnt : Nat,
                    mode : {"LC_NONE", "LC_FULL"}]
    <3>1. lc' = [acl |-> new, max_lists |-> lc.max_lists, lists_cnt |-> lc.lists_cnt,
                 mode |-> "LC_FULL"]
      BY <1>3, <1>4
    <3> QED BY <1>3, <2>1, <3>1
  <2>3. new # NoArray
    BY <1>3, <2>1 DEF NoArray
  <2>4. Typed' /\ Made'
    BY <1>1, <1>4, <2>2 DEF IInv, Typed, Made
  <2>5. Sized'
    BY <1>1, <1>3, <2>1, <2>2, <2>3 DEF IInv, Sized
  <2>6. \A u \in Threads : Placed(u)'
    BY <1>1, <1>2, <1>4 DEF Placed, Stored, Adding, Inside, Ending
  <2>7. Kept(0)'
    <3>1. \A l \in added : state[l] # "live"
      BY <1>2, <1>3 DEF Kept, Stored
    <3> QED BY <1>1, <2>2, <3>1 DEF Kept
  <2> QED BY <1>2, <1>4, <2>4, <2>5, <2>6, <2>7 DEF IInv, Swept
<1>5. CASE lc' = [lc EXCEPT !.mode = "LC_FULL", !.acl = NoArray]
  <2>1. SameArray
    BY <1>1, <1>3, <1>5 DEF SameArray, IInv, Typed
  <2>2. CASE UNCHANGED th
    BY <1>1, <2>1, <2>2, Stutter
  <2>3. CASE th' = [th EXCEPT ![t] = [Running EXCEPT !.pc = "reset", !.fatal = TRUE]]
    <3>1. [Running EXCEPT !.pc = "reset", !.fatal = TRUE]
             = [pc |-> "reset", l |-> NULL, i |-> 0, fatal |-> TRUE]
      BY Began
    <3>2. Ends(t)
      BY <1>1, <2>3, <3>1 DEF Ends
    <3> QED BY <1>1, <2>1, <3>2, EndsStep
  <2> QED BY <1>1, <1>5, <2>2, <2>3, Zenon DEF InitContainer
<1> QED BY <1>4, <1>5, Zenon DEF InitContainer

LEMMA FreeKeeps ==
    ASSUME Cautious, IInv, NEW t \in Threads, Free(t)
    PROVE  IInv'
<1>1. /\ th[t].pc = "run" /\ Alone(t) /\ UNCHANGED <<build, state, dst, lc, mtx_lock, added, outcome>>
  BY DEF Free, Call, Cautious, MayEnd, quiet, cont, lists
<1> DEFINE p == IF lc.acl # NoArray THEN "sweep" ELSE "reset"
<1>2. [Running EXCEPT !.pc = p] = [pc |-> p, l |-> NULL, i |-> 0, fatal |-> FALSE]
  <2> HIDE DEF p
  <2> QED BY Began
<1>3. Ends(t)
  BY <1>1, <1>2, Zenon DEF Ends, Free
<1>4. SameArray
  BY <1>1 DEF SameArray, IInv, Typed
<1> QED BY <1>1, <1>3, <1>4, EndsStep

-----------------------------------------------------------------------------
(* Adding a list                                                             *)

LEMMA PushKeeps ==
    ASSUME Cautious, IInv, NEW t \in Threads, NEW l \in Lists, Push(t, l)
    PROVE  IInv'
<1>1. /\ th[t].pc = "run" /\ state[l] = "live" /\ l \notin added /\ ~Pushing(l)
      /\ \A u \in Threads : th[u].pc \notin Ending
      /\ UNCHANGED <<build, state, dst, lc, mtx_lock, added, outcome>>
  BY DEF Push, Call, Cautious, quiet, cont, lists, Ending
<1>2. SameArray
  BY <1>1 DEF SameArray, IInv, Typed
<1>3. CASE lc.acl = NoArray
  <2>1. UNCHANGED th \/ (MayEnd(t) /\ Fatal(t))
    BY <1>3, Zenon DEF Push
  <2>2. UNCHANGED th \/ Ends(t)
    BY <1>1, <2>1, FatalEnds
  <2> QED BY <1>1, <1>2, <2>2, EndsStep, Stutter
<1>4. CASE lc.acl # NoArray
  <2>1. th' = [th EXCEPT ![t] = [pc |-> "lock", l |-> l, i |-> 0, fatal |-> FALSE]]
    <3>1. [Running EXCEPT !.pc = "lock", !.l = l]
             = [pc |-> "lock", l |-> l, i |-> 0, fatal |-> FALSE]
      BY Began
    <3> QED BY <1>4, <3>1, Zenon DEF Push
  <2>2. /\ th'[t] = [pc |-> "lock", l |-> l, i |-> 0, fatal |-> FALSE]
        /\ \A u \in Threads : u # t => th'[u] = th[u]
    BY <2>1 DEF IInv, Typed
  <2>3. Typed'
    BY <1>1, <2>1 DEF IInv, Typed, Adding
  <2>4. Made' /\ Sized'
    BY <1>1 DEF IInv, Made, Sized
  <2>5. \A u \in Threads : Stored(u)' <=> Stored(u)
    BY <1>1, <2>2 DEF Stored
  <2>6. ASSUME NEW u \in Threads, u # t
        PROVE  Placed(u)'
    <3>1. th'[u] = th[u] /\ th[u].pc \notin Ending /\ Placed(u) /\ th[u].l # l
      BY <1>1, <2>2, <2>6 DEF IInv, Pushing
    <3>2. AddingOne(u) => AddingOne(u)'
      BY <1>1, <2>2, <2>5, <3>1 DEF AddingOne
    <3>3. Counting(u) => Counting(u)'
      BY <1>1, <3>1 DEF Counting
    <3> QED BY <1>1, <2>5, <3>1, <3>2, <3>3 DEF Placed, Ending
  <2>7. Placed(t)'
    <3>1. AddingOne(t)'
      BY <1>1, <1>4, <2>2, <2>5 DEF AddingOne, Pushing, Stored
    <3>2. mtx_lock # t
      BY <1>1 DEF IInv, Placed, Inside
    <3> QED BY <1>1, <2>2, <3>1, <3>2 DEF Placed, Stored, Adding, Inside, Ending
  <2>8. Swept'
    <3>1. Kept(0)'
      BY <1>1, <2>2, <2>5 DEF IInv, Swept, Kept, Stored
    <3>2. \A u \in Threads : th'[u].pc \notin Ending
      BY <1>1, <2>2 DEF Ending
    <3> QED BY <3>1, <3>2 DEF Swept, Ending
  <2> QED BY <2>3, <2>4, <2>6, <2>7, <2>8 DEF IInv
<1> QED BY <1>3, <1>4

(* With the mutex, or on the way to it: nobody ends the container meanwhile, *)
(* and only one thread is inside.                                            *)
LEMMA WhileAdding ==
    ASSUME IInv, NEW t \in Threads, th[t].pc \in Adding
    PROVE  /\ AddingOne(t) /\ Kept(0)
           /\ \A u \in Threads : th[u].pc \notin Ending
           /\ th[t].pc \in Inside => mtx_lock = t /\ \A u \in Threads \ {t} : th[u].pc \notin Inside
<1>1. AddingOne(t)
  BY DEF IInv, Placed
<1>2. \A u \in Threads : th[u].pc \notin Ending
  BY DEF IInv, Placed, Alone, Adding, Inside, Ending
<1>3. Kept(0)
  BY <1>2 DEF IInv, Swept
<1>4. th[t].pc \in Inside => mtx_lock = t /\ \A u \in Threads \ {t} : th[u].pc \notin Inside
  BY DEF IInv, Placed
<1> QED BY <1>1, <1>2, <1>3, <1>4

LEMMA GotoTyped ==
    ASSUME NEW S, NEW f \in [Threads -> [pc : S, l : Lists \cup {NULL}, i : Nat, fatal : BOOLEAN]],
           NEW t \in Threads, NEW p \in S
    PROVE  [f EXCEPT ![t].pc = p] \in
              [Threads -> [pc : S, l : Lists \cup {NULL}, i : Nat, fatal : BOOLEAN]]
OBVIOUS

LEMMA CountTyped ==
    ASSUME NEW S, NEW f \in [Threads -> [pc : S, l : Lists \cup {NULL}, i : Nat, fatal : BOOLEAN]],
           NEW t \in Threads, NEW i \in Nat
    PROVE  [f EXCEPT ![t].i = i] \in
              [Threads -> [pc : S, l : Lists \cup {NULL}, i : Nat, fatal : BOOLEAN]]
OBVIOUS

LEMMA LockKeeps ==
    ASSUME IInv, NEW t \in Threads, Lock(t)
    PROVE  IInv'
<1> DEFINE p == IF lc.lists_cnt >= lc.max_lists THEN "grow" ELSE "store"
<1>1. /\ th[t].pc = "lock" /\ mtx_lock = NULL /\ mtx_lock' = t
      /\ UNCHANGED <<build, state, dst, lc, added, outcome>>
      /\ th' = [th EXCEPT ![t].pc = p]
  BY DEF Lock, LockMutex, Goto, quiet, lists
<1>2. p \in {"grow", "store"} /\ (p = "store" => lc.lists_cnt < lc.max_lists)
  BY DEF IInv, Typed
<1> HIDE DEF p
<1>3. /\ th'[t].pc = p /\ th'[t].l = th[t].l /\ th'[t].i = th[t].i
      /\ \A u \in Threads : u # t => th'[u] = th[u]
      /\ \A u \in Threads : th'[u].l = th[u].l
  BY <1>1 DEF IInv, Typed
<1>4. /\ AddingOne(t) /\ Kept(0) /\ \A u \in Threads : th[u].pc \notin Ending
      /\ \A u \in Threads : th[u].pc \notin Inside
  BY <1>1, WhileAdding DEF Adding, IInv, Placed
<1>5. Typed' /\ Made' /\ Sized'
  <2>1. p \in {"run"} \cup Adding \cup Ending
    BY <1>2 DEF Adding, Inside
  <2> QED BY <1>1, <2>1, GotoTyped DEF IInv, Typed, Made, Sized
<1>6. \A u \in Threads : Stored(u)' <=> Stored(u)
  BY <1>1, <1>2, <1>3 DEF Stored
<1>7. ASSUME NEW u \in Threads, u # t
      PROVE  Placed(u)'
  <2>1. th'[u] = th[u] /\ Placed(u) /\ th[u].pc \notin Inside \cup Ending
    BY <1>3, <1>4, <1>7 DEF IInv
  <2>2. AddingOne(u) => AddingOne(u)'
    BY <1>1, <1>3, <1>6, <2>1 DEF AddingOne
  <2> QED BY <1>1, <1>7, <2>1, <2>2 DEF Placed, Stored, Inside, Ending
<1>8. Placed(t)'
  <2>1. AddingOne(t)'
    BY <1>1, <1>3, <1>4, <1>6 DEF AddingOne
  <2> QED BY <1>1, <1>2, <1>3, <2>1 DEF Placed, Stored, Adding, Inside, Ending
<1>9. Swept'
  <2>1. Kept(0)'
    BY <1>1, <1>3, <1>4, <1>6 DEF Kept
  <2>2. \A u \in Threads : th'[u].pc \notin Ending
    BY <1>2, <1>3, <1>4 DEF Ending
  <2> QED BY <2>1, <2>2 DEF Swept, Ending
<1> QED BY <1>5, <1>7, <1>8, <1>9 DEF IInv

(* The larger array, with what is counted where it was.                      *)
LEMMA Larger ==
    ASSUME NEW a \in Seq(Entries), NEW size \in Nat, NEW cnt \in Nat,
           cnt <= Len(a), cnt <= size, NEW b,
           b = [i \in 1 .. size |-> IF i \in DOMAIN a THEN a[i] ELSE UNSET]
    PROVE  b \in Seq(Entries) /\ Len(b) = size /\ \A i \in 1 .. cnt : b[i] = a[i]
<1>1. \A i \in DOMAIN a : a[i] \in Entries
  OBVIOUS
<1>2. UNSET \in Entries
  BY DEF Entries
<1>3. \A i \in 1 .. size : (IF i \in DOMAIN a THEN a[i] ELSE UNSET) \in Entries
  BY <1>1, <1>2
<1>4. b \in Seq(Entries) /\ Len(b) = size
  BY <1>3
<1> QED BY <1>4

LEMMA GrowKeeps ==
    ASSUME IInv, NEW t \in Threads, Grow(t)
    PROVE  IInv'
<1>1. /\ th[t].pc = "grow" /\ UNCHANGED <<build, state, dst, mtx_lock, added, outcome>>
  BY DEF Grow, quiet, lists
<1>2. /\ AddingOne(t) /\ Kept(0) /\ \A u \in Threads : th[u].pc \notin Ending
      /\ mtx_lock = t /\ \A u \in Threads \ {t} : th[u].pc \notin Inside
      /\ th[t].i = 0
  BY <1>1, WhileAdding DEF Adding, Inside, AddingOne, Stored
<1>3. /\ lc = [acl |-> lc.acl, max_lists |-> lc.max_lists, lists_cnt |-> lc.lists_cnt, mode |-> lc.mode]
      /\ lc.acl \in Seq(Entries) /\ lc.max_lists \in Nat /\ lc.lists_cnt \in Nat
      /\ lc.mode \in {"LC_NONE", "LC_FULL"}
      /\ lc.lists_cnt <= lc.max_lists /\ lc.lists_cnt <= Len(lc.acl) /\ lc.acl # NoArray
  BY <1>2 DEF IInv, Typed, Sized, AddingOne
<1> DEFINE size == lc.max_lists + LC_MSTL
           a    == [i \in 1 .. size |-> IF i \in DOMAIN lc.acl THEN lc.acl[i] ELSE UNSET]
           Moved(p) == /\ th' = [th EXCEPT ![t].pc = p]
                       /\ lc'.lists_cnt = lc.lists_cnt /\ lc'.acl # NoArray
                       /\ lc'.max_lists <= Len(lc'.acl) /\ lc.max_lists <= lc'.max_lists
                       /\ \A i \in 1 .. lc.lists_cnt : lc'.acl[i] = lc.acl[i]
                       /\ lc' \in [acl : Seq(Entries), max_lists : Nat, lists_cnt : Nat,
                                   mode : {"LC_NONE", "LC_FULL"}]
                       /\ p = "store" => lc.lists_cnt < lc'.max_lists
<1>4. \E p \in {"store", "unlock"} : Moved(p)
  <2>1. CASE lc' = [lc EXCEPT !.max_lists = size, !.acl = a] /\ Goto(t, "store")
    <3>1. size \in Nat /\ size > lc.max_lists
      BY <1>3
    <3>2. a \in Seq(Entries) /\ Len(a) = size /\ \A i \in 1 .. lc.lists_cnt : a[i] = lc.acl[i]
      <4> HIDE DEF size
      <4> QED BY <1>3, <3>1, Larger
    <3> HIDE DEF size, a
    <3>3. lc' = [acl |-> a, max_lists |-> size, lists_cnt |-> lc.lists_cnt, mode |-> lc.mode]
      BY <1>3, <2>1
    <3>4. a # NoArray
      BY <1>3, <3>1, <3>2 DEF NoArray
    <3>5. Moved("store")
      BY <1>3, <2>1, <3>1, <3>2, <3>3, <3>4 DEF Goto
    <3> QED BY <3>5
  <2>2. CASE UNCHANGED lc /\ Goto(t, "unlock")
    <3>1. Moved("unlock")
      BY <1>3, <2>2 DEF Goto, IInv, Typed, Sized
    <3> QED BY <3>1
  <2> QED BY <2>1, <2>2, Zenon DEF Grow
<1>5. PICK p \in {"store", "unlock"} : Moved(p)
  BY <1>4
<1>6. /\ th'[t].pc = p /\ th'[t].l = th[t].l /\ th'[t].i = 0
      /\ \A u \in Threads : u # t => th'[u] = th[u]
      /\ \A u \in Threads : th'[u].l = th[u].l
  BY <1>2, <1>5 DEF IInv, Typed
<1>7. Typed' /\ Made' /\ Sized'
  <2>1. th' \in [Threads -> [pc : {"run"} \cup Adding \cup Ending, l : Lists \cup {NULL},
                             i : Nat, fatal : BOOLEAN]]
    <3>1. p \in {"run"} \cup Adding \cup Ending
      BY DEF Adding, Inside
    <3> QED BY <1>5, <3>1, GotoTyped DEF IInv, Typed
  <2> QED BY <1>1, <1>3, <1>5, <2>1 DEF IInv, Typed, Made, Sized
<1>8. \A u \in Threads : ~Stored(u) /\ ~Stored(u)'
  BY <1>1, <1>2, <1>6 DEF Stored, Inside
<1>9. ASSUME NEW u \in Threads, u # t
      PROVE  Placed(u)'
  <2>1. th'[u] = th[u] /\ Placed(u) /\ th[u].pc \notin Inside \cup Ending
    BY <1>2, <1>6, <1>9 DEF IInv
  <2>2. AddingOne(u) => AddingOne(u)'
    BY <1>1, <1>5, <1>6, <1>8, <2>1 DEF AddingOne
  <2> QED BY <1>1, <1>8, <2>1, <2>2 DEF Placed, Inside, Ending
<1>10. Placed(t)'
  <2>1. AddingOne(t)'
    BY <1>1, <1>2, <1>5, <1>6, <1>8 DEF AddingOne
  <2> QED BY <1>1, <1>2, <1>5, <1>6, <1>8, <2>1 DEF Placed, Adding, Inside, Ending
<1>11. Swept'
  <2>1. Kept(0)'
    <3>1. lc'.lists_cnt = lc.lists_cnt /\ \A j \in 0 + 1 .. lc.lists_cnt : lc'.acl[j] = lc.acl[j]
      BY <1>3, <1>5
    <3> QED BY <1>1, <1>2, <1>8, <3>1 DEF Kept
  <2>2. \A u \in Threads : th'[u].pc \notin Ending
    BY <1>2, <1>6 DEF Ending
  <2> QED BY <2>1, <2>2 DEF Swept, Ending
<1> QED BY <1>7, <1>9, <1>10, <1>11 DEF IInv

(* The entry is written: the thread is about to count it.                    *)
LEMMA StoreKeeps ==
    ASSUME IInv, NEW t \in Threads, Store(t)
    PROVE  IInv'
<1>1. th[t].pc = "store" /\ build' = build
  BY DEF Store
<1>2. /\ AddingOne(t) /\ Kept(0) /\ \A u \in Threads : th[u].pc \notin Ending
      /\ mtx_lock = t /\ \A u \in Threads \ {t} : th[u].pc \notin Inside
      /\ th[t].l \in Lists /\ th[t].l \notin added
      /\ lc.lists_cnt < lc.max_lists
  BY <1>1, WhileAdding DEF Adding, Inside, AddingOne, Stored, IInv, Placed
<1> DEFINE j == lc.lists_cnt + 1
           l == th[t].l
<1>3. /\ lc = [acl |-> lc.acl, max_lists |-> lc.max_lists, lists_cnt |-> lc.lists_cnt, mode |-> lc.mode]
      /\ lc.acl \in Seq(Entries) /\ lc.max_lists \in Nat /\ lc.lists_cnt \in Nat
      /\ lc.mode \in {"LC_NONE", "LC_FULL"}
      /\ lc.max_lists <= Len(lc.acl) /\ lc.acl # NoArray
      /\ j \in 1 .. Len(lc.acl) /\ j <= lc.max_lists
  BY <1>2 DEF IInv, Typed, Sized, AddingOne
<1>4. /\ lc' = [lc EXCEPT !.acl[j] = l]
      /\ th' = [th EXCEPT ![t].pc = "unlock", ![t].i = j]
      /\ added' = added \cup {l}
      /\ UNCHANGED <<state, dst, mtx_lock, outcome>>
  <2>1. ~(j \notin DOMAIN lc.acl)
    BY <1>3
  <2>2. /\ lc' = [lc EXCEPT !.acl[j] = l]
        /\ th' = [th EXCEPT ![t].pc = "unlock", ![t].i = j]
        /\ added' = added \cup {l}
        /\ UNCHANGED <<lists, mtx_lock, outcome>>
    BY <2>1, Zenon DEF Store
  <2> QED BY <2>2 DEF lists
<1> DEFINE a == [lc.acl EXCEPT ![j] = l]
<1>5. /\ a \in Seq(Entries) /\ Len(a) = Len(lc.acl) /\ a[j] = l
      /\ \A i \in 1 .. lc.lists_cnt : a[i] = lc.acl[i]
  <2>1. l \in Entries
    BY <1>2 DEF Entries
  <2> HIDE DEF l
  <2> QED BY <1>3, <2>1, ExceptSeq
<1>6. /\ lc' = [acl |-> a, max_lists |-> lc.max_lists, lists_cnt |-> lc.lists_cnt, mode |-> lc.mode]
      /\ a # NoArray
  <2>1. lc' = [acl |-> a, max_lists |-> lc.max_lists, lists_cnt |-> lc.lists_cnt, mode |-> lc.mode]
    BY <1>3, <1>4
  <2>2. a # NoArray
    <3> HIDE DEF a
    <3> QED BY <1>3, <1>5 DEF NoArray
  <2> QED BY <2>1, <2>2
<1> HIDE DEF a
<1>7. /\ th'[t].pc = "unlock" /\ th'[t].l = l /\ th'[t].i = j
      /\ \A u \in Threads : u # t => th'[u] = th[u]
      /\ \A u \in Threads : th'[u].l = th[u].l
      /\ th' \in [Threads -> [pc : {"run"} \cup Adding \cup Ending, l : Lists \cup {NULL},
                              i : Nat, fatal : BOOLEAN]]
  <2> DEFINE go == [th EXCEPT ![t].pc = "unlock"]
  <2>1. "unlock" \in {"run"} \cup Adding \cup Ending
    BY DEF Adding, Inside
  <2>2. go \in [Threads -> [pc : {"run"} \cup Adding \cup Ending, l : Lists \cup {NULL},
                            i : Nat, fatal : BOOLEAN]]
    BY <2>1, GotoTyped DEF IInv, Typed
  <2>3. /\ go[t].pc = "unlock" /\ go[t].l = l
        /\ \A u \in Threads : u # t => go[u] = th[u]
        /\ \A u \in Threads : go[u].l = th[u].l
    BY DEF IInv, Typed
  <2>4. th' = [go EXCEPT ![t].i = j] /\ j \in Nat
    BY <1>3, <1>4
  <2> HIDE DEF go, j, l
  <2> QED BY <2>2, <2>3, <2>4
<1> HIDE DEF l
<1>8. /\ IsFiniteSet(added) /\ Cardinality(added) \in Nat
      /\ Cardinality(added') = Cardinality(added) + 1
      /\ l \in Lists /\ l \notin added /\ added \subseteq Lists
  <2>1. IsFiniteSet(added) /\ added \subseteq Lists
    BY FS_Subset DEF IInv, Typed
  <2>2. l \notin added /\ l \in Lists
    BY <1>2 DEF l
  <2> QED BY <1>4, <2>1, <2>2, FS_CardinalityType, FS_AddElement
<1>9. Typed'
  <2>1. lc' \in [acl : Seq(Entries), max_lists : Nat, lists_cnt : Nat,
                 mode : {"LC_NONE", "LC_FULL"}]
    BY <1>3, <1>5, <1>6
  <2>2. added' \subseteq Lists
    BY <1>4, <1>8
  <2> QED BY <1>1, <1>4, <1>7, <2>1, <2>2 DEF IInv, Typed
<1>10. state[l] = "live" /\ \A u \in Threads \ {t} : th[u].l # l
  BY <1>2 DEF AddingOne, l
<1>11. Made'
  BY <1>4, <1>10 DEF IInv, Made
<1>12. Sized'
  BY <1>3, <1>5, <1>6, <1>8 DEF IInv, Sized
<1>13. \A u \in Threads : u # t => ~Stored(u) /\ ~Stored(u)'
  BY <1>2, <1>7 DEF Stored, Inside
<1>14. Stored(t)' /\ ~Stored(t)
  BY <1>1, <1>3, <1>7 DEF Stored
<1>15. ASSUME NEW u \in Threads, u # t
       PROVE  Placed(u)'
  <2>1. /\ th'[u] = th[u] /\ Placed(u) /\ th[u].pc \notin Inside \cup Ending
        /\ ~Stored(u) /\ ~Stored(u)' /\ th[u].l # l
    BY <1>2, <1>7, <1>10, <1>13, <1>15 DEF IInv
  <2>2. AddingOne(u) => AddingOne(u)'
    BY <1>4, <1>6, <1>7, <2>1 DEF AddingOne
  <2> QED BY <1>4, <2>1, <2>2 DEF Placed, Inside, Ending
<1>16. Placed(t)'
  <2>1. AddingOne(t)'
    BY <1>4, <1>6, <1>7, <1>8, <1>10, <1>14 DEF AddingOne
  <2>2. Counting(t)'
    <3>1. \A i \in 1 .. lc.lists_cnt : a[i] # l
      BY <1>2, <1>5, <1>8 DEF Kept
    <3>2. j <= Cardinality(added')
      BY <1>3, <1>8 DEF IInv, Sized
    <3> QED BY <1>3, <1>4, <1>5, <1>6, <1>7, <3>1, <3>2 DEF Counting
  <2> QED BY <1>2, <1>4, <1>7, <2>1, <2>2 DEF Placed, Adding, Inside, Ending
<1>17. Swept'
  <2>1. Kept(0)'
    <3>1. lc'.lists_cnt = lc.lists_cnt /\ \A i \in 0 + 1 .. lc.lists_cnt : lc'.acl[i] = lc.acl[i]
      BY <1>3, <1>5, <1>6
    <3>2. ASSUME NEW m \in added', state'[m] = "live"
          PROVE  \/ \E i \in 0 + 1 .. lc.lists_cnt : lc.acl[i] = m
                 \/ m = l
      BY <1>2, <1>4, <1>13, <1>14, <3>2 DEF Kept
    <3>3. \A i \in 0 + 1 .. lc.lists_cnt : lc'.acl[i] \in added' /\ state'[lc'.acl[i]] = "live"
      BY <1>2, <1>4, <3>1 DEF Kept
    <3>4. \A i, k \in 0 + 1 .. lc.lists_cnt : lc'.acl[i] = lc'.acl[k] => i = k
      BY <1>2, <3>1 DEF Kept
    <3>5. \A m \in added' : state'[m] = "live" =>
              \/ \E i \in 0 + 1 .. lc.lists_cnt : lc'.acl[i] = m
              \/ \E u \in Threads : Stored(u)' /\ th'[u].l = m
      BY <1>7, <1>14, <3>1, <3>2
    <3> QED BY <3>1, <3>3, <3>4, <3>5 DEF Kept
  <2>2. \A u \in Threads : th'[u].pc \notin Ending
    BY <1>2, <1>7 DEF Ending
  <2> QED BY <2>1, <2>2 DEF Swept, Ending
<1> QED BY <1>9, <1>11, <1>12, <1>15, <1>16, <1>17 DEF IInv

LEMMA UnlockKeeps ==
    ASSUME IInv, NEW t \in Threads, Unlock(t)
    PROVE  IInv'
<1>1. /\ th[t].pc = "unlock" /\ mtx_lock' = NULL /\ th' = [th EXCEPT ![t] = Running]
      /\ UNCHANGED <<build, state, dst, added, outcome>>
  BY DEF Unlock, quiet, lists
<1>2. /\ AddingOne(t) /\ Kept(0) /\ \A u \in Threads : th[u].pc \notin Ending
      /\ mtx_lock = t /\ \A u \in Threads \ {t} : th[u].pc \notin Inside
  BY <1>1, WhileAdding DEF Adding, Inside
<1>3. /\ lc = [acl |-> lc.acl, max_lists |-> lc.max_lists, lists_cnt |-> lc.lists_cnt, mode |-> lc.mode]
      /\ lc.acl \in Seq(Entries) /\ lc.max_lists \in Nat /\ lc.lists_cnt \in Nat
      /\ lc.mode \in {"LC_NONE", "LC_FULL"} /\ lc.acl # NoArray
      /\ lc.max_lists <= Len(lc.acl) /\ lc.lists_cnt <= lc.max_lists
      /\ lc.lists_cnt <= Cardinality(added) /\ th[t].i \in Nat
  BY <1>2 DEF IInv, Typed, Sized, AddingOne
<1>4. /\ th'[t].pc = "run" /\ th'[t].l = NULL /\ th'[t].i = 0
      /\ \A u \in Threads : u # t => th'[u] = th[u]
      /\ th' \in [Threads -> [pc : {"run"} \cup Adding \cup Ending, l : Lists \cup {NULL},
                              i : Nat, fatal : BOOLEAN]]
  BY <1>1 DEF IInv, Typed, Running
(* What the counter becomes.                                                 *)
<1> DEFINE cnt == IF th[t].i > 0 THEN th[t].i ELSE lc.lists_cnt
<1>5. /\ lc' = [acl |-> lc.acl, max_lists |-> lc.max_lists, lists_cnt |-> cnt, mode |-> lc.mode]
      /\ cnt \in Nat /\ cnt <= lc.max_lists /\ cnt <= Cardinality(added)
  <2>1. CASE th[t].i > 0
    <3>1. lc' = [lc EXCEPT !.lists_cnt = th[t].i]
      BY <2>1, Zenon DEF Unlock
    <3>2. th[t].i <= lc.max_lists /\ th[t].i <= Cardinality(added)
      BY <1>1, <2>1 DEF IInv, Placed, Stored, Counting
    <3> QED BY <1>3, <2>1, <3>1, <3>2
  <2>2. CASE ~(th[t].i > 0)
    <3>1. lc' = lc
      BY <2>2, Zenon DEF Unlock
    <3> QED BY <1>3, <2>2, <3>1
  <2> QED BY <2>1, <2>2
<1>6. \A u \in Threads : ~Stored(u)' /\ (u # t => ~Stored(u))
  BY <1>2, <1>4 DEF Stored, Inside
<1>7. Kept(0)'
  <2>1. CASE Stored(t)
    <3>1. /\ cnt = lc.lists_cnt + 1 /\ lc.acl[cnt] = th[t].l /\ th[t].l \in added
          /\ state[th[t].l] = "live"
          /\ \A j \in 1 .. lc.lists_cnt : lc.acl[j] # th[t].l
      BY <1>2, <2>1 DEF IInv, Placed, Stored, Counting, AddingOne
    <3>2. \A j \in 0 + 1 .. cnt : j \in 0 + 1 .. lc.lists_cnt \/ j = cnt
      BY <1>3, <3>1
    <3> HIDE DEF cnt
    <3>3. \A j \in 0 + 1 .. cnt : lc.acl[j] \in added /\ state[lc.acl[j]] = "live"
      BY <1>2, <3>1, <3>2 DEF Kept
    <3>4. \A j, k \in 0 + 1 .. cnt : lc.acl[j] = lc.acl[k] => j = k
      BY <1>2, <3>1, <3>2 DEF Kept
    <3>5. ASSUME NEW m \in added, state[m] = "live"
          PROVE  \E j \in 0 + 1 .. cnt : lc.acl[j] = m
      <4>1. (\E j \in 0 + 1 .. lc.lists_cnt : lc.acl[j] = m) \/ m = th[t].l
        BY <1>2, <1>6, <3>5 DEF Kept
      <4>2. cnt \in 0 + 1 .. cnt /\ \A j \in 0 + 1 .. lc.lists_cnt : j \in 0 + 1 .. cnt
        BY <1>3, <3>1
      <4> QED BY <3>1, <4>1, <4>2
    <3> QED BY <1>1, <1>5, <3>3, <3>4, <3>5 DEF Kept
  <2>2. CASE ~Stored(t)
    <3>1. cnt = lc.lists_cnt
      BY <1>1, <2>2 DEF Stored
    <3>2. \A u \in Threads : ~Stored(u)
      BY <1>6, <2>2
    <3> HIDE DEF cnt
    <3> QED BY <1>1, <1>2, <1>5, <3>1, <3>2 DEF Kept
  <2> QED BY <2>1, <2>2
<1> HIDE DEF cnt
<1>8. Typed' /\ Made' /\ Sized'
  BY <1>1, <1>3, <1>4, <1>5 DEF IInv, Typed, Made, Sized
<1>9. ASSUME NEW u \in Threads
      PROVE  Placed(u)'
  <2>1. CASE u = t
    BY <1>1, <1>4, <1>6, <2>1 DEF Placed, Adding, Inside, Ending
  <2>2. CASE u # t
    <3>1. /\ th'[u] = th[u] /\ Placed(u) /\ th[u].pc \notin Inside \cup Ending
          /\ ~Stored(u) /\ ~Stored(u)'
      BY <1>2, <1>4, <1>6, <2>2 DEF IInv
    <3>2. AddingOne(u) => AddingOne(u)'
      <4>1. ASSUME AddingOne(u), NEW v \in Threads, v # u
            PROVE  th'[v].l # th'[u].l
        BY <1>4, <2>2, <4>1, <3>1 DEF AddingOne
      <4> QED BY <1>1, <1>3, <1>5, <3>1, <4>1 DEF AddingOne
    <3> QED BY <1>1, <3>1, <3>2 DEF Placed, Inside, Ending
  <2> QED BY <2>1, <2>2
<1>10. \A u \in Threads : th'[u].pc \notin Ending
  BY <1>2, <1>4 DEF Ending
<1>11. Swept'
  BY <1>7, <1>10 DEF Swept, Ending
<1> QED BY <1>8, <1>9, <1>11 DEF IInv

-----------------------------------------------------------------------------
(* Ending the container                                                      *)

(* The thread that ends it is alone.                                         *)
LEMMA WhileEnding ==
    ASSUME IInv, NEW t \in Threads, th[t].pc \in Ending
    PROVE  /\ \A u \in Threads \ {t} : th[u].pc = "run"
           /\ \A u \in Threads : th[u].l = NULL /\ mtx_lock # u /\ ~Stored(u)
<1>1. \A u \in Threads \ {t} : th[u].pc = "run"
  BY DEF IInv, Placed, Alone
<1> QED BY <1>1 DEF IInv, Placed, Stored, Adding, Inside, Ending

LEMMA SweepKeeps ==
    ASSUME IInv, NEW t \in Threads, Sweep(t)
    PROVE  IInv'
<1>1. th[t].pc = "sweep" /\ th[t].i < lc.lists_cnt /\ build' = build
  BY DEF Sweep, SweepOn
<1>2. /\ \A u \in Threads \ {t} : th[u].pc = "run"
      /\ \A u \in Threads : th[u].l = NULL /\ mtx_lock # u /\ ~Stored(u)
      /\ Kept(th[t].i) /\ th[t].i \in Nat
  BY <1>1, WhileEnding DEF Ending, IInv, Swept, Typed
<1> DEFINE i == th[t].i
           j == i + 1
           l == lc.acl[j]
<1>3. /\ lc = [acl |-> lc.acl, max_lists |-> lc.max_lists, lists_cnt |-> lc.lists_cnt, mode |-> lc.mode]
      /\ lc.acl \in Seq(Entries) /\ lc.max_lists \in Nat /\ lc.lists_cnt \in Nat
      /\ lc.mode \in {"LC_NONE", "LC_FULL"}
      /\ lc.max_lists <= Len(lc.acl) /\ lc.acl # NoArray
      /\ j \in 1 .. Len(lc.acl) /\ j <= lc.lists_cnt /\ j \in Nat
  BY <1>1, <1>2 DEF IInv, Typed, Sized, Placed
<1>4. j \in i + 1 .. lc.lists_cnt
  BY <1>2, <1>3
<1>5. l \in added /\ state[l] = "live" /\ l \in Lists /\ dst[l]
  BY <1>2, <1>4 DEF Kept, IInv, Typed, Made
<1>6. /\ Destroyed(l)
      /\ lc' = [lc EXCEPT !.acl[j] = NULL]
      /\ th' = [th EXCEPT ![t].i = j]
      /\ UNCHANGED <<mtx_lock, added, outcome>>
  <2>1. ~(l = UNSET \/ l = NULL \/ (l \in Lists /\ state[l] = "gone"))
    BY <1>5
  <2> QED BY <1>5, <2>1, Zenon DEF Sweep
<1> DEFINE a == [lc.acl EXCEPT ![j] = NULL]
<1>7. /\ a \in Seq(Entries) /\ Len(a) = Len(lc.acl)
      /\ \A k \in 1 .. Len(lc.acl) : k # j => a[k] = lc.acl[k]
  <2>1. NULL \in Entries
    BY DEF Entries
  <2> HIDE DEF l, j
  <2> QED BY <1>3, <2>1, ExceptSeq
<1>8. /\ lc' = [acl |-> a, max_lists |-> lc.max_lists, lists_cnt |-> lc.lists_cnt, mode |-> lc.mode]
      /\ a # NoArray
  <2>1. lc' = [acl |-> a, max_lists |-> lc.max_lists, lists_cnt |-> lc.lists_cnt, mode |-> lc.mode]
    BY <1>3, <1>6
  <2>2. a # NoArray
    <3> HIDE DEF a
    <3> QED BY <1>3, <1>7 DEF NoArray
  <2> QED BY <2>1, <2>2
<1> HIDE DEF a
<1>9. /\ state' \in [Lists -> {"none", "live", "gone"}] /\ dst' = dst
      /\ state'[l] = "gone" /\ \A m \in Lists : m # l => state'[m] = state[m]
  BY <1>5, <1>6 DEF Destroyed, IInv, Typed
<1>10. /\ th'[t].pc = "sweep" /\ th'[t].l = NULL /\ th'[t].i = j
       /\ \A u \in Threads : u # t => th'[u] = th[u]
       /\ th' \in [Threads -> [pc : {"run"} \cup Adding \cup Ending, l : Lists \cup {NULL},
                               i : Nat, fatal : BOOLEAN]]
  <2> HIDE DEF j
  <2>1. /\ th'[t].pc = "sweep" /\ th'[t].l = NULL /\ th'[t].i = j
        /\ \A u \in Threads : u # t => th'[u] = th[u]
    BY <1>1, <1>2, <1>6 DEF IInv, Typed
  <2>2. th' \in [Threads -> [pc : {"run"} \cup Adding \cup Ending, l : Lists \cup {NULL},
                            i : Nat, fatal : BOOLEAN]]
    BY <1>3, <1>6, CountTyped DEF IInv, Typed
  <2> QED BY <2>1, <2>2
<1> HIDE DEF l
<1>11. Typed' /\ Made' /\ Sized'
  <2>1. Typed'
    <3>1. lc' \in [acl : Seq(Entries), max_lists : Nat, lists_cnt : Nat,
                   mode : {"LC_NONE", "LC_FULL"}]
      BY <1>3, <1>7, <1>8
    <3> QED BY <1>1, <1>6, <1>9, <1>10, <3>1 DEF IInv, Typed
  <2>2. Made'
    BY <1>6, <1>9 DEF IInv, Made, Typed
  <2>3. Sized'
    <3>1. lc.lists_cnt <= lc.max_lists /\ lc.lists_cnt <= Cardinality(added)
      BY DEF IInv, Sized
    <3> HIDE DEF j, i
    <3> QED BY <1>3, <1>6, <1>7, <1>8, <3>1 DEF Sized
  <2> QED BY <2>1, <2>2, <2>3
<1>12. \A u \in Threads : /\ th'[u].l = NULL /\ mtx_lock' # u /\ ~Stored(u)'
                          /\ (u # t => th'[u].pc = "run")
  BY <1>2, <1>6, <1>10 DEF Stored
<1>13. ASSUME NEW u \in Threads
       PROVE  Placed(u)'
  <2>1. th'[u].pc = "sweep" => u = t
    BY <1>12
  <2>2. Alone(t)'
    BY <1>12 DEF Alone
  <2>3. th'[u].pc \in {"run", "sweep"}
    BY <1>10, <1>12
  <2> QED BY <1>3, <1>8, <1>10, <1>12, <2>1, <2>2, <2>3 DEF Placed, Adding, Inside, Ending
<1>14. \A d : d = j => Kept(d)'
  <2>1. \A k \in j + 1 .. lc.lists_cnt :
           k \in i + 1 .. lc.lists_cnt /\ lc'.acl[k] = lc.acl[k] /\ lc.acl[k] # l
    <3>1. ASSUME NEW k \in j + 1 .. lc.lists_cnt
          PROVE  k \in i + 1 .. lc.lists_cnt /\ k # j /\ k \in 1 .. Len(lc.acl)
      BY <1>2, <1>3, <3>1, SMTT(30) DEF IInv, Sized
    <3>2. \A k \in i + 1 .. lc.lists_cnt : lc.acl[k] = l => k = j
      BY <1>2, <1>4 DEF Kept, l
    <3> HIDE DEF j, i
    <3> QED BY <1>7, <1>8, <3>1, <3>2
  <2>2. \A m \in added : state'[m] = "live" => state[m] = "live" /\ m # l
    BY <1>9 DEF IInv, Typed
  <2>3. ASSUME NEW m \in added, state'[m] = "live"
        PROVE  \E k \in j + 1 .. lc.lists_cnt : lc'.acl[k] = m
    <3>1. PICK k \in i + 1 .. lc.lists_cnt : lc.acl[k] = m
      BY <1>2, <2>2, <2>3 DEF Kept
    <3>2. k # j
      BY <2>2, <2>3, <3>1 DEF l
    <3>3. k \in j + 1 .. lc.lists_cnt
      BY <1>2, <1>3, <3>1, <3>2
    <3> QED BY <2>1, <3>1, <3>3
  <2>4. \A k \in j + 1 .. lc.lists_cnt : lc'.acl[k] \in added /\ state'[lc'.acl[k]] = "live"
    BY <1>2, <1>9, <2>1 DEF Kept, IInv, Typed
  <2>5. \A k, n \in j + 1 .. lc.lists_cnt : lc'.acl[k] = lc'.acl[n] => k = n
    BY <1>2, <2>1 DEF Kept
  <2>6. lc'.lists_cnt = lc.lists_cnt /\ added' = added
    BY <1>6, <1>8
  <2> HIDE DEF j, i
  <2> QED BY <2>3, <2>4, <2>5, <2>6 DEF Kept
<1>15. Swept'
  <2>1. th'[t].i = j /\ th'[t].pc = "sweep" /\ \A u \in Threads : th'[u].pc \in Ending => u = t
    BY <1>10, <1>12 DEF Ending
  <2>2. \A u \in Threads : th'[u].pc = "sweep" => Kept(th[u].i)'
    <3>1. ASSUME NEW u \in Threads, th'[u].pc = "sweep"
          PROVE  Kept(th[u].i)'
      <4>1. th'[u].i = j
        BY <2>1, <3>1 DEF Ending
      <4>2. PICK d : d = j
        OBVIOUS
      <4>3. Kept(d)' /\ th'[u].i = d
        BY <1>14, <4>1, <4>2
      <4> QED BY <4>3 DEF Kept
    <3> QED BY <3>1
  <2> QED BY <2>1, <2>2 DEF Swept, Ending
<1> QED BY <1>11, <1>13, <1>15 DEF IInv

LEMMA FreeArrayKeeps ==
    ASSUME IInv, NEW t \in Threads, FreeArray(t)
    PROVE  IInv'
<1>1. /\ th[t].pc = "sweep" /\ ~(th[t].i < lc.lists_cnt) /\ th' = [th EXCEPT ![t].pc = "reset"]
      /\ UNCHANGED <<build, state, dst, lc, mtx_lock, added, outcome>>
  BY DEF FreeArray, SweepOn, Goto, cont
<1>2. /\ \A u \in Threads \ {t} : th[u].pc = "run"
      /\ \A u \in Threads : th[u].l = NULL /\ mtx_lock # u /\ ~Stored(u)
      /\ Kept(th[t].i) /\ th[t].i = lc.lists_cnt /\ lc.lists_cnt \in Nat
  BY <1>1, WhileEnding DEF Ending, IInv, Swept, Typed, Placed
<1>3. /\ th'[t].pc = "reset" /\ th'[t].l = NULL
      /\ \A u \in Threads : u # t => th'[u] = th[u]
  BY <1>1, <1>2 DEF IInv, Typed
<1>4. Typed' /\ Made' /\ Sized'
  <2>1. "reset" \in {"run"} \cup Adding \cup Ending
    BY DEF Ending
  <2> QED BY <1>1, <2>1, GotoTyped DEF IInv, Typed, Made, Sized
<1>5. \A u \in Threads : /\ th'[u].l = NULL /\ mtx_lock' # u /\ ~Stored(u)'
                         /\ (u # t => th'[u].pc = "run")
  BY <1>1, <1>2, <1>3 DEF Stored
<1>6. ASSUME NEW u \in Threads
      PROVE  Placed(u)'
  <2>1. Alone(t)'
    BY <1>5 DEF Alone
  <2>2. th'[u].pc \in {"run", "reset"} /\ (th'[u].pc = "reset" => u = t)
    BY <1>3, <1>5
  <2> QED BY <1>5, <2>1, <2>2 DEF Placed, Adding, Inside, Ending
<1>7. \A l \in added : state[l] # "live"
  BY <1>2 DEF Kept
<1>8. Swept'
  BY <1>1, <1>3, <1>5, <1>7 DEF Swept, Ending
<1> QED BY <1>4, <1>6, <1>8 DEF IInv

LEMMA ResetKeeps ==
    ASSUME IInv, NEW t \in Threads, Reset(t)
    PROVE  IInv'
<1>1. /\ th[t].pc = "reset" /\ lc' = NoContainer /\ th' = [th EXCEPT ![t] = Running]
      /\ outcome' \in {"running", "exited"}
      /\ UNCHANGED <<build, state, dst, mtx_lock, added>>
  BY DEF Reset, Empty, lists, IInv, Typed
<1>2. /\ \A u \in Threads \ {t} : th[u].pc = "run"
      /\ \A u \in Threads : th[u].l = NULL /\ mtx_lock # u /\ ~Stored(u)
      /\ \A l \in added : state[l] # "live"
  BY <1>1, WhileEnding DEF Ending, IInv, Swept
<1>3. /\ lc' \in [acl : Seq(Entries), max_lists : Nat, lists_cnt : Nat, mode : {"LC_NONE", "LC_FULL"}]
      /\ lc'.acl = NoArray /\ lc'.lists_cnt = 0 /\ lc'.max_lists \in Nat
  BY <1>1 DEF NoContainer, NoArray
<1>4. \A u \in Threads : th'[u].pc = "run" /\ th'[u].l = NULL
  BY <1>1, <1>2 DEF IInv, Typed, Running
<1>5. Typed'
  BY <1>1, <1>3 DEF IInv, Typed, Running
<1>6. Made' /\ Sized'
  <2>1. Cardinality(added) \in Nat
    BY FS_Subset, FS_CardinalityType DEF IInv, Typed
  <2> QED BY <1>1, <1>3, <2>1 DEF IInv, Made, Sized
<1>7. \A u \in Threads : Placed(u)'
  BY <1>1, <1>2, <1>4 DEF Placed, Stored, Adding, Inside, Ending
<1>8. Kept(0)'
  BY <1>1, <1>2, <1>3 DEF Kept
<1>9. Swept'
  BY <1>4, <1>8 DEF Swept, Ending
<1> QED BY <1>5, <1>6, <1>7, <1>9 DEF IInv

-----------------------------------------------------------------------------
LEMMA InitInv ==
    ASSUME Init
    PROVE  IInv
<1>1. /\ \A u \in Threads : th[u].pc = "run" /\ th[u].l = NULL /\ mtx_lock # u
      /\ th = [u \in Threads |-> Running]
  BY DEF Init, Running
<1>2. Typed
  BY DEF Init, Typed, NoContainer, NoArray, Running
<1>3. Made /\ Sized
  <2>1. Cardinality({}) = 0
    BY FS_EmptySet
  <2> QED BY <2>1 DEF Init, Made, Sized, NoContainer
<1>4. \A u \in Threads : Placed(u)
  BY <1>1 DEF Placed, Stored, Adding, Inside, Ending
<1>5. Kept(0)
  BY DEF Init, Kept, NoContainer
<1>6. Swept
  BY <1>1, <1>5 DEF Swept, Ending
<1> QED BY <1>2, <1>3, <1>4, <1>6 DEF IInv

LEMMA StepInv ==
    ASSUME Cautious, IInv, [Next]_vars
    PROVE  IInv'
<1>1. CASE UNCHANGED vars
  <2>1. SameArray /\ UNCHANGED <<build, state, dst, mtx_lock, added, th, outcome>>
    BY <1>1 DEF vars, lists, cont, SameArray, IInv, Typed
  <2> QED BY <2>1, Stutter
<1>2. ASSUME NEW t \in Users, OnLists(t)
      PROVE  IInv'
  BY <1>2, ListsKeep
<1>3. ASSUME NEW t \in Threads, OnContainer(t)
      PROVE  IInv'
  BY <1>3, InitContainerKeeps, FreeKeeps, PushKeeps, LockKeeps, GrowKeeps, StoreKeeps,
     UnlockKeeps, SweepKeeps, FreeArrayKeeps, ResetKeeps DEF OnContainer
<1> QED BY <1>1, <1>2, <1>3 DEF Next

(* What is in the array, and who is where, whatever the threads do.          *)
THEOREM Invariance == Cautious => (Spec => []IInv)
<1> SUFFICES ASSUME Cautious
             PROVE  Spec => []IInv
  OBVIOUS
<1>1. Init => IInv
  BY InitInv
<1>2. IInv /\ [Next]_vars => IInv'
  BY StepInv
<1> QED BY <1>1, <1>2, PTL DEF Spec

(* No list is destroyed twice, no entry read that was never written, no      *)
(* entry written outside the array, and a fatal error ends the program:      *)
(* destroyAoCL and _containerPushAcl, for a program that keeps to Contract.  *)
THEOREM Sound == Cautious => (Spec => []NoFault)
<1> SUFFICES ASSUME Cautious
             PROVE  Spec => []NoFault
  OBVIOUS
<1>1. Spec => []IInv
  BY Invariance
<1>2. IInv => NoFault
  BY DEF IInv, Typed, NoFault
<1> QED BY <1>1, <1>2, PTL

(* A list that was put into the container is in it until it is destroyed,    *)
(* whatever threads add at the same time and however often it grows.         *)
THEOREM Keeping == Cautious => (Spec => []ContainerKeepsAll)
<1> SUFFICES ASSUME Cautious
             PROVE  Spec => []ContainerKeepsAll
  OBVIOUS
<1>1. Spec => []IInv
  BY Invariance
<1>2. ASSUME IInv
      PROVE  ContainerKeepsAll
  <2>1. SUFFICES ASSUME NEW l \in added, state[l] = "live"
                 PROVE  \E i \in DOMAIN lc.acl : lc.acl[i] = l
    BY DEF ContainerKeepsAll
  <2>2. ASSUME NEW i \in Nat, i \in 1 .. lc.max_lists, lc.acl # NoArray
        PROVE  i \in DOMAIN lc.acl
    BY <1>2, <2>2 DEF IInv, Typed, Sized
  <2>3. ASSUME NEW t \in Threads, Stored(t), th[t].l = l
        PROVE  \E i \in DOMAIN lc.acl : lc.acl[i] = l
    <3>1. /\ th[t].i \in 1 .. lc.max_lists /\ th[t].i \in Nat /\ lc.acl[th[t].i] = l
          /\ lc.acl # NoArray
      BY <1>2, <2>3 DEF IInv, Typed, Placed, Counting, AddingOne, Stored, Adding, Inside
    <3> QED BY <2>2, <3>1
  <2>4. ASSUME NEW d \in Nat, Kept(d)
        PROVE  \E i \in DOMAIN lc.acl : lc.acl[i] = l
    <3>1. CASE \E i \in d + 1 .. lc.lists_cnt : lc.acl[i] = l
      <4>1. PICK i \in d + 1 .. lc.lists_cnt : lc.acl[i] = l
        BY <3>1
      <4>2. i \in 1 .. lc.max_lists /\ i \in Nat /\ lc.acl # NoArray
        BY <1>2 DEF IInv, Typed, Sized
      <4> QED BY <2>2, <4>1, <4>2
    <3> QED BY <2>1, <2>3, <2>4, <3>1 DEF Kept
  <2>5. CASE \A t \in Threads : th[t].pc \notin Ending
    BY <1>2, <2>4, <2>5 DEF IInv, Swept
  <2>6. ASSUME NEW t \in Threads, th[t].pc \in Ending
        PROVE  \E i \in DOMAIN lc.acl : lc.acl[i] = l
    BY <1>2, <2>1, <2>4, <2>6 DEF IInv, Swept, Ending, Typed
  <2> QED BY <2>5, <2>6
<1> QED BY <1>1, <1>2, PTL

-----------------------------------------------------------------------------
(* What the calls do with the keys of a list                                 *)

LEMMA Least ==
    ASSUME NEW S \in SUBSET Nat, S # {}
    PROVE  Min(S) \in S /\ \A k \in S : Min(S) <= k
BY LeastNumber DEF Min

LEMMA Inserted ==
    ASSUME NEW s \in Seq(Keys), NEW i \in 1 .. Len(s) + 1, NEW e \in Keys
    PROVE  InsertAt(s, i, e) \in Seq(Keys) /\ Len(InsertAt(s, i, e)) = Len(s) + 1
<1> DEFINE before == SubSeq(s, 1, i - 1)
           one    == <<e>>
           behind == SubSeq(s, i, Len(s))
<1>1. InsertAt(s, i, e) = before \o one \o behind
  BY DEF InsertAt
<1>2. /\ before \in Seq(Keys) /\ Len(before) = i - 1
      /\ behind \in Seq(Keys) /\ Len(behind) = Len(s) + 1 - i
  BY SubSeqProperties
<1>3. one \in Seq(Keys) /\ Len(one) = 1
  OBVIOUS
<1> HIDE DEF before, one, behind
<1>4. before \o one \in Seq(Keys) /\ Len(before \o one) = Len(before) + Len(one)
  BY <1>2, <1>3, ConcatProperties
<1>5. /\ (before \o one) \o behind \in Seq(Keys)
      /\ Len((before \o one) \o behind) = Len(before \o one) + Len(behind)
  BY <1>2, <1>4, ConcatProperties
<1>6. (i - 1) + 1 + (Len(s) + 1 - i) = Len(s) + 1
  OBVIOUS
<1> QED BY <1>1, <1>2, <1>3, <1>4, <1>5, <1>6

(* A node more.                                                              *)
LEMMA IntoGrows ==
    ASSUME NEW s \in Seq(Keys), NEW k \in Keys
    PROVE  Into(s, k) \in Seq(Keys) /\ Len(Into(s, k)) = Len(s) + 1
<1> DEFINE p == Cardinality({j \in DOMAIN s : s[j] < k})
<1>1. p \in 0 .. Len(s)
  <2>1. DOMAIN s = 1 .. Len(s) /\ Len(s) \in Nat
    OBVIOUS
  <2>2. IsFiniteSet(1 .. Len(s)) /\ Cardinality(1 .. Len(s)) = Len(s)
    <3> DEFINE n == Len(s)
    <3>1. n \in Nat
      BY <2>1
    <3> HIDE DEF n
    <3>2. IsFiniteSet(1 .. n) /\ Cardinality(1 .. n) = n
      BY <3>1, FS_Interval
    <3> QED BY <3>2 DEF n
  <2>3. {j \in DOMAIN s : s[j] < k} \in SUBSET (1 .. Len(s))
    BY <2>1
  <2> QED BY <2>1, <2>2, <2>3, FS_Subset, FS_CardinalityType
<1>2. Into(s, k) = InsertAt(s, p + 1, k)
  BY DEF Into
<1> HIDE DEF p
<1>3. p + 1 \in 1 .. Len(s) + 1
  BY <1>1
<1> QED BY <1>2, <1>3, Inserted

(* A node less.                                                              *)
LEMMA RemoveShrinks ==
    ASSUME NEW s \in Seq(Keys), NEW k, Contains(s, k)
    PROVE  RemoveFirst(s, k) \in Seq(Keys) /\ Len(RemoveFirst(s, k)) = Len(s) - 1
<1> DEFINE I == {i \in 1 .. Len(s) : s[i] = k}
           p == Min(I)
<1>1. p \in 1 .. Len(s)
  <2>1. I \in SUBSET Nat /\ I # {}
    BY DEF Contains
  <2>2. p \in I
    <3> HIDE DEF I
    <3> QED BY <2>1, Least
  <2> QED BY <2>2
<1>2. RemoveFirst(s, k) = SubSeq(s, 1, p - 1) \o SubSeq(s, p + 1, Len(s))
  <2>1. \E i \in 1 .. Len(s) : s[i] = k
    BY DEF Contains
  <2>2. I # {}
    BY <2>1
  <2>3. SelectInSeq(s, LAMBDA v : v = k) = p
    BY <2>2, Zenon DEF SelectInSeq
  <2> QED BY <2>1, <2>3, Zenon DEF RemoveFirst, RemoveAt
<1> HIDE DEF p, I
<1> DEFINE before == SubSeq(s, 1, p - 1)
           behind == SubSeq(s, p + 1, Len(s))
<1>3. /\ before \in Seq(Keys) /\ Len(before) = p - 1
      /\ behind \in Seq(Keys) /\ Len(behind) = Len(s) - p
  BY <1>1, SubSeqProperties
<1> HIDE DEF before, behind
<1>4. before \o behind \in Seq(Keys) /\ Len(before \o behind) = Len(s) - 1
  <2>1. before \o behind \in Seq(Keys) /\ Len(before \o behind) = Len(before) + Len(behind)
    BY <1>3, ConcatProperties
  <2>2. Len(s) \in Nat /\ (p - 1) + (Len(s) - p) = Len(s) - 1
    BY <1>1
  <2> QED BY <1>3, <2>1, <2>2
<1> QED BY <1>2, <1>4 DEF before, behind

(* A join takes the nodes one by one, and none makes the target shorter.     *)
LEMMA JoinGrows ==
    ASSUME NEW target \in Seq(Keys), NEW k \in Keys, NEW mode
    PROVE  /\ Join(target, k, mode) \in Seq(Keys)
           /\ Len(Join(target, k, mode)) \in {Len(target), Len(target) + 1}
<1>1. Join(target, k, mode) = target \/ Join(target, k, mode) = Into(target, k)
  BY Zenon DEF Join
<1> QED BY <1>1, IntoGrows

LEMMA JoinedSteps ==
    ASSUME NEW target \in Seq(Keys), NEW s \in Seq(Keys), NEW mode
    PROVE  /\ Joined(target, s, mode)[0] = target
           /\ \A p \in 1 .. Len(s) :
                 Joined(target, s, mode)[p] = Join(Joined(target, s, mode)[p - 1], s[p], mode)
<1> DEFINE n == Len(s)
           step == [p \in 1 .. n |-> [a \in Seq(Keys) |-> Join(a, s[p], mode)]]
           IsAfter(f) == f = [p \in 0 .. n |-> IF p = 0 THEN target ELSE Join(f[p - 1], s[p], mode)]
<1>1. n \in Nat /\ \A p \in 1 .. n : s[p] \in Keys
  OBVIOUS
<1>2. step \in [1 .. n -> [Seq(Keys) -> Seq(Keys)]]
  BY <1>1, JoinGrows
<1>3. PICK f \in [0 .. n -> Seq(Keys)] : Iterates(f, target, step)
  <2> HIDE DEF step, n
  <2> QED BY <1>1, <1>2, Iterate
<1>4. IsAfter(f)
  <2>1. ASSUME NEW p \in 1 .. n
        PROVE  f[p] = Join(f[p - 1], s[p], mode)
    <3>1. f[p - 1] \in Seq(Keys)
      BY <1>1, <1>3, SMTT(30)
    <3>2. f[p] = step[p][f[p - 1]]
      BY <1>3 DEF Iterates
    <3> QED BY <3>1, <3>2
  <2>2. f[0] = target
    BY <1>3 DEF Iterates
  <2> HIDE DEF n
  <2> QED BY <1>1, <1>3, <2>1, <2>2
<1>5. IsAfter(Joined(target, s, mode))
  BY <1>4, Zenon DEF Joined
<1> DEFINE h == Joined(target, s, mode)
<1> HIDE DEF h, n
<1>6. h[0] = target /\ \A p \in 1 .. n : h[p] = Join(h[p - 1], s[p], mode)
  BY <1>1, <1>5 DEF h
<1> QED BY <1>6 DEF h, n

LEMMA JoinedGrows ==
    ASSUME NEW target \in Seq(Keys), NEW s \in Seq(Keys), NEW mode
    PROVE  \A p \in 0 .. Len(s) : /\ Joined(target, s, mode)[p] \in Seq(Keys)
                                  /\ Len(Joined(target, s, mode)[p]) <= Len(Joined(target, s, mode)[Len(s)])
                                  /\ p # 0 => Len(Joined(target, s, mode)[p])
                                                <= Len(Joined(target, s, mode)[p - 1]) + 1
<1> DEFINE n == Len(s)
           h == Joined(target, s, mode)
<1>1. n \in Nat /\ \A p \in 1 .. n : s[p] \in Keys
  OBVIOUS
<1>6. h[0] = target /\ \A p \in 1 .. n : h[p] = Join(h[p - 1], s[p], mode)
  BY JoinedSteps
<1> HIDE DEF h, n
<1>7. \A p \in 0 .. n : h[p] \in Seq(Keys)
  <2> DEFINE holds == {p \in 0 .. n : h[p] \in Seq(Keys)}
  <2>1. 0 \in holds
    BY <1>1, <1>6
  <2>2. ASSUME NEW p \in 1 .. n, p - 1 \in holds
        PROVE  p \in holds
    <3>1. h[p - 1] \in Seq(Keys) /\ s[p] \in Keys /\ h[p] = Join(h[p - 1], s[p], mode)
      BY <1>1, <1>6, <2>2
    <3>2. h[p] \in Seq(Keys)
      <4> DEFINE a == h[p - 1]
                 k == s[p]
      <4>1. a \in Seq(Keys) /\ k \in Keys /\ h[p] = Join(a, k, mode)
        BY <3>1
      <4> HIDE DEF a, k
      <4>2. Join(a, k, mode) \in Seq(Keys)
        BY <4>1, JoinGrows
      <4> QED BY <4>1, <4>2
    <3> QED BY <1>1, <3>2
  <2>3. \A p \in 0 .. n : p \in holds
    <3> HIDE DEF holds
    <3> QED BY <1>1, <2>1, <2>2, Upwards
  <2> QED BY <2>3
<1>8. \A p \in 1 .. n : Len(h[p]) \in {Len(h[p - 1]), Len(h[p - 1]) + 1}
  <2> SUFFICES ASSUME NEW p \in 1 .. n
               PROVE  Len(h[p]) \in {Len(h[p - 1]), Len(h[p - 1]) + 1}
    OBVIOUS
  <2>1. h[p - 1] \in Seq(Keys)
    BY <1>1, <1>7
  <2> QED BY <1>1, <1>6, <2>1, JoinGrows
<1>9. \A p \in 0 .. n : Len(h[p]) \in Nat
  BY <1>7
<1>10. \A p \in 0 .. n : Len(h[p]) <= Len(h[n])
  <2> DEFINE holds == {q \in 0 .. n : Len(h[n - q]) <= Len(h[n])}
  <2>1. 0 \in holds
    BY <1>1, <1>9
  <2>2. ASSUME NEW q \in 1 .. n, q - 1 \in holds
        PROVE  q \in holds
    <3>1. /\ n - (q - 1) \in 1 .. n /\ n - q \in 0 .. n /\ (n - (q - 1)) - 1 = n - q
          /\ n - (q - 1) \in 0 .. n /\ n \in 0 .. n
      BY <1>1
    <3>2. Len(h[n - (q - 1)]) \in {Len(h[n - q]), Len(h[n - q]) + 1}
      BY <1>8, <3>1
    <3>3. Len(h[n - (q - 1)]) <= Len(h[n])
      BY <2>2
    <3>4. Len(h[n - q]) <= Len(h[n])
      <4> DEFINE a == Len(h[n - (q - 1)])
                 b == Len(h[n - q])
                 c == Len(h[n])
      <4>1. a \in Nat /\ b \in Nat /\ c \in Nat /\ a \in {b, b + 1} /\ a <= c
        BY <1>9, <3>1, <3>2, <3>3
      <4> HIDE DEF a, b, c
      <4>2. b <= c
        BY <4>1
      <4> QED BY <4>2 DEF b, c
    <3> QED BY <3>4
  <2>3. \A q \in 0 .. n : q \in holds
    <3> HIDE DEF holds
    <3> QED BY <1>1, <2>1, <2>2, Upwards
  <2>4. ASSUME NEW p \in 0 .. n
        PROVE  Len(h[p]) <= Len(h[n])
    <3>1. n - p \in 0 .. n /\ n - (n - p) = p
      BY <1>1
    <3>2. n - p \in holds
      <4> HIDE DEF holds
      <4> QED BY <2>3, <3>1
    <3>3. Len(h[n - (n - p)]) <= Len(h[n])
      BY <3>2
    <3> QED BY <3>1, <3>3
  <2> QED BY <2>4
<1>11. ASSUME NEW p \in 0 .. n, p # 0
       PROVE  Len(h[p]) <= Len(h[p - 1]) + 1
  <2>1. p \in 1 .. n /\ p - 1 \in 0 .. n
    BY <1>1, <1>11
  <2> QED BY <1>8, <1>9, <2>1
<1> QED BY <1>7, <1>10, <1>11 DEF h, n

(* The loop of intersect copies keys, whatever the lists hold.               *)
Places == [i : Nat \ {0}, j : Nat \ {0}, keys : Seq(Keys)]

LEMMA Passes ==
    ASSUME NEW s \in Seq(Keys), NEW i \in Nat \ {0}, i <= Len(s)
    PROVE  After(s, i) \in Nat \ {0}
<1> DEFINE n == Len(s)
           stops == {j \in i + 1 .. n + 1 : j > n \/ s[j] # s[j - 1]}
<1>1. n \in Nat /\ i <= n
  OBVIOUS
<1> HIDE DEF n
<1>2. stops \subseteq Nat \ {0} /\ n + 1 \in stops
  BY <1>1
<1>3. After(s, i) = Min(stops)
  BY DEF After, n
<1> HIDE DEF stops
<1>4. \E m \in stops : \A k \in stops : m <= k
  BY <1>2, LeastNumber
<1>5. Min(stops) \in stops
  BY <1>4 DEF Min
<1> QED BY <1>2, <1>3, <1>5

LEMMA PlaceMoves ==
    ASSUME NEW at \in Places, NEW v \in Nat \ {0}
    PROVE  [at EXCEPT !.i = v] \in Places /\ [at EXCEPT !.j = v] \in Places
BY DEF Places

LEMMA TurnTyped ==
    ASSUME NEW s1 \in Seq(Keys), NEW s2 \in Seq(Keys), NEW at \in Places
    PROVE  Turn(s1, s2, at) \in Places
<1>1. /\ at = [i |-> at.i, j |-> at.j, keys |-> at.keys]
      /\ at.i \in Nat \ {0} /\ at.j \in Nat \ {0} /\ at.keys \in Seq(Keys)
  BY DEF Places
<1>2. CASE at.i > Len(s1) \/ at.j > Len(s2)
  BY <1>2, Zenon DEF Turn
<1>3. CASE ~(at.i > Len(s1) \/ at.j > Len(s2))
  <2>1. at.i \in 1 .. Len(s1) /\ s1[at.i] \in Keys
    BY <1>1, <1>3
  <2>2. CASE s1[at.i] = s2[at.j]
    <3>1. Turn(s1, s2, at) = [i |-> After(s1, at.i), j |-> After(s2, at.j),
                              keys |-> Append(at.keys, s1[at.i])]
      BY <1>3, <2>2, Zenon DEF Turn
    <3>2. Append(at.keys, s1[at.i]) \in Seq(Keys)
      BY <1>1, <2>1
    <3>3. After(s1, at.i) \in Nat \ {0} /\ After(s2, at.j) \in Nat \ {0}
      <4>1. at.i <= Len(s1) /\ at.j <= Len(s2)
        BY <1>1, <1>3
      <4> QED BY <1>1, <4>1, Passes
    <3> QED BY <3>1, <3>2, <3>3 DEF Places
  <2>3. CASE s1[at.i] # s2[at.j]
    <3>1. \/ Turn(s1, s2, at) = [at EXCEPT !.i = @ + 1]
          \/ Turn(s1, s2, at) = [at EXCEPT !.j = @ + 1]
      BY <1>3, <2>3, Zenon DEF Turn
    <3>3. at.i + 1 \in Nat \ {0} /\ at.j + 1 \in Nat \ {0}
      BY <1>1
    <3>4. [at EXCEPT !.i = at.i + 1] \in Places /\ [at EXCEPT !.j = at.j + 1] \in Places
      BY <3>3, PlaceMoves
    <3> QED BY <3>1, <3>4, Zenon
  <2> QED BY <2>2, <2>3
<1> QED BY <1>2, <1>3

(* The loop of intersect, turn after turn.                                   *)
Beginning == [i |-> 1, j |-> 1, keys |-> <<>>]

Runs(s1, s2, at) ==
    /\ at[0] = Beginning
    /\ \A k \in 1 .. Len(s1) + Len(s2) : at[k] = Turn(s1, s2, at[k - 1])
    /\ \A k \in 0 .. Len(s1) + Len(s2) : at[k] \in Places

LEMMA CommonRuns ==
    ASSUME NEW s1 \in Seq(Keys), NEW s2 \in Seq(Keys)
    PROVE  \E at : Runs(s1, s2, at) /\ Common(s1, s2) = at[Len(s1) + Len(s2)].keys
<1> DEFINE n == Len(s1) + Len(s2)
           begin == [i |-> 1, j |-> 1, keys |-> <<>>]
           step == [k \in 1 .. n |-> [at \in Places |-> Turn(s1, s2, at)]]
           Loop(f) == f = [k \in 0 .. n |-> IF k = 0 THEN begin ELSE Turn(s1, s2, f[k - 1])]
<1>1. n \in Nat
  OBVIOUS
<1>2. begin \in Places /\ begin = Beginning
  BY DEF Places, Beginning
<1>3. step \in [1 .. n -> [Places -> Places]]
  BY TurnTyped
<1>4. PICK f \in [0 .. n -> Places] : Iterates(f, begin, step)
  <2> HIDE DEF step, n, begin
  <2> QED BY <1>1, <1>2, <1>3, Iterate
<1>5. Loop(f)
  <2>1. ASSUME NEW k \in 1 .. n
        PROVE  f[k] = Turn(s1, s2, f[k - 1])
    <3>1. f[k - 1] \in Places
      BY <1>1, <1>4, SMTT(30)
    <3>2. f[k] = step[k][f[k - 1]]
      BY <1>4 DEF Iterates
    <3> QED BY <3>1, <3>2
  <2>2. f[0] = begin
    BY <1>4 DEF Iterates
  <2> HIDE DEF n, begin
  <2> QED BY <1>1, <1>4, <2>1, <2>2
<1>6. \E at : Loop(at) /\ Common(s1, s2) = at[n].keys
  BY <1>5, Zenon DEF Common
<1>7. PICK at : Loop(at) /\ Common(s1, s2) = at[n].keys
  BY <1>6
<1> HIDE DEF n, begin
<1>8. at[0] = begin /\ \A k \in 1 .. n : at[k] = Turn(s1, s2, at[k - 1])
  BY <1>1, <1>7
<1> HIDE DEF Loop
<1>9. \A k \in 0 .. n : at[k] \in Places
  <2> DEFINE holds == {k \in 0 .. n : at[k] \in Places}
  <2>1. 0 \in holds
    BY <1>1, <1>2, <1>8
  <2>2. ASSUME NEW k \in 1 .. n, k - 1 \in holds
        PROVE  k \in holds
    BY <1>1, <1>8, <2>2, TurnTyped
  <2>3. \A k \in 0 .. n : k \in holds
    <3> HIDE DEF holds
    <3> QED BY <1>1, <2>1, <2>2, Upwards
  <2> QED BY <2>3
<1>10. Runs(s1, s2, at)
  BY <1>2, <1>8, <1>9 DEF Runs, n
<1> QED BY <1>7, <1>10 DEF n

LEMMA CommonTyped ==
    ASSUME NEW s1 \in Seq(Keys), NEW s2 \in Seq(Keys)
    PROVE  Common(s1, s2) \in Seq(Keys)
<1> DEFINE n == Len(s1) + Len(s2)
<1>1. PICK at : Runs(s1, s2, at) /\ Common(s1, s2) = at[n].keys
  BY CommonRuns
<1>2. n \in 0 .. n
  OBVIOUS
<1>3. at[n] \in Places
  BY <1>1, <1>2 DEF Runs
<1> QED BY <1>1, <1>3 DEF Places

-----------------------------------------------------------------------------
(* The parts of a list that cannot be made                                   *)

(* _sklFreeMemBlocks frees up to the first null pointer after the first.     *)
First(args, k) == {args[i] : i \in 1 .. k} \ {NULL}

EndsAt(args, n, k) ==
    /\ n \in Nat /\ k \in 1 .. n - 1 /\ DOMAIN args = 1 .. n /\ Len(args) = n
    /\ args[k + 1] = NULL /\ \A i \in 2 .. k : args[i] # NULL

LEMMA FreedUpTo ==
    ASSUME NEW args, NEW n, NEW k, EndsAt(args, n, k)
    PROVE  FreeMemBlocks(args) = First(args, k)
<1> USE DEF EndsAt
<1> DEFINE ends == {i \in 2 .. n : args[i] = NULL}
           last == IF ends = {} THEN n ELSE Min(ends) - 1
<1>1. k + 1 \in ends /\ ends \in SUBSET Nat
  OBVIOUS
<1>2. Min(ends) = k + 1
  <2>1. Min(ends) \in ends /\ Min(ends) <= k + 1
    <3> HIDE DEF ends
    <3> QED BY <1>1, Least
  <2> QED BY <2>1
<1>3. last = k
  <2> HIDE DEF ends
  <2> QED BY <1>1, <1>2
<1>4. FreeMemBlocks(args) = {args[i] : i \in 1 .. last} \ {NULL}
  BY DEF FreeMemBlocks
<1> HIDE DEF last
<1> QED BY <1>3, <1>4 DEF First

LEMMA FreedSome ==
    ASSUME NEW r
    PROVE  /\ FreeMemBlocks(<<NULL>>) = {}
           /\ FreeMemBlocks(<<r, NULL>>) = {r} \ {NULL}
           /\ \A a : a # NULL => FreeMemBlocks(<<a, r, NULL>>) = {a, r} \ {NULL}
           /\ \A a, b : a # NULL /\ b # NULL =>
                 FreeMemBlocks(<<a, b, r, NULL>>) = {a, b, r} \ {NULL}
           /\ \A a, b, c : a # NULL /\ b # NULL /\ c # NULL =>
                 FreeMemBlocks(<<a, b, c, r, NULL>>) = {a, b, c, r} \ {NULL}
<1>1. FreeMemBlocks(<<NULL>>) = {}
  <2> DEFINE args == <<NULL>>
             ends == {i \in 2 .. Len(args) : args[i] = NULL}
             last == IF ends = {} THEN Len(args) ELSE Min(ends) - 1
  <2>1. last = 1
    BY Len(args) = 1
  <2>2. FreeMemBlocks(args) = {args[i] : i \in 1 .. last} \ {NULL}
    BY DEF FreeMemBlocks
  <2> HIDE DEF last
  <2> QED BY <2>1, <2>2
<1>2. FreeMemBlocks(<<r, NULL>>) = {r} \ {NULL}
  <2> DEFINE args == <<r, NULL>>
  <2>1. /\ DOMAIN args = 1 .. 2 /\ Len(args) = 2 /\ args[1] = r /\ args[2] = NULL
    OBVIOUS
  <2> HIDE DEF args
  <2>2a. EndsAt(args, 2, 1)
    BY <2>1 DEF EndsAt
  <2>2. FreeMemBlocks(args) = First(args, 1)
    BY <2>2a, FreedUpTo
  <2> QED BY <2>1, <2>2 DEF args, First
<1>3. ASSUME NEW a, a # NULL
      PROVE  FreeMemBlocks(<<a, r, NULL>>) = {a, r} \ {NULL}
  <2> DEFINE args == <<a, r, NULL>>
  <2>1. /\ DOMAIN args = 1 .. 3 /\ Len(args) = 3 /\ args[1] = a /\ args[2] = r /\ args[3] = NULL
    OBVIOUS
  <2> HIDE DEF args
  <2>2. CASE r = NULL
    <3>1a. EndsAt(args, 3, 1)
      BY <2>1, <2>2 DEF EndsAt
    <3>1. FreeMemBlocks(args) = First(args, 1)
      BY <3>1a, FreedUpTo
    <3> QED BY <2>1, <2>2, <3>1 DEF args, First
  <2>3. CASE r # NULL
    <3>1a. EndsAt(args, 3, 2)
      BY <2>1, <2>3 DEF EndsAt
    <3>1. FreeMemBlocks(args) = First(args, 2)
      BY <3>1a, FreedUpTo
    <3> QED BY <2>1, <3>1 DEF args, First
  <2> QED BY <2>2, <2>3
<1>4. ASSUME NEW a, NEW b, a # NULL, b # NULL
      PROVE  FreeMemBlocks(<<a, b, r, NULL>>) = {a, b, r} \ {NULL}
  <2> DEFINE args == <<a, b, r, NULL>>
  <2>1. /\ DOMAIN args = 1 .. 4 /\ Len(args) = 4
        /\ args[1] = a /\ args[2] = b /\ args[3] = r /\ args[4] = NULL
    OBVIOUS
  <2> HIDE DEF args
  <2>2. CASE r = NULL
    <3>1a. EndsAt(args, 4, 2)
      BY <1>4, <2>1, <2>2 DEF EndsAt
    <3>1. FreeMemBlocks(args) = First(args, 2)
      BY <3>1a, FreedUpTo
    <3> QED BY <2>1, <2>2, <3>1 DEF args, First
  <2>3. CASE r # NULL
    <3>1a. EndsAt(args, 4, 3)
      BY <1>4, <2>1, <2>3 DEF EndsAt
    <3>1. FreeMemBlocks(args) = First(args, 3)
      BY <3>1a, FreedUpTo
    <3> QED BY <2>1, <3>1 DEF args, First
  <2> QED BY <2>2, <2>3
<1>5. ASSUME NEW a, NEW b, NEW c, a # NULL, b # NULL, c # NULL
      PROVE  FreeMemBlocks(<<a, b, c, r, NULL>>) = {a, b, c, r} \ {NULL}
  <2> DEFINE args == <<a, b, c, r, NULL>>
  <2>1. /\ DOMAIN args = 1 .. 5 /\ Len(args) = 5
        /\ args[1] = a /\ args[2] = b /\ args[3] = c /\ args[4] = r /\ args[5] = NULL
    OBVIOUS
  <2> HIDE DEF args
  <2>2. CASE r = NULL
    <3>1a. EndsAt(args, 5, 3)
      BY <1>5, <2>1, <2>2 DEF EndsAt
    <3>1. FreeMemBlocks(args) = First(args, 3)
      BY <3>1a, FreedUpTo
    <3> QED BY <2>1, <2>2, <3>1 DEF args, First
  <2>3. CASE r # NULL
    <3>1a. EndsAt(args, 5, 4)
      BY <1>5, <2>1, <2>3 DEF EndsAt
    <3>1. FreeMemBlocks(args) = First(args, 4)
      BY <3>1a, FreedUpTo
    <3> QED BY <2>1, <3>1 DEF args, First
  <2> QED BY <2>2, <2>3
<1> QED BY <1>1, <1>2, <1>3, <1>4, <1>5

(* What was allocated before the part that could not be had is freed, and    *)
(* nothing else.                                                             *)
LEMMA FreedOnErrorExact ==
    ASSUME build \in Builds, NEW i \in DOMAIN Parts
    PROVE  Cardinality(FreedOnError(Parts[i])) = i - 1
<1> DEFINE n == IF build.rand THEN 1 ELSE 0
           R == {Rng} \ {NULL}
<1>1. build.rand \in BOOLEAN
  OBVIOUS
<1>2. /\ DOMAIN Parts = 1 .. n + 4
      /\ Parts[n + 1] = "l" /\ Parts[n + 2] = "x" /\ Parts[n + 3] = "next" /\ Parts[n + 4] = "prev"
      /\ n = 1 => Parts[1] = "rng"
  <2>1. CASE build.rand
    BY <2>1 DEF Parts
  <2>2. CASE ~build.rand
    BY <2>2 DEF Parts
  <2> QED BY <2>1, <2>2
<1>3. n \in {0, 1} /\ IsFiniteSet(R) /\ Cardinality(R) = n
  <2>1. CASE build.rand
    <3>1. R = {"rng"}
      BY <2>1 DEF Rng
    <3> HIDE DEF R
    <3> QED BY <2>1, <3>1, FS_Singleton
  <2>2. CASE ~build.rand
    <3>1. R = {}
      BY <2>2 DEF Rng
    <3> HIDE DEF R
    <3> QED BY <2>2, <3>1, FS_EmptySet
  <2> QED BY <2>1, <2>2
<1>4. Rng \in {NULL, "rng"}
  BY DEF Rng
<1>5. /\ FreedOnError("rng") = {}
      /\ FreedOnError("l") = R
      /\ FreedOnError("x") = R \cup {"l"}
      /\ FreedOnError("next") = (R \cup {"l"}) \cup {"x"}
      /\ FreedOnError("prev") = ((R \cup {"l"}) \cup {"x"}) \cup {"next"}
  <2>1. FreedOnError("rng") = FreeMemBlocks(<<NULL>>)
    BY Zenon DEF FreedOnError
  <2>2. FreedOnError("l") = FreeMemBlocks(<<Rng, NULL>>)
    BY Zenon DEF FreedOnError
  <2>3. FreedOnError("x") = FreeMemBlocks(<<"l", Rng, NULL>>)
    BY Zenon DEF FreedOnError
  <2>4. FreedOnError("next") = FreeMemBlocks(<<"x", "l", Rng, NULL>>)
    BY Zenon DEF FreedOnError
  <2>5. FreedOnError("prev") = FreeMemBlocks(<<"next", "x", "l", Rng, NULL>>)
    BY Zenon DEF FreedOnError
  <2>6. NULL \notin {"rng", "l", "x", "next", "prev"}
    OBVIOUS
  <2>7. /\ FreeMemBlocks(<<"l", Rng, NULL>>) = {"l", Rng} \ {NULL}
        /\ FreeMemBlocks(<<"x", "l", Rng, NULL>>) = {"x", "l", Rng} \ {NULL}
        /\ FreeMemBlocks(<<"next", "x", "l", Rng, NULL>>) = {"next", "x", "l", Rng} \ {NULL}
        /\ FreeMemBlocks(<<Rng, NULL>>) = {Rng} \ {NULL} /\ FreeMemBlocks(<<NULL>>) = {}
    BY <2>6, FreedSome
  <2> QED BY <2>1, <2>2, <2>3, <2>4, <2>5, <2>6, <2>7
<1>6. "l" \notin R /\ "x" \notin R \cup {"l"} /\ "next" \notin (R \cup {"l"}) \cup {"x"}
  BY <1>4
<1> HIDE DEF n, R
<1> DEFINE R1 == R \cup {"l"}
           R2 == R1 \cup {"x"}
           R3 == R2 \cup {"next"}
<1>7. "l" \notin R /\ "x" \notin R1 /\ "next" \notin R2
  BY <1>6
<1>8. IsFiniteSet(R1) /\ Cardinality(R1) = n + 1
  <2>1. IsFiniteSet(R1) /\ Cardinality(R1) = Cardinality(R) + 1
    BY <1>3, <1>7, FS_AddElement
  <2> QED BY <1>3, <2>1
<1>9. FreedOnError("l") = R /\ FreedOnError("x") = R1 /\ FreedOnError("next") = R2
      /\ FreedOnError("prev") = R3
  BY <1>5
<1> HIDE DEF R1
<1>10. IsFiniteSet(R2) /\ Cardinality(R2) = n + 2
  <2>1. IsFiniteSet(R2) /\ Cardinality(R2) = Cardinality(R1) + 1
    BY <1>7, <1>8, FS_AddElement
  <2> QED BY <1>3, <1>8, <2>1
<1> HIDE DEF R2
<1>11. Cardinality(R3) = n + 3
  <2>1. Cardinality(R3) = Cardinality(R2) + 1
    BY <1>7, <1>10, FS_AddElement
  <2> QED BY <1>3, <1>10, <2>1
<1> HIDE DEF R3
<1>12. i = n + 1 \/ i = n + 2 \/ i = n + 3 \/ i = n + 4 \/ (n = 1 /\ i = 1)
  <2>1. i \in 1 .. n + 4
    BY <1>2, Zenon
  <2>2. n = 0 \/ n = 1
    BY <1>3
  <2> QED BY <2>1, <2>2
<1>13. CASE n = 1 /\ i = 1
  BY <1>2, <1>5, <1>13, FS_EmptySet, SMTT(30)
<1>14. CASE i = n + 1
  BY <1>2, <1>3, <1>9, <1>14
<1>15. CASE i = n + 2
  BY <1>2, <1>3, <1>8, <1>9, <1>15
<1>16. CASE i = n + 3
  BY <1>2, <1>3, <1>9, <1>10, <1>16
<1>17. CASE i = n + 4
  BY <1>2, <1>3, <1>9, <1>11, <1>17
<1> QED BY <1>12, <1>13, <1>14, <1>15, <1>16, <1>17

-----------------------------------------------------------------------------
(* What the memory is used for                                               *)

Live == {l \in Lists : state[l] = "live"}

(* The nodes and the blocks of one list, and of all of them.                 *)
NodesIn(st, s)  == IF st = "live" THEN Len(s) ELSE 0
BlocksIn(st, s) == IF st = "live" THEN Len(Parts) + 2 * Len(s) ELSE 0

Lengths == [l \in Lists |-> Len(nodes[l])]
Sizes   == [l \in Lists |-> Len(Parts) + 2 * Len(nodes[l])]

NodesInLists  == SumFunctionOnSet(Lengths, Live)
BlocksInLists == SumFunctionOnSet(Sizes, Live)

HasArray   == lc.acl # NoArray /\ \A t \in Threads : th[t].pc # "reset"
ArrayBlock == IF HasArray THEN 1 ELSE 0

(* What a list holds is bounded, and a list that is not there holds nothing. *)
Filled ==
    /\ nodes \in [Lists -> Seq(Keys)]
    /\ \A l \in Lists : Len(nodes[l]) <= MaxLen /\ (state[l] # "live" => nodes[l] = <<>>)
    /\ lost \in 0 .. MaxLost

(* Together with IInv this is inductive.                                     *)
Memory ==
    /\ Filled
    /\ held = lost + NodesInLists
    /\ blocks = ArrayBlock + BlocksInLists

(* The sum over a set of which at most m comes, goes or changes.             *)
Part(f, S, m) == IF m \in S THEN f[m] ELSE 0

LEMMA SumMoves ==
    ASSUME NEW S \in SUBSET Lists, NEW R \in SUBSET Lists, NEW m, S \ {m} = R \ {m},
           NEW f \in [Lists -> Nat], NEW g \in [Lists -> Nat], \A l \in S \ {m} : g[l] = f[l]
    PROVE  /\ SumFunctionOnSet(f, S) \in Nat /\ SumFunctionOnSet(g, R) \in Nat
           /\ SumFunctionOnSet(g, R) = SumFunctionOnSet(f, S) - Part(f, S, m) + Part(g, R, m)
<1>1. IsFiniteSet(S) /\ IsFiniteSet(R) /\ IsFiniteSet(S \ {m})
  BY FS_Subset
<1>2. /\ \A l \in S : f[l] \in Nat
      /\ \A l \in R : g[l] \in Nat
      /\ \A l \in S \ {m} : f[l] \in Nat /\ g[l] = f[l]
  OBVIOUS
<1>3. SumFunctionOnSet(f, S \ {m}) = SumFunctionOnSet(g, S \ {m})
  BY <1>1, <1>2, SumsAgree
<1>4. /\ SumFunctionOnSet(f, S) \in Nat
      /\ \A x \in S : SumFunctionOnSet(f, S) = f[x] + SumFunctionOnSet(f, S \ {x})
  BY <1>1, <1>2, SumsUp
<1>5. /\ SumFunctionOnSet(g, R) \in Nat
      /\ \A x \in R : SumFunctionOnSet(g, R) = g[x] + SumFunctionOnSet(g, R \ {x})
  BY <1>1, <1>2, SumsUp
<1>6. SumFunctionOnSet(f, S \ {m}) \in Nat
  <2>1. \A l \in S \ {m} : f[l] \in Nat
    OBVIOUS
  <2> QED BY <1>1, <2>1, SumsUp
<1>7. SumFunctionOnSet(f, S) = Part(f, S, m) + SumFunctionOnSet(f, S \ {m})
  <2>1. CASE m \in S
    BY <1>4, <2>1 DEF Part
  <2>2. CASE m \notin S
    <3>1. S \ {m} = S
      BY <2>2
    <3> QED BY <1>4, <2>2, <3>1 DEF Part
  <2> QED BY <2>1, <2>2
<1>8. SumFunctionOnSet(g, R) = Part(g, R, m) + SumFunctionOnSet(g, S \ {m})
  <2>1. CASE m \in R
    BY <1>5, <2>1 DEF Part
  <2>2. CASE m \notin R
    <3>1. S \ {m} = R
      BY <2>2
    <3> QED BY <1>5, <2>2, <3>1 DEF Part
  <2> QED BY <2>1, <2>2
<1>9. Part(f, S, m) \in Nat /\ Part(g, R, m) \in Nat
  BY DEF Part
<1> HIDE DEF Part
<1> QED BY <1>3, <1>4, <1>5, <1>6, <1>7, <1>8, <1>9

LEMMA PartsCount ==
    ASSUME build \in Builds
    PROVE  Len(Parts) \in Nat /\ DOMAIN Parts = 1 .. Len(Parts)
<1>1. CASE build.rand
  BY <1>1 DEF Parts
<1>2. CASE ~build.rand
  BY <1>2 DEF Parts
<1> QED BY <1>1, <1>2

(* The program's nodes and the library's blocks move as those of list m do.  *)
Moves(m) ==
    /\ \A l \in Lists \ {m} : state'[l] = state[l] /\ nodes'[l] = nodes[l]
    /\ held' - lost' = held - lost + NodesIn(state'[m], nodes'[m]) - NodesIn(state[m], nodes[m])
    /\ blocks' = blocks + BlocksIn(state'[m], nodes'[m]) - BlocksIn(state[m], nodes[m])

LEMMA Counted ==
    ASSUME build \in Builds, Memory
    PROVE  /\ held \in Nat /\ blocks \in Nat /\ lost \in Nat
           /\ NodesInLists \in Nat /\ BlocksInLists \in Nat
<1>1. Lengths \in [Lists -> Nat] /\ Sizes \in [Lists -> Nat] /\ Live \in SUBSET Lists
  BY PartsCount DEF Lengths, Sizes, Live, Memory, Filled
<1>2. NodesInLists \in Nat /\ BlocksInLists \in Nat
  <2>1. IsFiniteSet(Live) /\ \A l \in Live : Lengths[l] \in Nat /\ Sizes[l] \in Nat
    BY <1>1, FS_Subset
  <2> QED BY <2>1, SumsUp DEF NodesInLists, BlocksInLists
<1>3. ArrayBlock \in Nat /\ lost \in Nat
  BY DEF ArrayBlock, Memory, Filled
<1> QED BY <1>2, <1>3 DEF Memory

LEMMA MovesKeep ==
    ASSUME build \in Builds, build' = build, Memory, Filled', NEW m \in Lists, Moves(m),
           HasArray' <=> HasArray, held' \in Int
    PROVE  Memory'
<1>1. Parts' = Parts
  BY DEF Parts
<1>2. /\ Lengths \in [Lists -> Nat] /\ Sizes \in [Lists -> Nat] /\ Live \in SUBSET Lists
      /\ \A l \in Lists : Lengths[l] = Len(nodes[l]) /\ Sizes[l] = Len(Parts) + 2 * Len(nodes[l])
  BY PartsCount DEF Lengths, Sizes, Live, Memory, Filled
<1>3. /\ Lengths' \in [Lists -> Nat] /\ Sizes' \in [Lists -> Nat] /\ Live' \in SUBSET Lists
      /\ \A l \in Lists : Lengths'[l] = Len(nodes'[l]) /\ Sizes'[l] = Len(Parts) + 2 * Len(nodes'[l])
  BY <1>1, PartsCount DEF Lengths, Sizes, Live, Filled
<1>4. /\ Live \ {m} = Live' \ {m}
      /\ \A l \in Live \ {m} : Lengths'[l] = Lengths[l] /\ Sizes'[l] = Sizes[l]
  BY <1>2, <1>3, ZenonT(40) DEF Moves, Live
<1>5. /\ Part(Lengths, Live, m) = NodesIn(state[m], nodes[m])
      /\ Part(Sizes, Live, m) = BlocksIn(state[m], nodes[m])
      /\ Part(Lengths', Live', m) = NodesIn(state'[m], nodes'[m])
      /\ Part(Sizes', Live', m) = BlocksIn(state'[m], nodes'[m])
  BY <1>2, <1>3 DEF Part, NodesIn, BlocksIn, Live
<1>6. /\ NodesInLists \in Nat /\ NodesInLists' \in Nat
      /\ NodesInLists' = NodesInLists - NodesIn(state[m], nodes[m]) + NodesIn(state'[m], nodes'[m])
  <2> DEFINE f == Lengths
             g == Lengths'
             S == Live
             R == Live'
  <2>1. /\ f \in [Lists -> Nat] /\ g \in [Lists -> Nat] /\ S \in SUBSET Lists /\ R \in SUBSET Lists
        /\ S \ {m} = R \ {m} /\ \A l \in S \ {m} : g[l] = f[l]
    BY <1>2, <1>3, <1>4
  <2>2. /\ NodesInLists = SumFunctionOnSet(f, S) /\ NodesInLists' = SumFunctionOnSet(g, R)
        /\ Part(f, S, m) = NodesIn(state[m], nodes[m])
        /\ Part(g, R, m) = NodesIn(state'[m], nodes'[m])
    BY <1>5 DEF NodesInLists
  <2> HIDE DEF f, g, S, R
  <2>3. /\ SumFunctionOnSet(f, S) \in Nat /\ SumFunctionOnSet(g, R) \in Nat
        /\ SumFunctionOnSet(g, R) = SumFunctionOnSet(f, S) - Part(f, S, m) + Part(g, R, m)
    BY <2>1, SumMoves
  <2> QED BY <2>2, <2>3
<1>7. /\ BlocksInLists \in Nat /\ BlocksInLists' \in Nat
      /\ BlocksInLists' = BlocksInLists - BlocksIn(state[m], nodes[m]) + BlocksIn(state'[m], nodes'[m])
  <2> DEFINE f == Sizes
             g == Sizes'
             S == Live
             R == Live'
  <2>1. /\ f \in [Lists -> Nat] /\ g \in [Lists -> Nat] /\ S \in SUBSET Lists /\ R \in SUBSET Lists
        /\ S \ {m} = R \ {m} /\ \A l \in S \ {m} : g[l] = f[l]
    BY <1>2, <1>3, <1>4
  <2>2. /\ BlocksInLists = SumFunctionOnSet(f, S) /\ BlocksInLists' = SumFunctionOnSet(g, R)
        /\ Part(f, S, m) = BlocksIn(state[m], nodes[m])
        /\ Part(g, R, m) = BlocksIn(state'[m], nodes'[m])
    BY <1>5 DEF BlocksInLists
  <2> HIDE DEF f, g, S, R
  <2>3. /\ SumFunctionOnSet(f, S) \in Nat /\ SumFunctionOnSet(g, R) \in Nat
        /\ SumFunctionOnSet(g, R) = SumFunctionOnSet(f, S) - Part(f, S, m) + Part(g, R, m)
    BY <2>1, SumMoves
  <2> QED BY <2>2, <2>3
<1>8. /\ NodesIn(state[m], nodes[m]) \in Nat /\ NodesIn(state'[m], nodes'[m]) \in Nat
      /\ BlocksIn(state[m], nodes[m]) \in Nat /\ BlocksIn(state'[m], nodes'[m]) \in Nat
  BY PartsCount DEF NodesIn, BlocksIn, Memory, Filled
<1>9. ArrayBlock' = ArrayBlock /\ ArrayBlock \in Nat
  BY DEF ArrayBlock
<1>10. held \in Nat /\ blocks \in Nat /\ lost \in Nat /\ lost' \in Nat
  BY Counted DEF Filled
<1>11. held' = lost' + NodesInLists'
  BY <1>6, <1>8, <1>10 DEF Moves, Memory
<1>12. blocks' = ArrayBlock' + BlocksInLists'
  BY <1>7, <1>8, <1>9, <1>10 DEF Moves, Memory
<1> QED BY <1>11, <1>12 DEF Memory

(* The steps that leave the lists alone.                                     *)
LEMMA SameLists ==
    ASSUME Memory, build' = build, UNCHANGED <<state, nodes, held, lost>>
    PROVE  Filled' /\ NodesInLists' = NodesInLists /\ BlocksInLists' = BlocksInLists
<1>1. Parts' = Parts
  BY DEF Parts
<1>2. Filled' /\ Lengths' = Lengths /\ Sizes' = Sizes /\ Live' = Live
  BY <1>1 DEF Memory, Filled, Lengths, Sizes, Live
<1> QED BY <1>2 DEF NodesInLists, BlocksInLists

LEMMA SameMemory ==
    ASSUME Memory, build' = build, UNCHANGED lists, HasArray' <=> HasArray
    PROVE  Memory'
<1>1. ArrayBlock' = ArrayBlock
  BY DEF ArrayBlock
<1> QED BY <1>1, SameLists DEF Memory, lists

LEMMA EndsLeaves ==
    ASSUME Typed, NEW t \in Threads, Ends(t), UNCHANGED lc
    PROVE  HasArray' <=> HasArray
<1>1. \A u \in Threads : th[u].pc = "run"
  BY DEF Ends, Alone
<1>2. PICK f \in BOOLEAN :
        th' = [th EXCEPT ![t] = [pc |-> IF lc.acl # NoArray THEN "sweep" ELSE "reset",
                                 l |-> NULL, i |-> 0, fatal |-> f]]
  BY DEF Ends
<1>3. \A u \in Threads : u # t => th'[u] = th[u]
  BY <1>2 DEF Typed
<1>4. th'[t].pc = IF lc.acl # NoArray THEN "sweep" ELSE "reset"
  BY <1>2 DEF Typed
<1>5. CASE lc.acl # NoArray
  <2>1. HasArray
    BY <1>1, <1>5 DEF HasArray
  <2>2. HasArray'
    BY <1>1, <1>3, <1>4, <1>5 DEF HasArray
  <2> QED BY <2>1, <2>2
<1>6. CASE lc.acl = NoArray
  BY <1>6 DEF HasArray
<1> QED BY <1>5, <1>6

LEMMA ListsLeaveArray ==
    ASSUME IInv, NEW t \in Threads, ListsStep(t)
    PROVE  HasArray' <=> HasArray
<1>1. UNCHANGED lc
  BY DEF ListsStep, cont
<1>2. UNCHANGED th \/ Ends(t)
  BY DEF ListsStep
<1>3. CASE UNCHANGED th
  BY <1>1, <1>3 DEF HasArray
<1> QED BY <1>1, <1>2, <1>3, EndsLeaves DEF IInv

(* What a call on lists means for the memory.                                *)
MemoryStep == held' \in Int /\ Filled' /\ \E m \in Lists : Moves(m)

LEMMA NothingMoves ==
    ASSUME IInv, Memory, build' = build, UNCHANGED <<state, nodes, blocks, held, lost>>,
           NEW m \in Lists
    PROVE  MemoryStep
<1>1. held \in Nat /\ blocks \in Nat /\ lost \in Nat
  BY Counted DEF IInv, Typed
<1>2. Filled'
  BY DEF Memory, Filled
<1>3. /\ NodesIn(state[m], nodes[m]) \in Nat
      /\ BlocksIn(state[m], nodes[m]) \in Nat
  BY PartsCount DEF IInv, Typed, NodesIn, BlocksIn, Memory, Filled
<1>4. Moves(m)
  BY <1>1, <1>3 DEF Moves
<1> QED BY <1>1, <1>2, <1>4 DEF MemoryStep

LEMMA InitListMoves ==
    ASSUME IInv, Memory, NEW t \in Threads, NEW l \in Lists, NEW d \in BOOLEAN, InitList(t, l, d)
    PROVE  MemoryStep
<1>1. build \in Builds /\ state \in [Lists -> {"none", "live", "gone"}]
  BY DEF IInv, Typed
<1>2. /\ Len(Parts) \in Nat /\ DOMAIN Parts = 1 .. Len(Parts)
      /\ held \in Nat /\ blocks \in Nat /\ lost \in Nat
  BY <1>1, PartsCount, Counted
<1>3. state[l] = "none" /\ UNCHANGED <<build, nodes, held, lost>>
  BY DEF InitList
<1>4. CASE state' = [state EXCEPT ![l] = "live"] /\ blocks' = blocks + Len(Parts)
  <2>1. /\ nodes[l] = <<>> /\ nodes' = nodes /\ state'[l] = "live"
        /\ \A m \in Lists \ {l} : state'[m] = state[m]
    BY <1>1, <1>3, <1>4 DEF Memory, Filled
  <2>2. Len(nodes[l]) = 0
    BY <2>1
  <2>3. Filled'
    BY <1>3, <2>1 DEF Memory, Filled
  <2>4. Moves(l)
    BY <1>2, <1>3, <1>4, <2>1, <2>2 DEF Moves, NodesIn, BlocksIn
  <2> QED BY <1>2, <1>3, <2>3, <2>4 DEF MemoryStep
<1>5. ASSUME UNCHANGED state, NEW i \in DOMAIN Parts,
             blocks' = blocks + (i - 1) - Cardinality(FreedOnError(Parts[i]))
      PROVE  MemoryStep
  <2>1. i \in Nat
    BY <1>2
  <2>2. Cardinality(FreedOnError(Parts[i])) = i - 1
    BY <1>1, FreedOnErrorExact
  <2>3. blocks' = blocks
    BY <1>2, <1>5, <2>1, <2>2
  <2> QED BY <1>3, <1>5, <2>3, NothingMoves
<1>6. \/ state' = [state EXCEPT ![l] = "live"] /\ blocks' = blocks + Len(Parts)
      \/ /\ UNCHANGED state
         /\ \E i \in DOMAIN Parts :
               blocks' = blocks + (i - 1) - Cardinality(FreedOnError(Parts[i]))
  BY Zenon DEF InitList
<1> QED BY <1>4, <1>5, <1>6

LEMMA DestroyedMoves ==
    ASSUME IInv, Memory, build' = build, NEW l \in Lists, state[l] = "live", Destroyed(l)
    PROVE  MemoryStep
<1>1. build \in Builds /\ state \in [Lists -> {"none", "live", "gone"}]
  BY DEF IInv, Typed
<1>2. Len(Parts) \in Nat /\ held \in Nat /\ blocks \in Nat /\ lost \in Nat
  BY <1>1, PartsCount, Counted
<1>3. nodes \in [Lists -> Seq(Keys)] /\ Len(nodes[l]) \in Nat
  BY DEF Memory, Filled
<1>4. /\ state'[l] = "gone" /\ nodes'[l] = <<>> /\ lost' = lost
      /\ \A m \in Lists \ {l} : state'[m] = state[m] /\ nodes'[m] = nodes[m]
      /\ blocks' = blocks - 2 * Len(nodes[l]) - Len(Parts) /\ held' = held - Len(nodes[l])
  BY <1>1, <1>3 DEF Destroyed
<1>5. Filled'
  <2>1. nodes' = [nodes EXCEPT ![l] = <<>>]
    BY DEF Destroyed
  <2>2. nodes' \in [Lists -> Seq(Keys)]
    BY <1>3, <2>1
  <2>3. Len(nodes'[l]) = 0
    BY <1>4
  <2>4. ASSUME NEW m \in Lists
        PROVE  Len(nodes'[m]) <= MaxLen
    <3>1. CASE m = l
      BY <2>3, <3>1
    <3>2. CASE m # l
      <4>1. nodes'[m] = nodes[m] /\ Len(nodes[m]) <= MaxLen
        BY <1>4, <3>2 DEF Memory, Filled
      <4> QED BY <4>1, Zenon
    <3> QED BY <3>1, <3>2
  <2>5. \A m \in Lists : state'[m] # "live" => nodes'[m] = <<>>
    BY <1>4 DEF Memory, Filled
  <2> QED BY <1>4, <2>2, <2>4, <2>5 DEF Memory, Filled
<1>6. Moves(l)
  BY <1>2, <1>3, <1>4 DEF Moves, NodesIn, BlocksIn
<1> QED BY <1>2, <1>3, <1>4, <1>5, <1>6 DEF MemoryStep

(* The nodes of one list change, with two blocks each.                       *)
Contents(l, s) ==
    /\ Len(s) <= MaxLen /\ lost' \in 0 .. MaxLost
    /\ nodes' = [nodes EXCEPT ![l] = s]
    /\ held' = held + (lost' - lost) + (Len(s) - Len(nodes[l]))
    /\ blocks' = blocks + 2 * (Len(s) - Len(nodes[l]))

LEMMA ContentsMove ==
    ASSUME IInv, Memory, build' = build, state' = state,
           NEW l \in Lists, state[l] = "live", NEW s \in Seq(Keys), Contents(l, s)
    PROVE  MemoryStep
<1>1. build \in Builds /\ nodes \in [Lists -> Seq(Keys)] /\ Len(nodes[l]) \in Nat
  <2>1. build \in Builds /\ nodes \in [Lists -> Seq(Keys)]
    BY DEF IInv, Typed, Memory, Filled
  <2> QED BY <2>1
<1>2. Len(Parts) \in Nat /\ held \in Nat /\ blocks \in Nat /\ lost \in Nat /\ Len(s) \in Nat
  BY <1>1, PartsCount, Counted
<1>3. nodes'[l] = s /\ \A m \in Lists \ {l} : nodes'[m] = nodes[m]
  BY <1>1 DEF Contents
<1>4. nodes' \in [Lists -> Seq(Keys)]
  BY <1>1 DEF Contents
<1>5. Filled'
  BY <1>3, <1>4 DEF Memory, Filled, Contents
<1>6. Moves(l)
  <2> DEFINE old == Len(nodes[l])
             new == Len(s)
             size == Len(Parts)
             h2   == held'
             b2   == blocks'
             l2   == lost'
  <2>1. \A m \in Lists \ {l} : state'[m] = state[m] /\ nodes'[m] = nodes[m]
    BY <1>3
  <2>2. /\ NodesIn(state'[l], nodes'[l]) = new /\ NodesIn(state[l], nodes[l]) = old
        /\ BlocksIn(state'[l], nodes'[l]) = size + 2 * new
        /\ BlocksIn(state[l], nodes[l]) = size + 2 * old
    BY <1>3 DEF NodesIn, BlocksIn
  <2>3. /\ old \in Nat /\ new \in Nat /\ size \in Nat /\ l2 \in Nat
        /\ held \in Nat /\ blocks \in Nat /\ lost \in Nat
    BY <1>1, <1>2 DEF Contents
  <2>4. h2 = held + (l2 - lost) + (new - old) /\ b2 = blocks + 2 * (new - old)
    BY DEF Contents
  <2> HIDE DEF old, new, size, h2, b2, l2
  <2>5. /\ h2 - l2 = held - lost + new - old
        /\ b2 = blocks + (size + 2 * new) - (size + 2 * old)
    BY <2>3, <2>4
  <2>6. /\ held' - lost' = held - lost + new - old
        /\ blocks' = blocks + (size + 2 * new) - (size + 2 * old)
    BY <2>5, Zenon DEF h2, b2, l2
  <2> QED BY <2>1, <2>2, <2>6, Zenon DEF Moves
<1>7. held' \in Int
  <2> DEFINE old == Len(nodes[l])
  <2> HIDE DEF old
  <2> QED BY <1>1, <1>2 DEF Contents, old
<1> QED BY <1>1, <1>2, <1>5, <1>6, <1>7 DEF MemoryStep

LEMMA InsertMoves ==
    ASSUME IInv, Memory, NEW t \in Threads, NEW l \in Lists, NEW k \in Keys, Insert(t, l, k)
    PROVE  MemoryStep
<1>1. /\ state[l] = "live" /\ Len(nodes[l]) < MaxLen /\ UNCHANGED <<build, state, lost>>
      /\ build \in Builds /\ nodes \in [Lists -> Seq(Keys)] /\ nodes[l] \in Seq(Keys)
      /\ lost \in 0 .. MaxLost
  BY DEF Insert, IInv, Typed, Memory, Filled
<1>2. CASE nodes' = [nodes EXCEPT ![l] = Into(@, k)] /\ blocks' = blocks + 2 /\ held' = held + 1
  <2> DEFINE s == Into(nodes[l], k)
  <2>1. s \in Seq(Keys) /\ Len(s) = Len(nodes[l]) + 1
    BY <1>1, IntoGrows
  <2>2. nodes' = [nodes EXCEPT ![l] = s]
    BY <1>2
  <2> HIDE DEF s
  <2>3. held \in Nat /\ blocks \in Nat /\ lost \in Nat /\ Len(nodes[l]) \in Nat
    BY <1>1, Counted
  <2>4. /\ Len(s) <= MaxLen
        /\ held' = held + (lost' - lost) + (Len(s) - Len(nodes[l]))
        /\ blocks' = blocks + 2 * (Len(s) - Len(nodes[l]))
    BY <1>1, <1>2, <2>1, <2>3
  <2> QED BY <1>1, <2>1, <2>2, <2>4, ContentsMove DEF Contents
<1>3. CASE UNCHANGED <<nodes, blocks, held>>
  BY <1>1, <1>3, NothingMoves
<1> QED BY <1>2, <1>3, Zenon DEF Insert

LEMMA DeleteMoves ==
    ASSUME IInv, Memory, NEW t \in Threads, NEW l \in Lists, NEW k \in Keys, Delete(t, l, k)
    PROVE  MemoryStep
<1>1. /\ state[l] = "live" /\ Contains(nodes[l], k) /\ UNCHANGED <<build, state>>
      /\ build \in Builds /\ nodes \in [Lists -> Seq(Keys)] /\ nodes[l] \in Seq(Keys)
      /\ lost \in 0 .. MaxLost /\ Len(nodes[l]) <= MaxLen
      /\ nodes' = [nodes EXCEPT ![l] = RemoveFirst(@, k)] /\ blocks' = blocks - 2
  BY DEF Delete, IInv, Typed, Memory, Filled
<1> DEFINE s == RemoveFirst(nodes[l], k)
<1>2. s \in Seq(Keys) /\ Len(s) = Len(nodes[l]) - 1
  BY <1>1, RemoveShrinks
<1>3. nodes' = [nodes EXCEPT ![l] = s]
  BY <1>1
<1> HIDE DEF s
<1>4. held \in Nat /\ blocks \in Nat /\ lost \in Nat /\ Len(nodes[l]) \in Nat
  BY <1>1, Counted
<1>5. \/ held' = held - 1 /\ lost' = lost
      \/ held' = held /\ lost < MaxLost /\ lost' = lost + 1
  BY Zenon DEF Delete
<1>6. /\ Len(s) <= MaxLen /\ lost' \in 0 .. MaxLost
      /\ held' = held + (lost' - lost) + (Len(s) - Len(nodes[l]))
      /\ blocks' = blocks + 2 * (Len(s) - Len(nodes[l]))
  BY <1>1, <1>2, <1>4, <1>5
<1> QED BY <1>1, <1>2, <1>3, <1>6, ContentsMove DEF Contents

LEMMA FillMoves ==
    ASSUME IInv, Memory, NEW t \in Threads, NEW l \in Lists, state[l] = "live",
           NEW src \in Seq(Keys), NEW mode, Fill(t, l, src, mode)
    PROVE  MemoryStep
<1> DEFINE part == Joined(nodes[l], src, mode)
           full == part[Len(src)]
<1>1. /\ UNCHANGED <<build, state>> /\ build \in Builds /\ Len(full) <= MaxLen
      /\ nodes \in [Lists -> Seq(Keys)] /\ nodes[l] \in Seq(Keys) /\ lost \in 0 .. MaxLost
  BY Zenon DEF Fill, IInv, Typed, Memory, Filled
<1>2. /\ \A p \in 0 .. Len(src) : part[p] \in Seq(Keys) /\ Len(part[p]) <= Len(full)
      /\ Len(src) \in Nat /\ Len(src) \in 0 .. Len(src) /\ full \in Seq(Keys)
  BY <1>1, JoinedGrows
<1>3. held \in Nat /\ blocks \in Nat /\ lost \in Nat /\ Len(nodes[l]) \in Nat
  BY <1>1, Counted
<1>4. \/ /\ nodes' = [nodes EXCEPT ![l] = full]
         /\ blocks' = blocks + 2 * (Len(full) - Len(nodes[l]))
         /\ held' = held + Len(full) - Len(nodes[l]) /\ lost' = lost
      \/ \E p \in 0 .. Len(src) - 1 :
            /\ nodes' = [nodes EXCEPT ![l] = part[p]]
            /\ blocks' = blocks + 2 * (Len(part[p]) - Len(nodes[l]))
            /\ held' = held + Len(part[p]) - Len(nodes[l]) + 1
            /\ lost < MaxLost /\ lost' = lost + 1
  BY Zenon DEF Fill
<1> HIDE DEF part, full
<1>5. CASE /\ nodes' = [nodes EXCEPT ![l] = full]
           /\ blocks' = blocks + 2 * (Len(full) - Len(nodes[l]))
           /\ held' = held + Len(full) - Len(nodes[l]) /\ lost' = lost
  <2>1. Len(full) \in Nat
    BY <1>2
  <2>2. held' = held + (lost' - lost) + (Len(full) - Len(nodes[l])) /\ lost' \in 0 .. MaxLost
    BY <1>1, <1>3, <1>5, <2>1
  <2> QED BY <1>1, <1>2, <1>5, <2>2, ContentsMove DEF Contents
<1>6. ASSUME NEW p \in 0 .. Len(src) - 1,
             nodes' = [nodes EXCEPT ![l] = part[p]],
             blocks' = blocks + 2 * (Len(part[p]) - Len(nodes[l])),
             held' = held + Len(part[p]) - Len(nodes[l]) + 1,
             lost < MaxLost, lost' = lost + 1
      PROVE  MemoryStep
  <2> DEFINE s == part[p]
  <2>1. p \in 0 .. Len(src)
    BY <1>2
  <2>2. s \in Seq(Keys) /\ Len(s) <= Len(full)
    BY <1>2, <2>1
  <2>3. /\ nodes' = [nodes EXCEPT ![l] = s] /\ blocks' = blocks + 2 * (Len(s) - Len(nodes[l]))
        /\ held' = held + Len(s) - Len(nodes[l]) + 1
    BY <1>6
  <2> HIDE DEF s
  <2>4. Len(s) \in Nat /\ Len(full) \in Nat
    BY <1>2, <2>2
  <2>5. /\ Len(s) <= MaxLen /\ lost' \in 0 .. MaxLost
        /\ held' = held + (lost' - lost) + (Len(s) - Len(nodes[l]))
    BY <1>1, <1>3, <1>6, <2>2, <2>3, <2>4, SMTT(30)
  <2> QED BY <1>1, <2>2, <2>3, <2>5, ContentsMove DEF Contents
<1> QED BY <1>4, <1>5, <1>6

LEMMA OnListsMoves ==
    ASSUME Cautious, IInv, Memory, NEW t \in Threads, OnLists(t)
    PROVE  Memory'
<1>1. build \in Builds /\ build' = build /\ (HasArray' <=> HasArray)
  <2>1. ListsStep(t)
    BY OnListsSteps DEF IInv
  <2> QED BY <2>1, ListsLeaveArray DEF ListsStep, IInv, Typed
<1>2. nodes \in [Lists -> Seq(Keys)]
  BY DEF Memory, Filled
<1>3. ASSUME NEW l \in Lists, Destroy(t, l)
      PROVE  MemoryStep
  <2>1. state[l] = "live" /\ dst[l] /\ build' = build
    BY <1>3 DEF Destroy, IInv, Made
  <2>2. Destroyed(l)
    BY <1>3, <2>1, Zenon DEF Destroy
  <2> QED BY <2>1, <2>2, DestroyedMoves
<1>4. ASSUME NEW l \in Lists, NEW m \in Lists, JoinND(t, l, m)
      PROVE  MemoryStep
  <2>1. state[l] = "live" /\ dst[l] /\ nodes[m] \in Seq(Keys)
    BY <1>2, <1>4 DEF JoinND, AllLive, IInv, Made
  <2>2. Fill(t, l, nodes[m], "ND")
    BY <1>4, <2>1, Zenon DEF JoinND
  <2> QED BY <2>1, <2>2, FillMoves
<1>5. ASSUME NEW l \in Lists, NEW m \in Lists, JoinAD(t, l, m) \/ Copy(t, m, l)
      PROVE  MemoryStep
  <2>1. state[l] = "live" /\ nodes[m] \in Seq(Keys) /\ Fill(t, l, nodes[m], "AD")
    BY <1>2, <1>5 DEF JoinAD, Copy, AllLive
  <2> QED BY <2>1, FillMoves
<1>6. ASSUME NEW l \in Lists, NEW m \in Lists, NEW n \in Lists, Intersect(t, l, m, n)
      PROVE  MemoryStep
  <2>1. state[n] = "live" /\ Fill(t, n, Common(nodes[l], nodes[m]), "AD")
    BY <1>6 DEF Intersect, AllLive
  <2>2. Common(nodes[l], nodes[m]) \in Seq(Keys)
    BY <1>2, CommonTyped
  <2> QED BY <2>1, <2>2, FillMoves
<1>7. MemoryStep
  BY <1>3, <1>4, <1>5, <1>6, InitListMoves, InsertMoves, DeleteMoves DEF OnLists
<1> QED BY <1>1, <1>7, MovesKeep DEF MemoryStep

(* The array is there while anyone adds a list.                              *)
LEMMA AddingHas ==
    ASSUME IInv, NEW t \in Threads, th[t].pc \in Adding
    PROVE  HasArray
<1>1. lc.acl # NoArray
  BY DEF IInv, Placed, AddingOne
<1>2. ASSUME NEW u \in Threads
      PROVE  th[u].pc # "reset"
  BY DEF IInv, Placed, Alone, Adding, Inside, Ending
<1> QED BY <1>1, <1>2 DEF HasArray

LEMMA StillAdding ==
    ASSUME IInv', NEW t \in Threads, th'[t].pc \in Adding
    PROVE  HasArray'
<1>1. lc'.acl # NoArray
  BY DEF IInv, Placed, AddingOne
<1>2. ASSUME NEW u \in Threads
      PROVE  th'[u].pc # "reset"
  BY DEF IInv, Placed, Alone, Adding, Inside, Ending
<1> QED BY <1>1, <1>2 DEF HasArray

LEMMA InitContainerMemory ==
    ASSUME Cautious, IInv, Memory, NEW t \in Threads, InitContainer(t)
    PROVE  Memory'
<1>1. /\ lc.acl = NoArray /\ build \in Builds /\ lc.max_lists \in Nat
      /\ \A u \in Threads : th[u].pc = "run"
      /\ UNCHANGED <<build, state, nodes, held, lost>>
  BY DEF InitContainer, Call, Cautious, Alone, IInv, Typed
<1>2. Filled' /\ NodesInLists' = NodesInLists /\ BlocksInLists' = BlocksInLists
  BY <1>1, SameLists
<1>3. ArrayBlock = 0
  BY <1>1 DEF ArrayBlock, HasArray
<1> DEFINE size == lc.max_lists + LC_MSTL
           new  == [i \in 1 .. size |-> UNSET]
<1>4. CASE lc' = [lc EXCEPT !.mode = "LC_FULL", !.acl = new] /\ blocks' = blocks + 1 /\ UNCHANGED th
  <2>1. size \in Nat /\ size > 0
    BY <1>1
  <2>2. new # NoArray
    <3> HIDE DEF size
    <3>1. Len(new) # 0
      BY <2>1, NewArray
    <3> HIDE DEF new
    <3> QED BY <3>1 DEF NoArray
  <2> HIDE DEF new
  <2>3. lc'.acl = new
    BY <1>4 DEF IInv, Typed
  <2>4. HasArray'
    BY <1>1, <1>4, <2>2, <2>3 DEF HasArray
  <2>5. ArrayBlock' = 1
    BY <2>4 DEF ArrayBlock
  <2>6. blocks = BlocksInLists /\ blocks \in Nat
    BY <1>1, <1>3, Counted DEF Memory
  <2> QED BY <1>1, <1>2, <1>4, <2>5, <2>6 DEF Memory
<1>5. CASE lc' = [lc EXCEPT !.mode = "LC_FULL", !.acl = NoArray] /\ UNCHANGED blocks
  <2>1. lc'.acl = NoArray
    BY <1>5 DEF IInv, Typed
  <2>2. ArrayBlock' = 0
    BY <2>1 DEF ArrayBlock, HasArray
  <2> QED BY <1>1, <1>2, <1>3, <1>5, <2>2 DEF Memory
<1> QED BY <1>4, <1>5, Zenon DEF InitContainer

LEMMA FreeMemory ==
    ASSUME Cautious, IInv, Memory, NEW t \in Threads, Free(t)
    PROVE  Memory'
<1>1. th[t].pc = "run" /\ Alone(t) /\ UNCHANGED <<build, lists, lc>>
  BY DEF Free, Call, Cautious, MayEnd, quiet, cont
<1> DEFINE p == IF lc.acl # NoArray THEN "sweep" ELSE "reset"
<1>2. [Running EXCEPT !.pc = p] = [pc |-> p, l |-> NULL, i |-> 0, fatal |-> FALSE]
  <2> HIDE DEF p
  <2> QED BY Began
<1>3. Ends(t)
  BY <1>1, <1>2, Zenon DEF Ends, Free
<1>4. HasArray' <=> HasArray
  BY <1>1, <1>3, EndsLeaves DEF IInv
<1> QED BY <1>1, <1>4, SameMemory DEF lists

LEMMA PushMemory ==
    ASSUME Cautious, IInv, IInv', Memory, NEW t \in Threads, NEW l \in Lists, Push(t, l)
    PROVE  Memory'
<1>1. /\ th[t].pc = "run" /\ UNCHANGED <<build, lists, lc>>
      /\ \A u \in Threads : th[u].pc # "reset"
  BY DEF Push, Call, Cautious, quiet, cont
<1>2. HasArray' <=> HasArray
  <2>1. CASE lc.acl # NoArray
    <3> DEFINE next == [Running EXCEPT !.pc = "lock", !.l = l]
    <3>1. next.pc = "lock"
      BY Began
    <3>2. th' = [th EXCEPT ![t] = next]
      BY <2>1, Zenon DEF Push
    <3> HIDE DEF next
    <3>3. th'[t].pc = "lock"
      BY <3>1, <3>2 DEF IInv, Typed
    <3>4. HasArray'
      BY <3>3, StillAdding DEF Adding
    <3> QED BY <1>1, <2>1, <3>4 DEF HasArray
  <2>2. CASE lc.acl = NoArray
    BY <1>1, <2>2 DEF HasArray
  <2> QED BY <2>1, <2>2
<1> QED BY <1>1, <1>2, SameMemory DEF lists

(* Lock, Grow, Store and Unlock, in which the array stays.                   *)
LEMMA AddingMemory ==
    ASSUME IInv, IInv', Memory, NEW t \in Threads,
           Lock(t) \/ Grow(t) \/ Store(t) \/ Unlock(t)
    PROVE  Memory'
<1>1. th[t].pc \in Adding /\ UNCHANGED build
  BY Zenon DEF Lock, Grow, Store, Unlock, Adding, Inside, quiet
<1>2. HasArray
  BY <1>1, AddingHas
<1>3. UNCHANGED lists
  BY Zenon DEF Lock, Grow, Store, Unlock, Fault, quiet
<1>4. CASE th'[t].pc \in Adding
  BY <1>1, <1>2, <1>3, <1>4, StillAdding, SameMemory
<1>5. CASE th'[t].pc \notin Adding
  <2>1. Unlock(t)
    <3>1. Lock(t) => th'[t].pc \in Adding
      BY DEF Lock, Goto, IInv, Typed, Adding, Inside
    <3>2. Grow(t) => th'[t].pc \in Adding
      BY DEF Grow, Goto, IInv, Typed, Adding, Inside
    <3>3. Store(t) => th'[t].pc \in Adding
      BY DEF Store, Fault, IInv, Typed, Adding, Inside
    <3> QED BY <1>5, <3>1, <3>2, <3>3
  <2>2. lc'.acl = lc.acl
    BY <2>1 DEF Unlock, IInv, Typed
  <2>3. th' = [th EXCEPT ![t] = Running]
    BY <2>1 DEF Unlock
  <2>4. \A u \in Threads : th'[u].pc # "reset"
    BY <1>2, <2>3 DEF HasArray, IInv, Typed, Running
  <2>5. HasArray'
    BY <1>2, <2>2, <2>4 DEF HasArray
  <2> QED BY <1>1, <1>2, <1>3, <2>5, SameMemory
<1> QED BY <1>4, <1>5

LEMMA SweepMemory ==
    ASSUME IInv, Memory, NEW t \in Threads, Sweep(t)
    PROVE  Memory'
<1>1. /\ th[t].pc = "sweep" /\ th[t].i < lc.lists_cnt /\ build' = build /\ build \in Builds
      /\ th[t].i \in Nat /\ lc.lists_cnt \in Nat /\ Kept(th[t].i)
  BY DEF Sweep, SweepOn, IInv, Typed, Swept
<1> DEFINE j == th[t].i + 1
           l == lc.acl[j]
<1>2. j \in th[t].i + 1 .. lc.lists_cnt
  BY <1>1
<1>3. l \in added /\ state[l] = "live" /\ l \in Lists /\ dst[l]
  BY <1>1, <1>2 DEF Kept, IInv, Typed, Made
<1>4. /\ Destroyed(l) /\ lc' = [lc EXCEPT !.acl[j] = NULL] /\ th' = [th EXCEPT ![t].i = j]
  <2>1. ~(l = UNSET \/ l = NULL \/ (l \in Lists /\ state[l] = "gone"))
    BY <1>3
  <2> QED BY <1>3, <2>1, Zenon DEF Sweep
<1>5. MemoryStep
  BY <1>1, <1>3, <1>4, DestroyedMoves
<1>6. HasArray
  <2>1. lc.acl # NoArray /\ \A u \in Threads \ {t} : th[u].pc = "run"
    BY <1>1, WhileEnding DEF IInv, Placed, Ending
  <2> QED BY <1>1, <2>1 DEF HasArray
<1>7. HasArray'
  <2>1. \A u \in Threads : th'[u].pc = th[u].pc
    BY <1>4 DEF IInv, Typed
  <2>2. lc'.acl = [lc.acl EXCEPT ![j] = NULL]
    <3> HIDE DEF j
    <3> QED BY <1>4 DEF IInv, Typed
  <2>3. lc.acl \in Seq(Entries) /\ lc.acl # NoArray /\ NULL \in Entries
    BY <1>6 DEF HasArray, IInv, Typed, Entries
  <2>4. j \in 1 .. Len(lc.acl)
    BY <1>1, <1>2, <1>6 DEF HasArray, IInv, Typed, Sized
  <2>5. lc'.acl # NoArray
    <3> HIDE DEF j
    <3>1. DOMAIN lc'.acl = DOMAIN lc.acl
      BY <2>2
    <3>2. j \in DOMAIN lc.acl /\ DOMAIN NoArray = {}
      BY <2>3, <2>4 DEF NoArray
    <3> QED BY <3>1, <3>2
  <2> QED BY <1>6, <2>1, <2>5 DEF HasArray
<1> QED BY <1>1, <1>5, <1>6, <1>7, MovesKeep DEF MemoryStep

LEMMA FreeArrayMemory ==
    ASSUME IInv, Memory, NEW t \in Threads, FreeArray(t)
    PROVE  Memory'
<1>1. /\ th[t].pc = "sweep" /\ blocks' = blocks - 1 /\ th' = [th EXCEPT ![t].pc = "reset"]
      /\ UNCHANGED <<build, state, nodes, held, lost>> /\ build \in Builds
  BY DEF FreeArray, Goto, IInv, Typed
<1>2. Filled' /\ NodesInLists' = NodesInLists /\ BlocksInLists' = BlocksInLists
  BY <1>1, SameLists
<1>3. ArrayBlock = 1
  <2>1. lc.acl # NoArray /\ \A u \in Threads \ {t} : th[u].pc = "run"
    BY <1>1, WhileEnding DEF IInv, Placed, Ending
  <2> QED BY <1>1, <2>1 DEF ArrayBlock, HasArray
<1>4. ArrayBlock' = 0
  <2>1. th'[t].pc = "reset"
    BY <1>1 DEF IInv, Typed
  <2> QED BY <2>1 DEF ArrayBlock, HasArray
<1> QED BY <1>1, <1>2, <1>3, <1>4, Counted DEF Memory

LEMMA ResetMemory ==
    ASSUME IInv, Memory, NEW t \in Threads, Reset(t)
    PROVE  Memory'
<1>1. th[t].pc = "reset" /\ lc'.acl = NoArray /\ UNCHANGED <<build, lists>>
  BY DEF Reset, Empty, NoContainer
<1>2. ~HasArray /\ ~HasArray'
  BY <1>1 DEF HasArray
<1> QED BY <1>1, <1>2, SameMemory

LEMMA InitMemory ==
    ASSUME Init
    PROVE  Memory
<1>1. Filled
  BY DEF Init, Filled
<1>2. Live = {} /\ ~HasArray
  BY DEF Init, Live, HasArray, NoContainer
<1>3. NodesInLists = 0 /\ BlocksInLists = 0
  <2>1. IsFiniteSet(Live)
    BY <1>2, FS_EmptySet
  <2> QED BY <1>2, <2>1, SumsUp DEF NodesInLists, BlocksInLists
<1> QED BY <1>1, <1>2, <1>3 DEF Init, Memory, ArrayBlock

LEMMA StepMemory ==
    ASSUME Cautious, IInv, IInv', Memory, [Next]_vars
    PROVE  Memory'
<1>1. CASE UNCHANGED vars
  <2>1. UNCHANGED <<build, lists>> /\ (HasArray' <=> HasArray)
    BY <1>1 DEF vars, cont, HasArray
  <2> QED BY <2>1, SameMemory
<1>2. ASSUME NEW t \in Users, OnLists(t)
      PROVE  Memory'
  BY <1>2, OnListsMoves
<1>3. ASSUME NEW t \in Threads, OnContainer(t)
      PROVE  Memory'
  BY <1>3, InitContainerMemory, FreeMemory, PushMemory, AddingMemory, SweepMemory,
     FreeArrayMemory, ResetMemory DEF OnContainer
<1> QED BY <1>1, <1>2, <1>3 DEF Next

LEMMA AlwaysMemory == Cautious => (Spec => [](IInv /\ Memory))
<1> SUFFICES ASSUME Cautious
             PROVE  Spec => [](IInv /\ Memory)
  OBVIOUS
<1>1. Init => IInv /\ Memory
  BY InitInv, InitMemory
<1>2. IInv /\ Memory /\ [Next]_vars => IInv' /\ Memory'
  BY StepInv, StepMemory
<1> QED BY <1>1, <1>2, PTL DEF Spec

(* Every block and every node is in a list, or is the container's array, or  *)
(* is one of the copies that failing joins lose, however many lists are made *)
(* and destroyed and wherever the memory runs out: init, destroy_node,       *)
(* destroy_hdr, join, intersect and _destroyListsContainer.                  *)
THEOREM Balanced == Cautious => (Spec => []NothingElseLost)
<1> SUFFICES ASSUME Cautious
             PROVE  Spec => []NothingElseLost
  OBVIOUS
<1>1. Spec => [](IInv /\ Memory)
  BY AlwaysMemory
<1>2. Memory => NothingElseLost
  BY DEF Memory, NothingElseLost, ArrayBlock, HasArray, NodesInLists, BlocksInLists,
         Lengths, Sizes, Live
<1> QED BY <1>1, <1>2, PTL

(* The state keeps its type: the counter of the container within the lists   *)
(* there are, no block and no node freed that was never allocated.           *)
THEOREM Typing == Cautious => (Spec => []TypeOK)
<1> SUFFICES ASSUME Cautious
             PROVE  Spec => []TypeOK
  OBVIOUS
<1>1. Spec => [](IInv /\ Memory)
  BY AlwaysMemory
<1>2. ASSUME IInv, Memory
      PROVE  TypeOK
  <2>1. /\ build \in Builds /\ state \in [Lists -> {"none", "live", "gone"}]
        /\ dst \in [Lists -> BOOLEAN] /\ mtx_lock \in Threads \cup {NULL} /\ added \subseteq Lists
        /\ outcome \in {"running", "exited", "fault"} /\ lc.lists_cnt \in Nat
    BY <1>2 DEF IInv, Typed
  <2>2. \A l \in Lists : nodes[l] \in Seq(Keys) /\ Len(nodes[l]) <= MaxLen
    BY <1>2 DEF Memory, Filled
  <2>3. lc.lists_cnt \in 0 .. Cardinality(Lists)
    <3>1. /\ Cardinality(added) \in Nat /\ Cardinality(Lists) \in Nat
          /\ Cardinality(added) <= Cardinality(Lists)
      BY <2>1, FS_Subset, FS_CardinalityType
    <3>2. lc.lists_cnt <= Cardinality(added)
      BY <1>2 DEF IInv, Sized
    <3> QED BY <2>1, <3>1, <3>2
  <2>4. blocks \in Nat /\ held \in Nat /\ lost \in 0 .. MaxLost
    BY <1>2, <2>1, Counted DEF Memory, Filled
  <2> QED BY <2>1, <2>2, <2>3, <2>4 DEF TypeOK
<1> QED BY <1>1, <1>2, PTL
-----------------------------------------------------------------------------
(* The keys of a list stay in order                                          *)

Sorted(s) == \A i, j \in 1 .. Len(s) : i < j => s[i] <= s[j]

(* Pieces of a list, and two of them one behind the other.                    *)
LEMMA Piece ==
    ASSUME NEW s \in Seq(Keys), NEW a \in 1 .. Len(s) + 1, NEW b \in 0 .. Len(s), a <= b + 1
    PROVE  /\ SubSeq(s, a, b) \in Seq(Keys) /\ Len(SubSeq(s, a, b)) = b - a + 1
           /\ \A i \in 1 .. b - a + 1 : SubSeq(s, a, b)[i] = s[a + i - 1]
<1>1. a \in Int /\ b \in Int /\ \A i \in a .. b : s[i] \in Keys
  OBVIOUS
<1>2. /\ SubSeq(s, a, b) \in Seq(Keys)
      /\ Len(SubSeq(s, a, b)) = IF a <= b THEN b - a + 1 ELSE 0
      /\ \A i \in 1 .. b - a + 1 : SubSeq(s, a, b)[i] = s[a + i - 1]
  BY <1>1, SubSeqProperties, SMTT(30)
<1> QED BY <1>1, <1>2

Glue(r, a, b) ==
    /\ r \in Seq(Keys) /\ Len(r) = Len(a) + Len(b)
    /\ \A i \in 1 .. Len(a) : r[i] = a[i]
    /\ \A i \in 1 .. Len(b) : r[Len(a) + i] = b[i]

LEMMA Glued ==
    ASSUME NEW a \in Seq(Keys), NEW b \in Seq(Keys)
    PROVE  Glue(a \o b, a, b)
<1> DEFINE m == Len(a)
           n == Len(b)
           r == a \o b
<1>1. m \in Nat /\ n \in Nat
  OBVIOUS
<1>2. /\ r \in Seq(Keys) /\ Len(r) = m + n
      /\ \A i \in 1 .. m + n : r[i] = IF i <= m THEN a[i] ELSE b[i - m]
  BY ConcatProperties, Zenon
<1> HIDE DEF m, n, r
<1>3. \A i \in 1 .. m : r[i] = a[i]
  BY <1>1, <1>2
<1>4. ASSUME NEW i \in 1 .. n
      PROVE  r[m + i] = b[i]
  <2>1. m + i \in 1 .. m + n /\ ~(m + i <= m) /\ (m + i) - m = i
    BY <1>1
  <2> QED BY <1>2, <2>1
<1>5. Glue(r, a, b)
  BY <1>2, <1>3, <1>4 DEF m, n, Glue
<1> QED BY <1>5 DEF r

(* Where an insertion puts the new key, and the others.                      *)
Holds(r, s, p, k) ==
    /\ r \in Seq(Keys) /\ Len(r) = Len(s) + 1
    /\ \A i \in 1 .. p : r[i] = s[i]
    /\ r[p + 1] = k
    /\ \A i \in p + 1 .. Len(s) : r[i + 1] = s[i]

LEMMA InsertHolds ==
    ASSUME NEW s \in Seq(Keys), NEW p \in 0 .. Len(s), NEW k \in Keys
    PROVE  Holds(InsertAt(s, p + 1, k), s, p, k)
<1> DEFINE before == SubSeq(s, 1, p)
           one    == <<k>>
           behind == SubSeq(s, p + 1, Len(s))
           n      == Len(s)
<1>1. InsertAt(s, p + 1, k) = (before \o one) \o behind
  <2>1. (p + 1) - 1 = p
    OBVIOUS
  <2> QED BY <2>1 DEF InsertAt
<1>2. n \in Nat /\ p \in 0 .. n /\ p \in Nat
  OBVIOUS
<1>3. /\ before \in Seq(Keys) /\ Len(before) = p
      /\ \A i \in 1 .. p : before[i] = s[i]
  <2>1. /\ before \in Seq(Keys) /\ Len(before) = p - 1 + 1
        /\ \A i \in 1 .. p - 1 + 1 : before[i] = s[1 + i - 1]
    <3>1. 1 \in 1 .. Len(s) + 1 /\ p \in 0 .. Len(s) /\ 1 <= p + 1
      OBVIOUS
    <3> QED BY <3>1, Piece
  <2> HIDE DEF before
  <2> QED BY <1>2, <2>1
<1>4. /\ behind \in Seq(Keys) /\ Len(behind) = n - p
      /\ \A i \in 1 .. n - p : behind[i] = s[p + i]
  <2>1. /\ behind \in Seq(Keys) /\ Len(behind) = n - (p + 1) + 1
        /\ \A i \in 1 .. n - (p + 1) + 1 : behind[i] = s[(p + 1) + i - 1]
    <3>1. p + 1 \in 1 .. Len(s) + 1 /\ Len(s) \in 0 .. Len(s) /\ p + 1 <= Len(s) + 1
      OBVIOUS
    <3> QED BY <3>1, Piece
  <2> HIDE DEF behind, n
  <2>2. n - (p + 1) + 1 = n - p /\ \A i \in 1 .. n - p : (p + 1) + i - 1 = p + i
    BY <1>2
  <2> QED BY <2>1, <2>2
<1>5. one \in Seq(Keys) /\ Len(one) = 1 /\ one[1] = k
  OBVIOUS
<1> HIDE DEF before, one, behind, n
<1> DEFINE front == before \o one
           whole == front \o behind
<1>6. /\ front \in Seq(Keys) /\ Len(front) = p + 1
      /\ \A i \in 1 .. p : front[i] = before[i]
      /\ front[p + 1] = k
  <2>1. /\ front \in Seq(Keys) /\ Len(front) = Len(before) + Len(one)
        /\ \A i \in 1 .. Len(before) : front[i] = before[i]
        /\ \A i \in 1 .. Len(one) : front[Len(before) + i] = one[i]
    <3>1. Glue(before \o one, before, one)
      <4>1. before \in Seq(Keys) /\ one \in Seq(Keys)
        BY <1>3, <1>5
      <4> QED BY <4>1, Glued, Zenon
    <3>2. Glue(front, before, one)
      BY <3>1
    <3> HIDE DEF front
    <3> QED BY <3>2 DEF Glue
  <2> HIDE DEF front
  <2> QED BY <1>3, <1>5, <2>1
<1> HIDE DEF front
<1>7. /\ whole \in Seq(Keys) /\ Len(whole) = (p + 1) + (n - p)
      /\ \A i \in 1 .. p + 1 : whole[i] = front[i]
      /\ \A i \in 1 .. n - p : whole[(p + 1) + i] = behind[i]
  <2>1. /\ whole \in Seq(Keys) /\ Len(whole) = Len(front) + Len(behind)
        /\ \A i \in 1 .. Len(front) : whole[i] = front[i]
        /\ \A i \in 1 .. Len(behind) : whole[Len(front) + i] = behind[i]
    <3>1. Glue(front \o behind, front, behind)
      <4>1. front \in Seq(Keys) /\ behind \in Seq(Keys)
        BY <1>4, <1>6
      <4> QED BY <4>1, Glued, Zenon
    <3>2. Glue(whole, front, behind)
      BY <3>1
    <3> HIDE DEF whole
    <3> QED BY <3>2 DEF Glue
  <2> HIDE DEF whole
  <2> QED BY <1>4, <1>6, <2>1
<1> HIDE DEF whole
<1>8. ASSUME NEW i \in p + 1 .. n
      PROVE  whole[i + 1] = s[i]
  <2>1. PICK j \in 1 .. n - p : j = i - p
    BY <1>2
  <2>2. whole[(p + 1) + j] = behind[j] /\ behind[j] = s[p + j]
    BY <1>4, <1>7
  <2>3. (p + 1) + j = i + 1 /\ p + j = i
    BY <1>2, <2>1
  <2> QED BY <2>2, <2>3
<1>9. Holds(whole, s, p, k)
  <2>1. (p + 1) + (n - p) = n + 1
    BY <1>2
  <2>2. \A i \in 1 .. p : whole[i] = s[i]
    BY <1>2, <1>3, <1>6, <1>7
  <2>3. whole[p + 1] = k
    BY <1>2, <1>6, <1>7
  <2> QED BY <1>7, <1>8, <2>1, <2>2, <2>3 DEF Holds, n
<1> QED BY <1>1, <1>9 DEF whole, front

LEMMA KeysAreNumbers ==
    ASSUME NEW s \in Seq(Keys)
    PROVE  Len(s) \in Nat /\ DOMAIN s = 1 .. Len(s) /\ \A j \in 1 .. Len(s) : s[j] \in Nat
<1>1. Keys \subseteq Nat
  OBVIOUS
<1>2. \A j \in 1 .. Len(s) : s[j] \in Keys
  OBVIOUS
<1>3. DOMAIN s = 1 .. Len(s) /\ Len(s) \in Nat
  OBVIOUS
<1> QED BY <1>1, <1>2, <1>3

(* In a list that is in order the smaller keys come first.                   *)
LEMMA SmallerFirst ==
    ASSUME NEW s \in Seq(Keys), Sorted(s), NEW k \in Keys
    PROVE  \E p \in 0 .. Len(s) : /\ Cardinality({j \in DOMAIN s : s[j] < k}) = p
                                  /\ \A j \in 1 .. p : s[j] < k
                                  /\ \A j \in p + 1 .. Len(s) : k <= s[j]
<1> DEFINE n == Len(s)
           ends == {q \in 1 .. n + 1 : q = n + 1 \/ k <= s[q]}
<1>1. n \in Nat /\ DOMAIN s = 1 .. n /\ k \in Nat /\ \A j \in 1 .. n : s[j] \in Nat
  BY KeysAreNumbers
<1> HIDE DEF n
<1>2. PICK q \in ends : \A j \in ends : q <= j
  <2>1. ends \in SUBSET Nat /\ n + 1 \in ends
    BY <1>1
  <2> HIDE DEF ends
  <2> QED BY <2>1, LeastNumber
<1> DEFINE p == q - 1
<1>3. p \in 0 .. n /\ q = p + 1
  BY <1>1, <1>2
<1>4. \A j \in 1 .. p : s[j] < k
  BY <1>1, <1>2
<1>5. \A j \in p + 1 .. n : k <= s[j]
  BY <1>1, <1>2 DEF Sorted, n
<1> HIDE DEF p
<1>6. {j \in DOMAIN s : s[j] < k} = 1 .. p
  BY <1>1, <1>3, <1>4, <1>5
<1>7. Cardinality(1 .. p) = p
  BY <1>1, <1>3, FS_Interval
<1> QED BY <1>3, <1>4, <1>5, <1>6, <1>7 DEF n

(* A new key goes where it keeps the order.                                  *)
LEMMA IntoSorted ==
    ASSUME NEW s \in Seq(Keys), Sorted(s), NEW k \in Keys
    PROVE  /\ Sorted(Into(s, k))
           /\ \E p \in 0 .. Len(s) : Holds(Into(s, k), s, p, k)
<1>1. PICK p \in 0 .. Len(s) : /\ Cardinality({j \in DOMAIN s : s[j] < k}) = p
                               /\ \A j \in 1 .. p : s[j] < k
                               /\ \A j \in p + 1 .. Len(s) : k <= s[j]
  BY SmallerFirst
<1> DEFINE r == Into(s, k)
<1>2. Holds(r, s, p, k)
  <2>1. Into(s, k) = InsertAt(s, p + 1, k)
    BY <1>1 DEF Into
  <2> QED BY <2>1, InsertHolds
<1> HIDE DEF r
<1> DEFINE n == Len(s)
<1>3. /\ n \in Nat /\ p \in 0 .. n /\ \A j \in 1 .. n : s[j] \in Nat
      /\ k \in Nat /\ Len(r) = n + 1
  BY <1>2, KeysAreNumbers DEF Holds
<1>4. \A i \in 1 .. n + 1 : \/ i <= p /\ r[i] = s[i] /\ i \in 1 .. n
                            \/ i = p + 1 /\ r[i] = k
                            \/ i > p + 1 /\ r[i] = s[i - 1] /\ i - 1 \in p + 1 .. n
  <2> SUFFICES ASSUME NEW i \in 1 .. n + 1
               PROVE  \/ i <= p /\ r[i] = s[i] /\ i \in 1 .. n
                      \/ i = p + 1 /\ r[i] = k
                      \/ i > p + 1 /\ r[i] = s[i - 1] /\ i - 1 \in p + 1 .. n
    OBVIOUS
  <2>1. CASE i <= p
    BY <1>2, <1>3, <2>1 DEF Holds
  <2>2. CASE i = p + 1
    BY <1>2, <1>3, <2>2 DEF Holds
  <2>3. CASE i > p + 1
    <3>1. i - 1 \in p + 1 .. n /\ (i - 1) + 1 = i
      BY <1>3, <2>3
    <3> QED BY <1>2, <2>3, <3>1 DEF Holds
  <2> QED BY <1>3, <2>1, <2>2, <2>3
<1>5. /\ \A i, j \in 1 .. n : i < j => s[i] <= s[j]
      /\ \A j \in 1 .. p : s[j] < k
      /\ \A j \in p + 1 .. n : k <= s[j]
  BY <1>1 DEF Sorted
<1> HIDE DEF n
<1>6. ASSUME NEW i \in 1 .. n + 1, NEW j \in 1 .. n + 1, i < j
      PROVE  r[i] <= r[j]
  <2>1. CASE i <= p /\ r[i] = s[i] /\ i \in 1 .. n
    <3>1. \/ j <= p /\ r[j] = s[j] /\ j \in 1 .. n
          \/ r[j] = k
          \/ j > p + 1 /\ r[j] = s[j - 1] /\ j - 1 \in p + 1 .. n
      BY <1>4
    <3> QED BY <1>3, <1>5, <1>6, <2>1, <3>1
  <2>2. CASE i = p + 1 /\ r[i] = k
    <3>1. j > p + 1 /\ r[j] = s[j - 1] /\ j - 1 \in p + 1 .. n
      BY <1>3, <1>4, <1>6, <2>2
    <3> QED BY <1>5, <2>2, <3>1
  <2>3. CASE i > p + 1 /\ r[i] = s[i - 1] /\ i - 1 \in p + 1 .. n
    <3>1. j > p + 1 /\ r[j] = s[j - 1] /\ j - 1 \in p + 1 .. n
      BY <1>3, <1>4, <1>6, <2>3
    <3>2. i - 1 \in 1 .. n /\ j - 1 \in 1 .. n /\ i - 1 < j - 1
      BY <1>3, <1>6, <2>3, <3>1
    <3> QED BY <1>5, <2>3, <3>1, <3>2
  <2> QED BY <1>4, <2>1, <2>2, <2>3
<1>7. Sorted(r)
  BY <1>3, <1>6 DEF Sorted
<1> QED BY <1>2, <1>7 DEF r

(* Without the first of its keys equal to k.                                 *)
LEMMA RemovedSorted ==
    ASSUME NEW s \in Seq(Keys), Sorted(s), NEW k, Contains(s, k)
    PROVE  Sorted(RemoveFirst(s, k))
<1> DEFINE I == {i \in 1 .. Len(s) : s[i] = k}
           p == Min(I)
           n == Len(s)
<1>1. p \in 1 .. Len(s)
  <2>1. I \in SUBSET Nat /\ I # {}
    BY DEF Contains
  <2>2. p \in I
    <3> HIDE DEF I
    <3> QED BY <2>1, Least
  <2> QED BY <2>2
<1>2. RemoveFirst(s, k) = SubSeq(s, 1, p - 1) \o SubSeq(s, p + 1, Len(s))
  <2>1. \E i \in 1 .. Len(s) : s[i] = k
    BY DEF Contains
  <2>2. I # {}
    BY <2>1
  <2>3. SelectInSeq(s, LAMBDA v : v = k) = p
    BY <2>2, Zenon DEF SelectInSeq
  <2> QED BY <2>1, <2>3, Zenon DEF RemoveFirst, RemoveAt
<1> HIDE DEF p, I
<1> DEFINE before == SubSeq(s, 1, p - 1)
           behind == SubSeq(s, p + 1, n)
           r      == before \o behind
<1>3. n \in Nat /\ p \in 1 .. n /\ \A j \in 1 .. n : s[j] \in Nat
  BY <1>1, KeysAreNumbers
<1>4. /\ before \in Seq(Keys) /\ Len(before) = p - 1
      /\ \A i \in 1 .. p - 1 : before[i] = s[i]
      /\ behind \in Seq(Keys) /\ Len(behind) = n - p
      /\ \A i \in 1 .. n - p : behind[i] = s[p + i]
  <2>1. /\ before \in Seq(Keys) /\ Len(before) = (p - 1) - 1 + 1
        /\ \A i \in 1 .. (p - 1) - 1 + 1 : before[i] = s[1 + i - 1]
    <3>1. 1 \in 1 .. Len(s) + 1 /\ p - 1 \in 0 .. Len(s) /\ 1 <= (p - 1) + 1
      BY <1>1
    <3> QED BY <3>1, Piece
  <2>2. /\ behind \in Seq(Keys) /\ Len(behind) = n - (p + 1) + 1
        /\ \A i \in 1 .. n - (p + 1) + 1 : behind[i] = s[(p + 1) + i - 1]
    <3>1. p + 1 \in 1 .. Len(s) + 1 /\ Len(s) \in 0 .. Len(s) /\ p + 1 <= Len(s) + 1
      BY <1>1
    <3> QED BY <3>1, Piece
  <2> HIDE DEF before, behind, n
  <2>3. /\ (p - 1) - 1 + 1 = p - 1 /\ n - (p + 1) + 1 = n - p
        /\ \A i \in 1 .. p - 1 : 1 + i - 1 = i
        /\ \A i \in 1 .. n - p : (p + 1) + i - 1 = p + i
    BY <1>3
  <2> QED BY <2>1, <2>2, <2>3
<1> HIDE DEF before, behind
<1>5. /\ r \in Seq(Keys) /\ Len(r) = (p - 1) + (n - p)
      /\ \A i \in 1 .. p - 1 : r[i] = before[i]
      /\ \A i \in 1 .. n - p : r[(p - 1) + i] = behind[i]
  <2>1. /\ r \in Seq(Keys) /\ Len(r) = Len(before) + Len(behind)
        /\ \A i \in 1 .. Len(before) : r[i] = before[i]
        /\ \A i \in 1 .. Len(behind) : r[Len(before) + i] = behind[i]
    <3>1. Glue(before \o behind, before, behind)
      <4>1. before \in Seq(Keys) /\ behind \in Seq(Keys)
        BY <1>4
      <4> QED BY <4>1, Glued, Zenon
    <3>2. Glue(r, before, behind)
      BY <3>1
    <3> HIDE DEF r
    <3> QED BY <3>2 DEF Glue
  <2> HIDE DEF r, n
  <2> QED BY <1>4, <2>1
<1>6. \A i, j \in 1 .. n : i < j => s[i] <= s[j]
  BY DEF Sorted
<1> HIDE DEF n, r
<1>7. Len(r) = n - 1
  BY <1>3, <1>5
<1>8. \A i \in 1 .. n - 1 : (i < p /\ r[i] = s[i]) \/ (i >= p /\ r[i] = s[i + 1])
  <2> SUFFICES ASSUME NEW i \in 1 .. n - 1
               PROVE  (i < p /\ r[i] = s[i]) \/ (i >= p /\ r[i] = s[i + 1])
    OBVIOUS
  <2>1. CASE i < p
    <3>1. i \in 1 .. p - 1
      BY <1>3, <2>1
    <3> QED BY <1>4, <1>5, <2>1, <3>1
  <2>2. CASE i >= p
    <3>1. PICK j \in 1 .. n - p : j = i - (p - 1)
      BY <1>3, <2>2
    <3>2. r[(p - 1) + j] = behind[j] /\ behind[j] = s[p + j]
      BY <1>4, <1>5
    <3>3. (p - 1) + j = i /\ p + j = i + 1
      BY <1>3, <3>1
    <3> QED BY <2>2, <3>2, <3>3
  <2> QED BY <1>3, <2>1, <2>2
<1>9. ASSUME NEW i \in 1 .. n - 1, NEW j \in 1 .. n - 1, i < j
      PROVE  r[i] <= r[j]
  <2>1. i \in 1 .. n /\ j \in 1 .. n /\ i + 1 \in 1 .. n /\ j + 1 \in 1 .. n
    BY <1>3
  <2> QED BY <1>3, <1>6, <1>8, <1>9, <2>1
<1>10. Sorted(r)
  BY <1>7, <1>9 DEF Sorted
<1> QED BY <1>2, <1>10 DEF r, before, behind, n

-----------------------------------------------------------------------------
(* How often a key is in a list                                              *)

One(b) == IF b THEN 1 ELSE 0

(* And among its first p keys.                                               *)
CountTo(s, p, k) == Cardinality({j \in 1 .. p : s[j] = k})

LEMMA CountFacts ==
    ASSUME NEW s \in Seq(Keys), NEW k
    PROVE  /\ IsFiniteSet({j \in DOMAIN s : s[j] = k}) /\ Count(s, k) \in Nat
           /\ Count(s, k) = 0 <=> ~Contains(s, k)
           /\ Count(s, k) = CountTo(s, Len(s), k)
<1> DEFINE n == Len(s)
           A == {j \in 1 .. n : s[j] = k}
<1>1. n \in Nat /\ DOMAIN s = 1 .. n
  BY KeysAreNumbers
<1>2. Count(s, k) = Cardinality(A) /\ Count(s, k) = CountTo(s, Len(s), k)
  BY <1>1 DEF Count, CountTo
<1>3. Contains(s, k) <=> A # {}
  BY DEF Contains
<1> HIDE DEF n
<1>4. IsFiniteSet(A)
  BY <1>1, FS_Interval, FS_Subset
<1>5. {j \in DOMAIN s : s[j] = k} = A
  BY <1>1
<1> HIDE DEF A
<1>6. Cardinality(A) \in Nat /\ (Cardinality(A) = 0 <=> A = {})
  BY <1>4, FS_CardinalityType, FS_EmptySet
<1> QED BY <1>2, <1>3, <1>4, <1>5, <1>6

LEMMA CountingOn ==
    ASSUME NEW s \in Seq(Keys), NEW k
    PROVE  /\ CountTo(s, 0, k) = 0
           /\ \A p \in 1 .. Len(s) : CountTo(s, p, k) = CountTo(s, p - 1, k) + One(s[p] = k)
           /\ \A p \in 0 .. Len(s) : /\ CountTo(s, p, k) \in 0 .. Count(s, k)
                                     /\ CountTo(s, p, k) = 0 <=> \A j \in 1 .. p : s[j] # k
<1> DEFINE n == Len(s)
           To(p) == {j \in 1 .. p : s[j] = k}
<1>1. n \in Nat
  OBVIOUS
<1>2. To(0) = {}
  OBVIOUS
<1>3. \A p \in 0 .. n : IsFiniteSet(To(p)) /\ Cardinality(To(p)) \in Nat
  <2> SUFFICES ASSUME NEW p \in 0 .. n
               PROVE  IsFiniteSet(To(p)) /\ Cardinality(To(p)) \in Nat
    OBVIOUS
  <2>1. IsFiniteSet(1 .. p) /\ To(p) \in SUBSET (1 .. p)
    BY FS_Interval
  <2> HIDE DEF To
  <2> QED BY <2>1, FS_Subset, FS_CardinalityType
<1>4. CountTo(s, 0, k) = 0
  BY <1>2, FS_EmptySet DEF CountTo
<1>5. ASSUME NEW p \in 1 .. n
      PROVE  CountTo(s, p, k) = CountTo(s, p - 1, k) + One(s[p] = k)
  <2>1. p - 1 \in 0 .. n /\ p \notin To(p - 1)
    BY <1>1
  <2>2. To(p) = IF s[p] = k THEN To(p - 1) \cup {p} ELSE To(p - 1)
    <3>1. \A j \in 1 .. p : j \in 1 .. p - 1 \/ j = p
      BY <1>1
    <3>2. \A j \in 1 .. p - 1 : j \in 1 .. p
      BY <1>1
    <3>3. p \in 1 .. p
      BY <1>1
    <3> QED BY <3>1, <3>2, <3>3
  <2>3. CountTo(s, p, k) = Cardinality(To(p)) /\ CountTo(s, p - 1, k) = Cardinality(To(p - 1))
    BY DEF CountTo
  <2>4. IsFiniteSet(To(p - 1)) /\ Cardinality(To(p - 1)) \in Nat
    BY <1>3, <2>1
  <2> HIDE DEF To
  <2>5. Cardinality(To(p - 1) \cup {p}) = Cardinality(To(p - 1)) + 1
    BY <2>1, <2>4, FS_AddElement
  <2> QED BY <2>2, <2>3, <2>4, <2>5 DEF One
<1>6. ASSUME NEW p \in 0 .. n
      PROVE  /\ CountTo(s, p, k) \in 0 .. Count(s, k)
             /\ CountTo(s, p, k) = 0 <=> \A j \in 1 .. p : s[j] # k
  <2>1. To(p) \subseteq To(n)
    BY <1>1
  <2>2. /\ IsFiniteSet(To(p)) /\ Cardinality(To(p)) \in Nat
        /\ IsFiniteSet(To(n)) /\ Cardinality(To(n)) \in Nat
    <3>1. n \in 0 .. n
      BY <1>1
    <3> HIDE DEF To, n
    <3> QED BY <1>3, <3>1
  <2>3. CountTo(s, p, k) = Cardinality(To(p)) /\ Count(s, k) = Cardinality(To(n))
    BY CountFacts DEF CountTo
  <2>4. To(p) = {} <=> \A j \in 1 .. p : s[j] # k
    OBVIOUS
  <2> HIDE DEF To
  <2>5. Cardinality(To(p)) <= Cardinality(To(n))
    BY <2>1, <2>2, FS_Subset
  <2>6. Cardinality(To(p)) = 0 <=> To(p) = {}
    BY <2>2, FS_EmptySet
  <2> QED BY <2>2, <2>3, <2>4, <2>5, <2>6
<1> QED BY <1>4, <1>5, <1>6

(* A key that is put into a list is there once more, and the others are not  *)
(* lost.                                                                     *)
LEMMA CountHolds ==
    ASSUME NEW s \in Seq(Keys), NEW p \in 0 .. Len(s), NEW k, NEW r, Holds(r, s, p, k), NEW e
    PROVE  Count(r, e) = Count(s, e) + One(k = e)
<1> DEFINE n == Len(s)
           A == {j \in 1 .. n : s[j] = e}
           R == {j \in 1 .. n + 1 : r[j] = e}
           B == R \ {p + 1}
           f == [j \in A |-> IF j <= p THEN j ELSE j + 1]
<1>1. /\ n \in Nat /\ p \in 0 .. n /\ r \in Seq(Keys) /\ Len(r) = n + 1 /\ r[p + 1] = k
      /\ \A i \in 1 .. p : r[i] = s[i]
      /\ \A i \in p + 1 .. n : r[i + 1] = s[i]
  BY DEF Holds
<1>2. Count(s, e) = Cardinality(A) /\ Count(r, e) = Cardinality(R)
  <2>1. DOMAIN s = 1 .. n /\ DOMAIN r = 1 .. n + 1
    BY <1>1
  <2> QED BY <2>1 DEF Count
<1>3. IsFiniteSet(A) /\ IsFiniteSet(R)
  <2>1. DOMAIN s = 1 .. n /\ DOMAIN r = 1 .. n + 1
    BY <1>1
  <2>2. IsFiniteSet({j \in DOMAIN s : s[j] = e}) /\ IsFiniteSet({j \in DOMAIN r : r[j] = e})
    BY <1>1, CountFacts
  <2> QED BY <2>1, <2>2
<1> HIDE DEF n
<1>4. ASSUME NEW j \in A
      PROVE  f[j] \in B
  <2>1. CASE j <= p
    <3>1. f[j] = j /\ j \in 1 .. p /\ j \in 1 .. n + 1 /\ j # p + 1
      BY <1>1, <2>1
    <3> QED BY <1>1, <3>1
  <2>2. CASE ~(j <= p)
    <3>1. f[j] = j + 1 /\ j \in p + 1 .. n /\ j + 1 \in 1 .. n + 1 /\ j + 1 # p + 1
      BY <1>1, <2>2
    <3> QED BY <1>1, <3>1
  <2> QED BY <2>1, <2>2
<1>5. f \in [A -> B]
  BY <1>4
<1>6. \A i, j \in A : f[i] = f[j] => i = j
  BY <1>1
<1>7. ASSUME NEW b \in B
      PROVE  \E j \in A : f[j] = b
  <2>1. CASE b <= p
    <3>1. b \in 1 .. p /\ b \in 1 .. n
      BY <1>1, <2>1
    <3>2. b \in A
      BY <1>1, <3>1
    <3>3. f[b] = b
      BY <2>1, <3>2
    <3> QED BY <3>2, <3>3
  <2>2. CASE ~(b <= p)
    <3>1. PICK j \in p + 1 .. n : b = j + 1
      <4>1. b - 1 \in p + 1 .. n /\ b = (b - 1) + 1
        BY <1>1, <2>2
      <4> QED BY <4>1
    <3>2. j \in 1 .. n /\ ~(j <= p)
      BY <1>1
    <3>3. j \in A
      BY <1>1, <3>1, <3>2
    <3>4. f[j] = b
      BY <3>1, <3>2, <3>3
    <3> QED BY <3>3, <3>4
  <2> QED BY <2>1, <2>2
<1> HIDE DEF A, f
<1>8. ExistsBijection(A, B)
  <2> HIDE DEF B
  <2>1. f \in Bijection(A, B)
    BY <1>5, <1>6, <1>7 DEF Bijection, Injection, Surjection, IsInjective
  <2> QED BY <2>1 DEF ExistsBijection
<1>9. Cardinality(B) = Cardinality(A)
  BY <1>3, <1>8, FS_Bijection
<1>10. Cardinality(B) = IF p + 1 \in R THEN Cardinality(R) - 1 ELSE Cardinality(R)
  <2> HIDE DEF R
  <2> QED BY <1>3, FS_RemoveElement
<1>11. p + 1 \in R <=> k = e
  BY <1>1
<1> HIDE DEF B, R
<1>12. Cardinality(A) \in Nat /\ Cardinality(R) \in Nat
  BY <1>3, FS_CardinalityType
<1> QED BY <1>2, <1>9, <1>10, <1>11, <1>12 DEF One

(* So it is of a join, one node after the other.                             *)
LEMMA CountInto ==
    ASSUME NEW s \in Seq(Keys), Sorted(s), NEW k \in Keys
    PROVE  /\ Into(s, k) \in Seq(Keys) /\ Sorted(Into(s, k))
           /\ \A e : Count(Into(s, k), e) = Count(s, e) + One(k = e)
<1>1. PICK p \in 0 .. Len(s) : Holds(Into(s, k), s, p, k)
  BY IntoSorted
<1>2. Sorted(Into(s, k))
  BY IntoSorted
<1>3. Into(s, k) \in Seq(Keys)
  BY <1>1 DEF Holds
<1> QED BY <1>1, <1>2, <1>3, CountHolds

(* What the copies of the first p nodes of s make of the target: in AD_MODE  *)
(* all of them are there, in ND_MODE one of those whose key was not.         *)
Took(target, s, mode, e, p) ==
    IF mode # "ND" THEN Count(target, e) + CountTo(s, p, e)
    ELSE IF Count(target, e) = 0 /\ CountTo(s, p, e) # 0 THEN 1 ELSE Count(target, e)

Joins(r, target, s, mode, p) ==
    Sorted(r) /\ \A e : Count(r, e) = Took(target, s, mode, e, p)

LEMMA JoinJoins ==
    ASSUME NEW target \in Seq(Keys), NEW s \in Seq(Keys), NEW mode, NEW p \in 1 .. Len(s),
           NEW r \in Seq(Keys), Joins(r, target, s, mode, p - 1)
    PROVE  Joins(Join(r, s[p], mode), target, s, mode, p)
<1> DEFINE k == s[p]
           q == Join(r, k, mode)
<1>1. k \in Keys
  OBVIOUS
<1>2. /\ Sorted(r) /\ \A e : Count(r, e) = Took(target, s, mode, e, p - 1)
      /\ \A e : Count(r, e) \in Nat /\ Count(target, e) \in Nat
      /\ Contains(r, k) <=> Count(r, k) # 0
  BY CountFacts DEF Joins
<1>3. \A e : /\ CountTo(s, p - 1, e) \in Nat
             /\ CountTo(s, p, e) = CountTo(s, p - 1, e) + One(k = e)
  <2> SUFFICES ASSUME NEW e
               PROVE  /\ CountTo(s, p - 1, e) \in Nat
                      /\ CountTo(s, p, e) = CountTo(s, p - 1, e) + One(k = e)
    OBVIOUS
  <2> DEFINE n == Len(s)
  <2>1. n \in Nat /\ p \in 1 .. n
    OBVIOUS
  <2>2. Count(s, e) \in Nat
    BY CountFacts
  <2>3. /\ \A i \in 1 .. n : CountTo(s, i, e) = CountTo(s, i - 1, e) + One(s[i] = e)
        /\ \A i \in 0 .. n : CountTo(s, i, e) \in 0 .. Count(s, e)
    BY CountingOn
  <2> HIDE DEF n
  <2>4. p - 1 \in 0 .. n
    BY <2>1
  <2> QED BY <2>1, <2>2, <2>3, <2>4
<1> HIDE DEF k
<1>4. CASE mode = "ND" /\ Contains(r, k)
  <2>1. Join(r, k, mode) = r
    BY <1>4 DEF Join
  <2>2. \A e : Took(target, s, mode, e, p) = Took(target, s, mode, e, p - 1)
    <3> SUFFICES ASSUME NEW e
                 PROVE  Took(target, s, mode, e, p) = Took(target, s, mode, e, p - 1)
      OBVIOUS
    <3>1. CASE e = k
      <4>1. Count(r, e) = Took(target, s, mode, e, p - 1) /\ Count(r, e) # 0
        BY <1>2, <1>4, <3>1
      <4> QED BY <1>2, <1>3, <1>4, <3>1, <4>1 DEF Took, One
    <3>2. CASE e # k
      BY <1>2, <1>3, <1>4, <3>2 DEF Took, One
    <3> QED BY <3>1, <3>2
  <2>3. \A e : Count(r, e) = Took(target, s, mode, e, p)
    BY <1>2, <2>2
  <2> QED BY <1>2, <2>1, <2>3 DEF Joins, k
<1>5. CASE ~(mode = "ND" /\ Contains(r, k))
  <2>1. Join(r, k, mode) = Into(r, k)
    BY <1>5 DEF Join
  <2>2. Sorted(Into(r, k)) /\ \A e : Count(Into(r, k), e) = Count(r, e) + One(k = e)
    BY <1>1, <1>2, CountInto
  <2>3. \A e : Took(target, s, mode, e, p) = Count(r, e) + One(k = e)
    <3> SUFFICES ASSUME NEW e
                 PROVE  Took(target, s, mode, e, p) = Count(r, e) + One(k = e)
      OBVIOUS
    <3>1. Count(r, e) = Took(target, s, mode, e, p - 1) /\ One(k = e) \in Nat
      BY <1>2 DEF One
    <3>2. CASE mode # "ND"
      <4>1. /\ Took(target, s, mode, e, p) = Count(target, e) + CountTo(s, p, e)
            /\ Took(target, s, mode, e, p - 1) = Count(target, e) + CountTo(s, p - 1, e)
        BY <3>2 DEF Took
      <4> QED BY <1>2, <1>3, <3>1, <4>1
    <3>3. CASE mode = "ND" /\ e # k
      BY <1>2, <1>3, <3>1, <3>3 DEF Took, One
    <3>4. CASE mode = "ND" /\ e = k
      <4>1. Count(r, e) = 0
        BY <1>2, <1>5, <3>4
      <4>2. Count(target, e) = 0 /\ CountTo(s, p - 1, e) = 0
        BY <1>2, <1>3, <3>1, <3>4, <4>1 DEF Took
      <4>3. One(k = e) = 1 /\ CountTo(s, p, e) = 1
        BY <1>3, <3>4, <4>2 DEF One
      <4> QED BY <3>4, <4>1, <4>2, <4>3 DEF Took
    <3> QED BY <3>2, <3>3, <3>4
  <2>4. \A e : Count(Into(r, k), e) = Took(target, s, mode, e, p)
    BY <2>2, <2>3
  <2> QED BY <2>1, <2>2, <2>4 DEF Joins, k
<1> QED BY <1>4, <1>5

LEMMA JoinedJoins ==
    ASSUME NEW target \in Seq(Keys), Sorted(target), NEW s \in Seq(Keys), NEW mode
    PROVE  \A p \in 0 .. Len(s) : Joins(Joined(target, s, mode)[p], target, s, mode, p)
<1> DEFINE n == Len(s)
           h == Joined(target, s, mode)
           holds == {p \in 0 .. n : Joins(h[p], target, s, mode, p)}
<1>1. n \in Nat /\ \A p \in 0 .. n : h[p] \in Seq(Keys)
  BY JoinedGrows
<1>2. h[0] = target /\ \A p \in 1 .. n : h[p] = Join(h[p - 1], s[p], mode)
  BY JoinedSteps
<1> HIDE DEF h
<1>3. 0 \in holds
  <2>1. \A e : Took(target, s, mode, e, 0) = Count(target, e)
    <3>1. \A e : CountTo(s, 0, e) = 0 /\ Count(target, e) \in Nat
      BY CountFacts, CountingOn
    <3> QED BY <3>1 DEF Took
  <2> QED BY <1>1, <1>2, <2>1 DEF Joins
<1>4. ASSUME NEW p \in 1 .. n, p - 1 \in holds
      PROVE  p \in holds
  <2>1. Joins(h[p - 1], target, s, mode, p - 1) /\ h[p - 1] \in Seq(Keys)
    BY <1>1, <1>4
  <2>2. Joins(Join(h[p - 1], s[p], mode), target, s, mode, p)
    BY <2>1, JoinJoins
  <2> QED BY <1>1, <1>2, <2>2
<1>5. \A p \in 0 .. n : p \in holds
  <2> HIDE DEF holds, n
  <2> QED BY <1>1, <1>3, <1>4, Upwards
<1> QED BY <1>5 DEF h

(* The keys equal to the one at i follow one another.                        *)
LEMMA AfterEqual ==
    ASSUME NEW s \in Seq(Keys), Sorted(s), NEW i \in 1 .. Len(s)
    PROVE  /\ After(s, i) \in i + 1 .. Len(s) + 1
           /\ \A a \in i .. After(s, i) - 1 : s[a] = s[i]
           /\ \A a \in After(s, i) .. Len(s) : s[i] < s[a]
<1> DEFINE n == Len(s)
           ends == {q \in i + 1 .. n + 1 : q = n + 1 \/ s[i] < s[q]}
<1>1. n \in Nat /\ \A j \in 1 .. n : s[j] \in Nat
  BY KeysAreNumbers
<1>2. i \in 1 .. n /\ \A a, b \in 1 .. n : a < b => s[a] <= s[b]
  BY DEF Sorted
<1> HIDE DEF n
<1>3. PICK q \in ends : \A j \in ends : q <= j
  <2>1. ends \in SUBSET Nat /\ n + 1 \in ends
    BY <1>1, <1>2
  <2> HIDE DEF ends
  <2> QED BY <2>1, LeastNumber
<1>4. q \in i + 1 .. n + 1 /\ q \in Nat /\ i \in Nat
  BY <1>1, <1>2
<1>5. \A a \in i .. q - 1 : s[a] = s[i]
  <2> SUFFICES ASSUME NEW a \in i .. q - 1
               PROVE  s[a] = s[i]
    OBVIOUS
  <2>1. a \in 1 .. n /\ s[a] \in Nat /\ s[i] \in Nat
    BY <1>1, <1>2, <1>4
  <2>2. CASE a = i
    BY <2>2
  <2>3. CASE a # i
    <3>1. a \in i + 1 .. n + 1 /\ a < q
      BY <1>1, <1>4, <2>1, <2>3
    <3>2. a \notin ends
      <4> HIDE DEF ends
      <4> QED BY <1>3, <1>4, <3>1
    <3>3. ~(s[i] < s[a]) /\ s[i] <= s[a]
      BY <1>2, <2>1, <3>1, <3>2
    <3> QED BY <2>1, <3>3
  <2> QED BY <2>2, <2>3
<1>6. \A a \in q .. n : s[i] < s[a]
  <2> SUFFICES ASSUME NEW a \in q .. n
               PROVE  s[i] < s[a]
    OBVIOUS
  <2>1. q \in 1 .. n /\ a \in 1 .. n /\ s[i] < s[q]
    BY <1>1, <1>2, <1>3, <1>4
  <2>2. s[q] <= s[a]
    BY <1>1, <1>2, <2>1
  <2> QED BY <1>1, <1>2, <2>1, <2>2
<1> DEFINE stops == {j \in i + 1 .. n + 1 : j > n \/ s[j] # s[j - 1]}
<1>7. q \in stops
  <2> SUFFICES ASSUME q <= n
               PROVE  s[q] # s[q - 1]
    BY <1>1, <1>4
  <2>1. q \in q .. n /\ q \in 1 .. n /\ q - 1 \in i .. q - 1
    BY <1>1, <1>2, <1>4
  <2>2. s[i] < s[q] /\ s[q - 1] = s[i] /\ s[q] \in Nat /\ s[i] \in Nat
    BY <1>1, <1>2, <1>5, <1>6, <2>1
  <2> QED BY <2>2
<1>8. ASSUME NEW j \in stops
      PROVE  q <= j
  <2> SUFFICES ASSUME j < q
               PROVE  FALSE
    BY <1>4
  <2>1. j \in i .. q - 1 /\ j - 1 \in i .. q - 1 /\ ~(j > n)
    BY <1>1, <1>2, <1>4
  <2>2. s[j] = s[i] /\ s[j - 1] = s[i]
    BY <1>5, <2>1
  <2> QED BY <2>1, <2>2
<1>9. After(s, i) = q
  <2>1. After(s, i) = Min(stops) /\ stops \subseteq Nat
    BY <1>1, <1>4 DEF After, n
  <2> HIDE DEF stops
  <2>2. Min(stops) \in stops /\ \A j \in stops : Min(stops) <= j
    BY <1>7, <1>8 DEF Min
  <2> DEFINE least == Min(stops)
  <2>3. least \in Nat /\ q \in Nat /\ least <= q /\ q <= least
    <3>1. least \in stops /\ least <= q
      BY <1>7, <2>2
    <3>2. q <= least
      BY <1>8, <3>1
    <3> QED BY <1>4, <2>1, <3>1, <3>2
  <2> HIDE DEF least
  <2>4. least = q
    BY <2>3
  <2> QED BY <2>1, <2>4 DEF least
<1> QED BY <1>4, <1>5, <1>6, <1>9 DEF n

LEMMA CountAppend ==
    ASSUME NEW s \in Seq(Keys), NEW k \in Keys
    PROVE  Append(s, k) \in Seq(Keys) /\ \A e : Count(Append(s, k), e) = Count(s, e) + One(k = e)
<1>1. Len(s) \in 0 .. Len(s) /\ ~\E i \in Len(s) + 1 .. Len(s) : TRUE
  OBVIOUS
<1>2. Holds(Append(s, k), s, Len(s), k)
  BY <1>1, AppendProperties DEF Holds
<1>3. \A e : Count(Append(s, k), e) = Count(s, e) + One(k = e)
  BY <1>1, <1>2, CountHolds
<1> QED BY <1>2, <1>3 DEF Holds

(* What the loop of intersect has found before the places i and j, and that  *)
(* nothing before them is equal to anything behind.                          *)
Before(s, i, e) == \E a \in 1 .. i - 1 : s[a] = e

Found(s1, s2, i, j, keys) ==
    /\ i \in 1 .. Len(s1) + 1 /\ j \in 1 .. Len(s2) + 1 /\ keys \in Seq(Keys)
    /\ \A a \in 1 .. i - 1, b \in j .. Len(s2) : s1[a] < s2[b]
    /\ \A a \in i .. Len(s1), b \in 1 .. j - 1 : s2[b] < s1[a]
    /\ \A e : Count(keys, e) = One(Before(s1, i, e) /\ Before(s2, j, e))

LEMMA FoundBoth ==
    ASSUME NEW s1 \in Seq(Keys), Sorted(s1), NEW s2 \in Seq(Keys), Sorted(s2),
           NEW i \in 1 .. Len(s1), NEW j \in 1 .. Len(s2), NEW keys,
           Found(s1, s2, i, j, keys), s1[i] = s2[j]
    PROVE  Found(s1, s2, After(s1, i), After(s2, j), Append(keys, s1[i]))
<1> DEFINE m == Len(s1)
           n == Len(s2)
           x == s1[i]
<1>1. /\ m \in Nat /\ \A a \in 1 .. m : s1[a] \in Nat
      /\ n \in Nat /\ \A b \in 1 .. n : s2[b] \in Nat
  BY KeysAreNumbers
<1>2. PICK p \in i + 1 .. m + 1 : /\ p = After(s1, i)
                                  /\ \A a \in i .. p - 1 : s1[a] = x
                                  /\ \A a \in p .. m : x < s1[a]
  BY AfterEqual
<1>3. PICK q \in j + 1 .. n + 1 : /\ q = After(s2, j)
                                  /\ \A b \in j .. q - 1 : s2[b] = x
                                  /\ \A b \in q .. n : x < s2[b]
  BY AfterEqual
<1>4. /\ i \in 1 .. m /\ j \in 1 .. n /\ x \in Keys /\ x = s1[i] /\ x = s2[j] /\ keys \in Seq(Keys)
      /\ \A a \in 1 .. i - 1, b \in j .. n : s1[a] < s2[b]
      /\ \A a \in i .. m, b \in 1 .. j - 1 : s2[b] < s1[a]
      /\ \A e : Count(keys, e) = One(Before(s1, i, e) /\ Before(s2, j, e))
  BY DEF Found
<1> HIDE DEF m, n, x
<1>5. p \in 1 .. m + 1 /\ q \in 1 .. n + 1 /\ p \in Nat /\ q \in Nat
  BY <1>1, <1>4
<1>6. \A a \in 1 .. p - 1 : a \in 1 .. i - 1 \/ a \in i .. p - 1
  BY <1>4, <1>5
<1>7. \A b \in 1 .. q - 1 : b \in 1 .. j - 1 \/ b \in j .. q - 1
  BY <1>4, <1>5
<1>8. ASSUME NEW a \in 1 .. p - 1, NEW b \in q .. n
      PROVE  s1[a] < s2[b]
  <2>1. b \in j .. n
    BY <1>4, <1>5
  <2> QED BY <1>2, <1>3, <1>4, <1>6, <2>1
<1>9. ASSUME NEW a \in p .. m, NEW b \in 1 .. q - 1
      PROVE  s2[b] < s1[a]
  <2>1. a \in i .. m
    BY <1>4, <1>5
  <2> QED BY <1>2, <1>3, <1>4, <1>7, <2>1
<1>10. ASSUME NEW e
       PROVE  /\ Before(s1, p, e) <=> Before(s1, i, e) \/ e = x
              /\ Before(s2, q, e) <=> Before(s2, j, e) \/ e = x
  <2>1. i \in i .. p - 1 /\ i \in 1 .. p - 1 /\ j \in j .. q - 1 /\ j \in 1 .. q - 1
    BY <1>2, <1>3, <1>4
  <2>2. /\ \A a \in 1 .. i - 1 : a \in 1 .. p - 1
        /\ \A b \in 1 .. j - 1 : b \in 1 .. q - 1
    BY <1>2, <1>3, <1>4
  <2> QED BY <1>2, <1>3, <1>4, <1>6, <1>7, <2>1, <2>2 DEF Before
<1>11. ~Before(s1, i, x) /\ ~Before(s2, j, x)
  <2>1. i \in i .. m /\ j \in j .. n
    BY <1>4
  <2>2. /\ \A a \in 1 .. i - 1 : a \in 1 .. m
        /\ \A b \in 1 .. j - 1 : b \in 1 .. n
    BY <1>1, <1>4
  <2>3. \A a \in 1 .. i - 1 : s1[a] < x /\ s1[a] \in Nat
    BY <1>1, <1>4, <2>1, <2>2
  <2>4. \A b \in 1 .. j - 1 : s2[b] < x /\ s2[b] \in Nat
    BY <1>1, <1>4, <2>1, <2>2
  <2> QED BY <2>3, <2>4 DEF Before
<1>12. /\ Append(keys, x) \in Seq(Keys)
       /\ \A e : Count(Append(keys, x), e) = Count(keys, e) + One(x = e)
  BY <1>4, CountAppend
<1>13. ASSUME NEW e
       PROVE  Count(Append(keys, x), e) = One(Before(s1, p, e) /\ Before(s2, q, e))
  <2>1. Count(Append(keys, x), e) = One(Before(s1, i, e) /\ Before(s2, j, e)) + One(x = e)
    BY <1>4, <1>12
  <2> QED BY <1>10, <1>11, <2>1 DEF One
<1>14. Found(s1, s2, p, q, Append(keys, x))
  BY <1>5, <1>8, <1>9, <1>12, <1>13 DEF Found, m, n
<1> QED BY <1>2, <1>3, <1>14 DEF x

LEMMA FoundOne ==
    ASSUME NEW s1 \in Seq(Keys), Sorted(s1), NEW s2 \in Seq(Keys), Sorted(s2),
           NEW i \in 1 .. Len(s1), NEW j \in 1 .. Len(s2), NEW keys,
           Found(s1, s2, i, j, keys), s1[i] < s2[j]
    PROVE  Found(s1, s2, i + 1, j, keys)
<1> DEFINE m == Len(s1)
           n == Len(s2)
           x == s1[i]
           y == s2[j]
<1>1. /\ m \in Nat /\ \A a \in 1 .. m : s1[a] \in Nat
      /\ n \in Nat /\ \A b \in 1 .. n : s2[b] \in Nat
  BY KeysAreNumbers
<1>2. /\ i \in 1 .. m /\ j \in 1 .. n /\ x = s1[i] /\ y = s2[j] /\ x < y /\ keys \in Seq(Keys)
      /\ \A a \in 1 .. i - 1, b \in j .. n : s1[a] < s2[b]
      /\ \A a \in i .. m, b \in 1 .. j - 1 : s2[b] < s1[a]
      /\ \A e : Count(keys, e) = One(Before(s1, i, e) /\ Before(s2, j, e))
      /\ \A a, b \in 1 .. n : a < b => s2[a] <= s2[b]
  BY DEF Found, Sorted
<1> HIDE DEF m, n, x, y
<1>3. i + 1 \in 1 .. m + 1 /\ (i + 1) - 1 = i /\ j \in 1 .. n + 1 /\ x \in Nat /\ y \in Nat
  BY <1>1, <1>2
<1>4. \A a \in 1 .. i : a \in 1 .. i - 1 \/ a = i
  BY <1>2
<1>5. ASSUME NEW a \in 1 .. (i + 1) - 1, NEW b \in j .. n
      PROVE  s1[a] < s2[b]
  <2>1. CASE a \in 1 .. i - 1
    BY <1>2, <2>1
  <2>2. CASE a = i
    <3>1. b \in 1 .. n /\ s2[b] \in Nat /\ (b = j \/ j < b)
      BY <1>1, <1>2
    <3>2. y <= s2[b]
      BY <1>2, <1>3, <3>1
    <3> QED BY <1>2, <1>3, <2>2, <3>1, <3>2
  <2> QED BY <1>3, <1>4, <2>1, <2>2
<1>6. ASSUME NEW a \in i + 1 .. m, NEW b \in 1 .. j - 1
      PROVE  s2[b] < s1[a]
  <2>1. a \in i .. m
    BY <1>2
  <2> QED BY <1>2, <2>1
<1>7. ASSUME NEW e
      PROVE  Before(s1, i + 1, e) <=> Before(s1, i, e) \/ e = x
  <2>1. /\ \A a \in 1 .. i - 1 : a \in 1 .. (i + 1) - 1
        /\ i \in 1 .. (i + 1) - 1
    BY <1>2, <1>3
  <2> QED BY <1>2, <1>3, <1>4, <2>1 DEF Before
<1>8. ~Before(s2, j, x)
  <2>1. i \in i .. m /\ \A b \in 1 .. j - 1 : b \in 1 .. n
    BY <1>1, <1>2
  <2>2. \A b \in 1 .. j - 1 : s2[b] < x /\ s2[b] \in Nat
    BY <1>1, <1>2, <2>1
  <2> QED BY <1>3, <2>2 DEF Before
<1>9. \A e : Count(keys, e) = One(Before(s1, i + 1, e) /\ Before(s2, j, e))
  <2> SUFFICES ASSUME NEW e
               PROVE  Count(keys, e) = One(Before(s1, i + 1, e) /\ Before(s2, j, e))
    OBVIOUS
  <2>1. (Before(s1, i + 1, e) /\ Before(s2, j, e)) <=> (Before(s1, i, e) /\ Before(s2, j, e))
    BY <1>7, <1>8
  <2> QED BY <1>2, <2>1 DEF One
<1> QED BY <1>2, <1>3, <1>5, <1>6, <1>9 DEF Found, m, n

(* The two lists are alike.                                                  *)
LEMMA FoundTurned ==
    ASSUME NEW s1 \in Seq(Keys), NEW s2 \in Seq(Keys), NEW i, NEW j, NEW keys,
           Found(s1, s2, i, j, keys)
    PROVE  Found(s2, s1, j, i, keys)
<1>1. \A e : Count(keys, e) = One(Before(s2, j, e) /\ Before(s1, i, e))
  BY DEF Found, One
<1>2. /\ j \in 1 .. Len(s2) + 1 /\ i \in 1 .. Len(s1) + 1 /\ keys \in Seq(Keys)
      /\ \A b \in 1 .. j - 1, a \in i .. Len(s1) : s2[b] < s1[a]
      /\ \A b \in j .. Len(s2), a \in 1 .. i - 1 : s1[a] < s2[b]
  BY DEF Found
<1> QED BY <1>1, <1>2 DEF Found

(* The loop is done, or a turn brings it on.                                 *)
AtEnd(s1, s2, at) == at.i > Len(s1) \/ at.j > Len(s2)

LEMMA TurnFinds ==
    ASSUME NEW s1 \in Seq(Keys), Sorted(s1), NEW s2 \in Seq(Keys), Sorted(s2),
           NEW at \in Places, Found(s1, s2, at.i, at.j, at.keys), NEW next, next = Turn(s1, s2, at)
    PROVE  /\ Found(s1, s2, next.i, next.j, next.keys)
           /\ AtEnd(s1, s2, at) => next = at
           /\ ~AtEnd(s1, s2, at) => next.i + next.j >= at.i + at.j + 1
<1> DEFINE i == at.i
           j == at.j
<1>1. i \in Nat \ {0} /\ j \in Nat \ {0} /\ Len(s1) \in Nat /\ Len(s2) \in Nat
  BY DEF Places
<1>2. CASE AtEnd(s1, s2, at)
  <2>1. next = at
    BY <1>2, Zenon DEF Turn, AtEnd
  <2> QED BY <1>2, <2>1
<1>3. CASE ~AtEnd(s1, s2, at)
  <2>1. i \in 1 .. Len(s1) /\ j \in 1 .. Len(s2) /\ Found(s1, s2, i, j, at.keys)
    BY <1>1, <1>3 DEF AtEnd
  <2>2. s1[i] \in Nat /\ s2[j] \in Nat
    BY <2>1, KeysAreNumbers
  <2>3. CASE s1[i] = s2[j]
    <3>1. next = [i |-> After(s1, i), j |-> After(s2, j), keys |-> Append(at.keys, s1[i])]
      BY <1>3, <2>3, Zenon DEF Turn, AtEnd
    <3>2. next.i = After(s1, i) /\ next.j = After(s2, j) /\ next.keys = Append(at.keys, s1[i])
      BY <3>1
    <3>3. After(s1, i) \in i + 1 .. Len(s1) + 1 /\ After(s2, j) \in j + 1 .. Len(s2) + 1
      BY <2>1, AfterEqual
    <3>4. Found(s1, s2, After(s1, i), After(s2, j), Append(at.keys, s1[i]))
      BY <2>1, <2>3, FoundBoth
    <3>5. next.i + next.j >= i + j + 1
      BY <1>1, <3>2, <3>3
    <3> QED BY <1>3, <3>2, <3>4, <3>5
  <2>4. CASE s1[i] < s2[j]
    <3>1. next = [at EXCEPT !.i = @ + 1]
      <4>1. s1[i] # s2[j]
        BY <2>2, <2>4
      <4> QED BY <1>3, <2>4, <4>1, Zenon DEF Turn, AtEnd
    <3>2. next.i = i + 1 /\ next.j = j /\ next.keys = at.keys
      BY <3>1 DEF Places
    <3>3. Found(s1, s2, i + 1, j, at.keys)
      BY <2>1, <2>4, FoundOne
    <3> QED BY <1>1, <1>3, <3>2, <3>3
  <2>5. CASE s2[j] < s1[i]
    <3>1. next = [at EXCEPT !.j = @ + 1]
      <4>1. s1[i] # s2[j] /\ ~(s1[i] < s2[j])
        BY <2>2, <2>5
      <4> QED BY <1>3, <4>1, Zenon DEF Turn, AtEnd
    <3>2. next.i = i /\ next.j = j + 1 /\ next.keys = at.keys
      BY <3>1 DEF Places
    <3>3. Found(s1, s2, i, j + 1, at.keys)
      <4>1. Found(s2, s1, j, i, at.keys)
        BY <2>1, FoundTurned
      <4>2. Found(s2, s1, j + 1, i, at.keys)
        BY <2>1, <2>5, <4>1, FoundOne
      <4> QED BY <4>2, FoundTurned
    <3> QED BY <1>1, <1>3, <3>2, <3>3
  <2> QED BY <2>2, <2>3, <2>4, <2>5
<1> QED BY <1>2, <1>3

(* The keys that are in both lists are found, each once: the bound on the    *)
(* turns comes after the end of one of the lists.                            *)
LEMMA CommonCounts ==
    ASSUME NEW s1 \in Seq(Keys), Sorted(s1), NEW s2 \in Seq(Keys), Sorted(s2)
    PROVE  \A e : Count(Common(s1, s2), e) = One(Contains(s1, e) /\ Contains(s2, e))
<1> DEFINE n == Len(s1) + Len(s2)
<1>1. PICK at : Runs(s1, s2, at) /\ Common(s1, s2) = at[n].keys
  BY CommonRuns
<1> DEFINE Meets(k) == /\ Found(s1, s2, at[k].i, at[k].j, at[k].keys)
                       /\ AtEnd(s1, s2, at[k]) \/ at[k].i + at[k].j >= k + 2
           holds == {k \in 0 .. n : Meets(k)}
<1>2. n \in Nat /\ Len(s1) \in Nat /\ Len(s2) \in Nat
  OBVIOUS
<1>3. /\ at[0] = Beginning /\ \A k \in 1 .. n : at[k] = Turn(s1, s2, at[k - 1])
      /\ \A k \in 0 .. n : at[k] \in Places
  BY <1>1 DEF Runs
<1> HIDE DEF n
<1>4. 0 \in holds
  <2>1. at[0].i = 1 /\ at[0].j = 1 /\ at[0].keys = <<>>
    BY <1>3 DEF Beginning
  <2>2. Found(s1, s2, 1, 1, <<>>)
    <3>1. \A e : Count(<<>>, e) = 0 /\ ~Before(s1, 1, e) /\ ~Before(s2, 1, e)
      <4> DEFINE none == <<>>
      <4>1. none \in Seq(Keys) /\ \A e : ~Contains(none, e)
        BY DEF Contains
      <4> HIDE DEF none
      <4>2. \A e : Count(none, e) = 0
        BY <4>1, CountFacts
      <4>3. \A e : ~Before(s1, 1, e) /\ ~Before(s2, 1, e)
        BY DEF Before
      <4> QED BY <4>2, <4>3 DEF none
    <3> QED BY <1>2, <3>1 DEF Found, One
  <2> QED BY <1>2, <2>1, <2>2
<1>5. ASSUME NEW k \in 1 .. n, k - 1 \in holds
      PROVE  k \in holds
  <2> DEFINE now == at[k - 1]
             next == at[k]
  <2>1. k - 1 \in 0 .. n /\ k \in 0 .. n /\ k \in Nat
    BY <1>2
  <2>2. now \in Places /\ next \in Places /\ next = Turn(s1, s2, now)
    BY <1>3, <2>1
  <2>3. /\ Found(s1, s2, now.i, now.j, now.keys)
        /\ AtEnd(s1, s2, now) \/ now.i + now.j >= (k - 1) + 2
    BY <1>5
  <2> HIDE DEF now, next
  <2>4. /\ Found(s1, s2, next.i, next.j, next.keys)
        /\ AtEnd(s1, s2, now) => next = now
        /\ ~AtEnd(s1, s2, now) => next.i + next.j >= now.i + now.j + 1
    BY <2>2, <2>3, TurnFinds
  <2>5. now.i \in Nat /\ now.j \in Nat /\ next.i \in Nat /\ next.j \in Nat
    BY <2>2 DEF Places
  <2>6. AtEnd(s1, s2, next) \/ next.i + next.j >= k + 2
    BY <2>1, <2>3, <2>4, <2>5
  <2> QED BY <2>1, <2>4, <2>6 DEF next
<1>6. Meets(n)
  <2>1. \A k \in 0 .. n : k \in holds
    <3> HIDE DEF holds
    <3> QED BY <1>2, <1>4, <1>5, Upwards
  <2>2. n \in holds
    <3> HIDE DEF holds
    <3> QED BY <1>2, <2>1
  <2> QED BY <2>2
<1> DEFINE i == at[n].i
           j == at[n].j
<1>7. /\ i \in 1 .. Len(s1) + 1 /\ j \in 1 .. Len(s2) + 1
      /\ \A a \in 1 .. i - 1, b \in j .. Len(s2) : s1[a] < s2[b]
      /\ \A a \in i .. Len(s1), b \in 1 .. j - 1 : s2[b] < s1[a]
      /\ \A e : Count(at[n].keys, e) = One(Before(s1, i, e) /\ Before(s2, j, e))
      /\ i > Len(s1) \/ j > Len(s2) \/ i + j >= n + 2
  BY <1>6 DEF Found, AtEnd
<1> HIDE DEF i, j, Meets
<1>8. i = Len(s1) + 1 \/ j = Len(s2) + 1
  BY <1>2, <1>7 DEF n
<1>9. /\ \A a \in 1 .. Len(s1) : s1[a] \in Nat
      /\ \A b \in 1 .. Len(s2) : s2[b] \in Nat
  BY KeysAreNumbers
<1>10. ASSUME NEW e
       PROVE  Before(s1, i, e) /\ Before(s2, j, e) <=> Contains(s1, e) /\ Contains(s2, e)
  <2>1. Before(s1, i, e) => Contains(s1, e)
    BY <1>2, <1>7 DEF Before, Contains
  <2>2. Before(s2, j, e) => Contains(s2, e)
    BY <1>2, <1>7 DEF Before, Contains
  <2>3. ASSUME NEW a \in 1 .. Len(s1), s1[a] = e, NEW b \in 1 .. Len(s2), s2[b] = e
        PROVE  a \in 1 .. i - 1 /\ b \in 1 .. j - 1
    <3>1. s1[a] \in Nat /\ s2[b] \in Nat /\ s1[a] = s2[b]
      BY <1>9, <2>3
    <3>2. a \in 1 .. i - 1 \/ a \in i .. Len(s1)
      BY <1>2, <1>7
    <3>3. b \in 1 .. j - 1 \/ b \in j .. Len(s2)
      BY <1>2, <1>7
    <3>4. ~(a \in 1 .. i - 1 /\ b \in j .. Len(s2)) /\ ~(a \in i .. Len(s1) /\ b \in 1 .. j - 1)
      BY <1>7, <3>1
    <3>5. ~(a \in i .. Len(s1) /\ b \in j .. Len(s2))
      BY <1>2, <1>7, <1>8
    <3> QED BY <3>2, <3>3, <3>4, <3>5
  <2> QED BY <2>1, <2>2, <2>3 DEF Before, Contains
<1> QED BY <1>1, <1>7, <1>10 DEF One

-----------------------------------------------------------------------------
(* The lists stay in order, and get what they are promised                   *)

Ordered == \A l \in Lists : Sorted(nodes[l])

(* Some p of the nodes of src were copied, and all of them unless one copy    *)
(* was lost.                                                                 *)
Filling(l, src, mode) ==
    /\ \A m \in Lists \ {l} : nodes'[m] = nodes[m]
    /\ \E p \in 0 .. Len(src) :
          /\ nodes' = [nodes EXCEPT ![l] = Joined(nodes[l], src, mode)[p]]
          /\ Joins(nodes'[l], nodes[l], src, mode, p)
          /\ lost' = lost => p = Len(src)

LEMMA FillFills ==
    ASSUME Filled, Ordered, NEW t, NEW l \in Lists, NEW src \in Seq(Keys), NEW mode,
           Fill(t, l, src, mode)
    PROVE  Filling(l, src, mode)
<1> DEFINE part == Joined(nodes[l], src, mode)
           n == Len(src)
           Sets(p) == /\ nodes' = [nodes EXCEPT ![l] = part[p]]
                      /\ lost' = lost => p = n
<1>1. /\ nodes \in [Lists -> Seq(Keys)] /\ nodes[l] \in Seq(Keys) /\ Sorted(nodes[l])
      /\ lost \in Nat /\ n \in Nat
  BY DEF Filled, Ordered
<1>2. \A p \in 0 .. n : Joins(part[p], nodes[l], src, mode, p)
  BY <1>1, JoinedJoins
<1>3. \E p \in 0 .. n : Sets(p)
  <2>1. \/ nodes' = [nodes EXCEPT ![l] = part[n]]
        \/ \E p \in 0 .. n - 1 : nodes' = [nodes EXCEPT ![l] = part[p]] /\ lost' = lost + 1
    BY Zenon DEF Fill
  <2>2. lost + 1 # lost /\ n \in 0 .. n /\ \A p \in 0 .. n - 1 : p \in 0 .. n
    BY <1>1
  <2> HIDE DEF part, n
  <2> QED BY <2>1, <2>2
<1>4. PICK p \in 0 .. n : Sets(p)
  BY <1>3
<1> HIDE DEF part, n
<1>5. nodes'[l] = part[p] /\ \A m \in Lists \ {l} : nodes'[m] = nodes[m]
  BY <1>1, <1>4
<1> QED BY <1>2, <1>4, <1>5 DEF Filling, part, n

LEMMA PutOrdered ==
    ASSUME Filled, Ordered, NEW l, NEW s, nodes' = [nodes EXCEPT ![l] = s], Sorted(s)
    PROVE  Ordered'
<1>1. Filled /\ Ordered /\ \A m \in Lists : nodes'[m] = nodes[m] \/ nodes'[m] = s
  BY DEF Filled
<1>2. ASSUME NEW m \in Lists
      PROVE  Sorted(nodes'[m])
  <2>1. CASE nodes'[m] = nodes[m]
    BY <1>1, <2>1 DEF Ordered
  <2>2. CASE nodes'[m] = s
    BY <2>2
  <2> QED BY <1>1, <2>1, <2>2
<1> QED BY <1>2 DEF Ordered, Sorted

LEMMA DestroyedOrdered ==
    ASSUME Filled, Ordered, NEW l, Destroyed(l)
    PROVE  Ordered'
<1>1. nodes' = [nodes EXCEPT ![l] = <<>>] /\ Sorted(<<>>)
  BY DEF Destroyed, Sorted
<1> QED BY <1>1, PutOrdered

LEMMA FillOrdered ==
    ASSUME Filled, Ordered, NEW t, NEW l \in Lists, NEW src \in Seq(Keys), NEW mode,
           Fill(t, l, src, mode)
    PROVE  Ordered'
<1>1. Filling(l, src, mode)
  BY FillFills
<1>2. PICK p \in 0 .. Len(src) : /\ nodes' = [nodes EXCEPT ![l] = Joined(nodes[l], src, mode)[p]]
                                 /\ Joins(nodes'[l], nodes[l], src, mode, p)
  BY <1>1 DEF Filling
<1>3. nodes'[l] = Joined(nodes[l], src, mode)[p]
  BY <1>2 DEF Filled
<1>4. Sorted(Joined(nodes[l], src, mode)[p])
  BY <1>2, <1>3 DEF Joins
<1> QED BY <1>2, <1>4, PutOrdered

LEMMA SameOrdered ==
    ASSUME Ordered, UNCHANGED nodes
    PROVE  Ordered'
BY DEF Ordered

LEMMA OnListsOrdered ==
    ASSUME Cautious, IInv, Memory, Ordered, NEW t \in Threads, OnLists(t)
    PROVE  Ordered'
<1>1. Filled /\ nodes \in [Lists -> Seq(Keys)]
  BY DEF Memory, Filled
<1>2. ASSUME NEW l \in Lists, NEW d \in BOOLEAN, InitList(t, l, d)
      PROVE  Ordered'
  BY <1>2, SameOrdered DEF InitList
<1>3. ASSUME NEW l \in Lists, Destroy(t, l)
      PROVE  Ordered'
  <2>1. Destroyed(l) \/ UNCHANGED nodes
    BY <1>3, Zenon DEF Destroy, lists
  <2> QED BY <1>1, <2>1, DestroyedOrdered, SameOrdered
<1>4. ASSUME NEW l \in Lists, NEW k \in Keys, Insert(t, l, k)
      PROVE  Ordered'
  <2>1. nodes' = [nodes EXCEPT ![l] = Into(nodes[l], k)] \/ UNCHANGED nodes
    BY <1>4, Zenon DEF Insert
  <2>2. Sorted(Into(nodes[l], k))
    <3>1. nodes[l] \in Seq(Keys) /\ Sorted(nodes[l])
      BY <1>1 DEF Ordered
    <3> QED BY <3>1, IntoSorted
  <2> QED BY <1>1, <2>1, <2>2, PutOrdered, SameOrdered
<1>5. ASSUME NEW l \in Lists, NEW k \in Keys, Delete(t, l, k)
      PROVE  Ordered'
  <2>1. nodes' = [nodes EXCEPT ![l] = RemoveFirst(nodes[l], k)] /\ Contains(nodes[l], k)
    BY <1>5, Zenon DEF Delete
  <2>2. Sorted(RemoveFirst(nodes[l], k))
    <3>1. nodes[l] \in Seq(Keys) /\ Sorted(nodes[l])
      BY <1>1 DEF Ordered
    <3> QED BY <2>1, <3>1, RemovedSorted
  <2> QED BY <1>1, <2>1, <2>2, PutOrdered
<1>6. ASSUME NEW l \in Lists, NEW m \in Lists, JoinND(t, l, m)
      PROVE  Ordered'
  <2>1. state[l] = "live" /\ dst[l] /\ nodes[m] \in Seq(Keys)
    BY <1>1, <1>6 DEF JoinND, AllLive, IInv, Made
  <2>2. Fill(t, l, nodes[m], "ND")
    BY <1>6, <2>1, Zenon DEF JoinND
  <2> QED BY <1>1, <2>1, <2>2, FillOrdered
<1>7. ASSUME NEW l \in Lists, NEW m \in Lists, JoinAD(t, l, m) \/ Copy(t, m, l)
      PROVE  Ordered'
  <2>1. nodes[m] \in Seq(Keys) /\ Fill(t, l, nodes[m], "AD")
    BY <1>1, <1>7 DEF JoinAD, Copy
  <2> QED BY <1>1, <2>1, FillOrdered
<1>8. ASSUME NEW l \in Lists, NEW m \in Lists, NEW n \in Lists, Intersect(t, l, m, n)
      PROVE  Ordered'
  <2>1. Fill(t, n, Common(nodes[l], nodes[m]), "AD")
    BY <1>8 DEF Intersect
  <2>2. Common(nodes[l], nodes[m]) \in Seq(Keys)
    BY <1>1, CommonTyped
  <2> QED BY <1>1, <2>1, <2>2, FillOrdered
<1> QED BY <1>2, <1>3, <1>4, <1>5, <1>6, <1>7, <1>8 DEF OnLists

LEMMA OnContainerOrdered ==
    ASSUME Memory, Ordered, NEW t \in Threads, OnContainer(t)
    PROVE  Ordered'
<1>1. Filled
  BY DEF Memory
<1>2. CASE Sweep(t)
  <2>1. (\E l : Destroyed(l)) \/ UNCHANGED nodes
    BY <1>2, Zenon DEF Sweep, Fault, lists
  <2> QED BY <1>1, <2>1, DestroyedOrdered, SameOrdered
<1>3. CASE Store(t)
  <2>1. UNCHANGED nodes
    BY <1>3, Zenon DEF Store, Fault, lists
  <2> QED BY <2>1, SameOrdered
<1>4. ASSUME InitContainer(t) \/ FreeArray(t)
      PROVE  UNCHANGED nodes
  BY <1>4 DEF InitContainer, FreeArray
<1>5. ASSUME NEW l \in Lists, Push(t, l)
      PROVE  UNCHANGED nodes
  BY <1>5 DEF Push, quiet, lists
<1>6. ASSUME Free(t) \/ Lock(t) \/ Grow(t) \/ Unlock(t) \/ Reset(t)
      PROVE  UNCHANGED nodes
  BY <1>6 DEF Free, Lock, Grow, Unlock, Reset, quiet, lists
<1> QED BY <1>2, <1>3, <1>4, <1>5, <1>6, SameOrdered DEF OnContainer

LEMMA StepOrdered ==
    ASSUME Cautious, IInv, Memory, Ordered, [Next]_vars
    PROVE  Ordered'
<1>1. CASE UNCHANGED vars
  BY <1>1, SameOrdered DEF vars, lists
<1> QED BY <1>1, OnListsOrdered, OnContainerOrdered DEF Next

LEMMA InitOrdered ==
    ASSUME Init
    PROVE  Ordered
<1>1. \A l \in Lists : nodes[l] = <<>>
  BY DEF Init
<1>2. Sorted(<<>>)
  BY DEF Sorted
<1> QED BY <1>1, <1>2 DEF Ordered

(* What is wanted, without the cases.                                        *)
LEMMA Wants ==
    ASSUME NEW l, NEW k
    PROVE  /\ \A S : Wanted("new", l, S, k) =
                 IF Count(nodes[l], k) = 0 /\ \E m \in S : Contains(nodes[m], k) THEN 1
                 ELSE Count(nodes[l], k)
           /\ \A S : Wanted("common", l, S, k) =
                 IF \A m \in S : Contains(nodes[m], k) THEN Count(nodes[l], k) + 1
                 ELSE Count(nodes[l], k)
           /\ \A S : Wanted("all", l, S, k) =
                 Count(nodes[l], k) + SumFunctionOnSet([m \in Lists |-> Count(nodes[m], k)], S)
<1>1. "new" # "all" /\ "common" # "all" /\ "common" # "new"
  OBVIOUS
<1>2. \A S : Wanted("new", l, S, k) =
         IF Count(nodes[l], k) = 0 /\ \E m \in S : Contains(nodes[m], k) THEN 1
         ELSE Count(nodes[l], k)
  BY <1>1, Zenon DEF Wanted
<1>3. \A S : Wanted("common", l, S, k) =
         IF \A m \in S : Contains(nodes[m], k) THEN Count(nodes[l], k) + 1
         ELSE Count(nodes[l], k)
  BY <1>1, Zenon DEF Wanted
<1>4. \A S : Wanted("all", l, S, k) =
         Count(nodes[l], k) + SumFunctionOnSet([m \in Lists |-> Count(nodes[m], k)], S)
  BY <1>1, Zenon DEF Wanted
<1> QED BY <1>2, <1>3, <1>4

LEMMA SumOfOne ==
    ASSUME Filled, NEW m \in Lists, NEW k
    PROVE  SumFunctionOnSet([n \in Lists |-> Count(nodes[n], k)], {m}) = Count(nodes[m], k)
<1> DEFINE f == [n \in Lists |-> Count(nodes[n], k)]
<1>1. f[m] = Count(nodes[m], k) /\ f[m] \in Nat
  <2>1. nodes[m] \in Seq(Keys)
    BY DEF Filled
  <2> QED BY <2>1, CountFacts
<1> HIDE DEF f
<1>2. IsFiniteSet({m}) /\ \A x \in {m} : f[x] \in Nat
  BY <1>1, FS_Singleton
<1>3. /\ SumFunctionOnSet(f, {}) = 0
      /\ \A x \in {m} : SumFunctionOnSet(f, {m}) = f[x] + SumFunctionOnSet(f, {m} \ {x})
  BY <1>2, SumsUp
<1>4. {m} \ {m} = {}
  OBVIOUS
<1> QED BY <1>1, <1>3, <1>4 DEF f

(* A list that took what is wanted of all the sources is combined, however   *)
(* far it came.                                                              *)
LEMMA FilledCombines ==
    ASSUME Filled, NEW l \in Lists, NEW src \in Seq(Keys), NEW mode, Filling(l, src, mode),
           NEW op, NEW sources,
           \A k : Took(nodes[l], src, mode, k, Len(src)) = Wanted(op, l, sources, k)
    PROVE  Combined(op, l, sources)
<1> DEFINE n == Len(src)
           target == nodes[l]
           result == nodes'[l]
<1>1. PICK p \in 0 .. n : Joins(result, target, src, mode, p) /\ (lost' = lost => p = n)
  BY DEF Filling
<1>2. target \in Seq(Keys) /\ n \in Nat
  BY DEF Filled
<1>3. \A k : /\ Count(result, k) = Took(target, src, mode, k, p)
             /\ Took(target, src, mode, k, n) = Wanted(op, l, sources, k)
  BY <1>1 DEF Joins
<1>4. IsSorted(result, <=)
  <2>1. Sorted(result)
    BY <1>1 DEF Joins
  <2> HIDE DEF result
  <2> QED BY <2>1, Zenon DEF Sorted, IsSorted
<1>5. ASSUME NEW k
      PROVE  Took(target, src, mode, k, p) \in Count(target, k) .. Took(target, src, mode, k, n)
  <2>1. Count(target, k) \in Nat /\ Count(src, k) \in Nat /\ Count(src, k) = CountTo(src, n, k)
    BY <1>2, CountFacts
  <2>2. CountTo(src, p, k) \in 0 .. Count(src, k)
    BY CountingOn
  <2> HIDE DEF target, n
  <2> QED BY <2>1, <2>2 DEF Took
<1> HIDE DEF result, target, n
<1>6. \A k \in Keys :
         IF lost' = lost THEN Count(result, k) = Wanted(op, l, sources, k)
         ELSE Count(result, k) \in Count(target, k) .. Wanted(op, l, sources, k)
  BY <1>1, <1>3, <1>5
<1>7. \A m \in Lists \ {l} : nodes'[m] = nodes[m]
  BY DEF Filling
<1> QED BY <1>4, <1>6, <1>7 DEF Combined, result, target

LEMMA AllCombine ==
    ASSUME Filled, Ordered, NEW t, NEW l \in Lists, NEW m \in Lists,
           JoinAD(t, l, m) \/ Copy(t, m, l)
    PROVE  Combined("all", l, {m})
<1> DEFINE src == nodes[m]
<1>1. src \in Seq(Keys) /\ nodes[l] \in Seq(Keys)
  BY DEF Filled
<1>2. Fill(t, l, src, "AD")
  BY DEF JoinAD, Copy
<1>3. Filling(l, src, "AD")
  BY <1>1, <1>2, FillFills
<1>4. ASSUME NEW k
      PROVE  Took(nodes[l], src, "AD", k, Len(src)) = Wanted("all", l, {m}, k)
  <2>1. CountTo(src, Len(src), k) = Count(src, k)
    BY <1>1, CountFacts
  <2>2. Took(nodes[l], src, "AD", k, Len(src)) = Count(nodes[l], k) + Count(src, k)
    BY <2>1 DEF Took
  <2>3. Wanted("all", l, {m}, k) =
          Count(nodes[l], k) + SumFunctionOnSet([n \in Lists |-> Count(nodes[n], k)], {m})
    BY Wants, Zenon
  <2>4. SumFunctionOnSet([n \in Lists |-> Count(nodes[n], k)], {m}) = Count(src, k)
    BY SumOfOne
  <2> QED BY <2>2, <2>3, <2>4, Zenon
<1> QED BY <1>1, <1>3, <1>4, FilledCombines

LEMMA NewCombine ==
    ASSUME Filled, Ordered, NEW t, NEW l \in Lists, NEW m \in Lists, dst[l], JoinND(t, l, m)
    PROVE  Combined("new", l, {m})
<1> DEFINE src == nodes[m]
<1>1. src \in Seq(Keys) /\ nodes[l] \in Seq(Keys)
  BY DEF Filled
<1>2. Fill(t, l, src, "ND")
  BY Zenon DEF JoinND
<1>3. Filling(l, src, "ND")
  BY <1>1, <1>2, FillFills
<1>4. ASSUME NEW k
      PROVE  Took(nodes[l], src, "ND", k, Len(src)) = Wanted("new", l, {m}, k)
  <2>1. CountTo(src, Len(src), k) # 0 <=> Contains(src, k)
    BY <1>1, CountFacts
  <2>2. Wanted("new", l, {m}, k) =
          IF Count(nodes[l], k) = 0 /\ \E n \in {m} : Contains(nodes[n], k) THEN 1
          ELSE Count(nodes[l], k)
    BY Wants, Zenon
  <2> QED BY <2>1, <2>2 DEF Took
<1> QED BY <1>1, <1>3, <1>4, FilledCombines

LEMMA CommonCombine ==
    ASSUME Filled, Ordered, NEW t, NEW l \in Lists, NEW m \in Lists, NEW n \in Lists,
           Intersect(t, m, n, l)
    PROVE  Combined("common", l, {m, n})
<1> DEFINE src == Common(nodes[m], nodes[n])
<1>1. /\ nodes[l] \in Seq(Keys)
      /\ nodes[m] \in Seq(Keys) /\ Sorted(nodes[m])
      /\ nodes[n] \in Seq(Keys) /\ Sorted(nodes[n])
  BY DEF Filled, Ordered
<1>2. src \in Seq(Keys) /\ \A k : Count(src, k) = One(Contains(nodes[m], k) /\ Contains(nodes[n], k))
  BY <1>1, CommonTyped, CommonCounts
<1>3. Fill(t, l, src, "AD")
  BY DEF Intersect
<1> HIDE DEF src
<1>4. Filling(l, src, "AD")
  BY <1>2, <1>3, FillFills
<1>5. ASSUME NEW k
      PROVE  Took(nodes[l], src, "AD", k, Len(src)) = Wanted("common", l, {m, n}, k)
  <2>1. CountTo(src, Len(src), k) = Count(src, k) /\ Count(nodes[l], k) \in Nat
    BY <1>1, <1>2, CountFacts
  <2>2. Took(nodes[l], src, "AD", k, Len(src)) =
          Count(nodes[l], k) + One(Contains(nodes[m], k) /\ Contains(nodes[n], k))
    BY <1>2, <2>1 DEF Took
  <2>3. Wanted("common", l, {m, n}, k) =
          IF \A x \in {m, n} : Contains(nodes[x], k) THEN Count(nodes[l], k) + 1
          ELSE Count(nodes[l], k)
    BY Wants, Zenon
  <2> QED BY <2>1, <2>2, <2>3 DEF One
<1> QED BY <1>2, <1>4, <1>5, FilledCombines

(* What a join and an intersection are for (myskl.h:305-372): the sources    *)
(* stay as they were, the target stays in order and has of each key as many  *)
(* nodes as the call promises, or, when a copy could not be made, something  *)
(* in between; whatever the lists held, equal keys and all, and wherever the *)
(* memory ran out: join, intersect and copy_node of skl_join.c.              *)
THEOREM Combining == Cautious => (Spec => CombinesAsDocumented)
<1> SUFFICES ASSUME Cautious
             PROVE  Spec => CombinesAsDocumented
  OBVIOUS
<1>1. Init => IInv /\ Memory /\ Ordered
  BY InitInv, InitMemory, InitOrdered
<1>2. IInv /\ Memory /\ Ordered /\ [Next]_vars => IInv' /\ Memory' /\ Ordered'
  BY StepInv, StepMemory, StepOrdered
<1>3. ASSUME IInv, Memory, Ordered
      PROVE  UNCHANGED <<state, cont>> => \A t \in Users, l, m \in Lists :
                /\ JoinAD(t, l, m) \/ Copy(t, m, l) => Combined("all", l, {m})
                /\ JoinND(t, l, m) => Combined("new", l, {m})
                /\ \A n \in Lists : Intersect(t, m, n, l) => Combined("common", l, {m, n})
  <2>1. Filled
    BY <1>3 DEF Memory
  <2>2. ASSUME NEW t \in Users, NEW l \in Lists, NEW m \in Lists, JoinND(t, l, m)
        PROVE  Combined("new", l, {m})
    <3>1. dst[l]
      BY <1>3, <2>2 DEF JoinND, AllLive, IInv, Made
    <3> QED BY <1>3, <2>1, <2>2, <3>1, NewCombine
  <2>3. ASSUME NEW t \in Users, NEW l \in Lists, NEW m \in Lists,
               JoinAD(t, l, m) \/ Copy(t, m, l)
        PROVE  Combined("all", l, {m})
    BY <1>3, <2>1, <2>3, AllCombine
  <2>4. ASSUME NEW t \in Users, NEW l \in Lists, NEW m \in Lists, NEW n \in Lists,
               Intersect(t, m, n, l)
        PROVE  Combined("common", l, {m, n})
    BY <1>3, <2>1, <2>4, CommonCombine
  <2> QED BY <2>2, <2>3, <2>4
<1> QED BY <1>1, <1>2, <1>3, PTL DEF Spec, CombinesAsDocumented
=============================================================================
