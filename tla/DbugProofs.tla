------------------------------ MODULE DbugProofs ------------------------------
(***************************************************************************)
(* What is proved of Dbug, for any number of threads, any control strings,  *)
(* any calls and any bounds.                                                *)
(***************************************************************************)
EXTENDS Dbug, FiniteSetTheorems, WellFoundedInduction, TLAPS

-----------------------------------------------------------------------------
(* Induction over the numbers, for a set in place of a predicate            *)

(* Every set of natural numbers that has a member has a least one.           *)
LEMMA LeastNumber ==
    ASSUME NEW S \in SUBSET Nat, S # {}
    PROVE  \E m \in S : \A k \in S : m <= k
<1>1. PICK m \in S : \A k \in S : <<k, m>> \notin OpToRel(<, Nat)
  BY NatLessThanWellFounded, WFMin, Zenon
<1>2. \A k \in S : ~(k < m)
  BY <1>1, Zenon DEF OpToRel
<1> QED BY <1>2

(* What is true of 0, and of i + 1 when it is true of i, is true up to n:    *)
(* holds is the set of numbers it is true of.                                *)
LEMMA Upwards ==
    ASSUME NEW n \in Nat, NEW holds, 0 \in holds,
           \A i \in 1 .. n : i - 1 \in holds => i \in holds
    PROVE  \A i \in 0 .. n : i \in holds
<1> DEFINE fails == {i \in 0 .. n : i \notin holds}
<1>1. SUFFICES ASSUME fails # {}
               PROVE  FALSE
  OBVIOUS
<1>2. PICK m \in fails : \A k \in fails : m <= k
  <2>1. fails \in SUBSET Nat
    OBVIOUS
  <2> HIDE DEF fails
  <2> QED BY <1>1, <2>1, LeastNumber
<1>3. m \in 1 .. n /\ m - 1 \in holds
  BY <1>2
<1> QED BY <1>2, <1>3

(* f begins with first, and has at i what step[i] makes of what is before.   *)
Iterates(f, first, step) ==
    f[0] = first /\ \A i \in DOMAIN step : f[i] = step[i][f[i - 1]]

(* What steps make of first, one after the other, is a function.             *)
LEMMA Iterate ==
    ASSUME NEW n \in Nat, NEW A, NEW first \in A, NEW step \in [1 .. n -> [A -> A]]
    PROVE  \E f \in [0 .. n -> A] : Iterates(f, first, step)
<1> DEFINE Upto(f, k) == f[0] = first /\ \A i \in 1 .. k : f[i] = step[i][f[i - 1]]
           holds == {k \in 0 .. n : \E f \in [0 .. n -> A] : Upto(f, k)}
<1>1. 0 \in holds
  <2> DEFINE f == [i \in 0 .. n |-> first]
  <2>1. f \in [0 .. n -> A] /\ Upto(f, 0)
    OBVIOUS
  <2> HIDE DEF f, Upto
  <2> QED BY <2>1
<1>2. ASSUME NEW k \in 1 .. n, k - 1 \in holds
      PROVE  k \in holds
  <2>1. PICK f \in [0 .. n -> A] : Upto(f, k - 1)
    BY <1>2
  <2> DEFINE turn == step[k][f[k - 1]]
             g    == [f EXCEPT ![k] = turn]
  <2>2. turn \in A /\ k - 1 \in 0 .. n /\ k \in 0 .. n /\ k - 1 # k /\ 0 # k
    BY <2>1
  <2>3. g \in [0 .. n -> A] /\ g[k] = turn /\ \A i \in 0 .. n : i # k => g[i] = f[i]
    BY <2>1, <2>2
  <2>4. ASSUME NEW i \in 1 .. k
        PROVE  g[i] = step[i][g[i - 1]]
    <3>1. CASE i = k
      BY <2>2, <2>3, <3>1
    <3>2. CASE i # k
      <4>1. i \in 1 .. k - 1 /\ i \in 0 .. n /\ i - 1 \in 0 .. n /\ i - 1 # k
        BY <3>2
      <4> HIDE DEF g
      <4> QED BY <2>1, <2>3, <3>2, <4>1
    <3> QED BY <3>1, <3>2
  <2>5. Upto(g, k)
    BY <2>1, <2>2, <2>3, <2>4
  <2> HIDE DEF g, Upto
  <2> QED BY <2>2, <2>3, <2>5
<1>3. n \in holds
  <2>1. \A k \in 0 .. n : k \in holds
    <3> HIDE DEF holds
    <3> QED BY <1>1, <1>2, Upwards
  <2> HIDE DEF holds
  <2> QED BY <2>1
<1>4. PICK f \in [0 .. n -> A] : Upto(f, n)
  BY <1>3
<1>5. Iterates(f, first, step)
  BY <1>4 DEF Iterates
<1> QED BY <1>4, <1>5

-----------------------------------------------------------------------------

(* The types of the state.                                                   *)
Files == Streams \cup {"stderr", "stdout"}

Modifiers ==
    UNION {UNION {ToSet(c[i].mods) : i \in DOMAIN c} : c \in UNION {Controls[t] : t \in Threads}}

Settings ==
    [flags : SUBSET {"DEBUG_ON", "TRACE_ON"}, maxdepth : Modifiers \cup {MAXDEPTH},
     functions : SUBSET Modifiers, keywords : SUBSET Modifiers,
     processes : SUBSET Modifiers, out_file : Files]

Status ==
    [db_on : BOOLEAN, no_db : BOOLEAN, process : Names \cup {"dbug"}, db_fp : Files \cup {NULL}]

Funcs == Functions \cup {"?func"}

Code ==
    [level : 0 .. MaxFrames + 1, func : Funcs, stack : Seq(Settings), locked : BOOLEAN]

Frames == [func : Funcs, level : 1 .. MaxFrames]

(* What Scan works on.                                                       *)
Scanning == [set : Settings, on : BOOLEAN, fp : Files]

(* A field: a flag that is modelled, and a list.                             *)
IsField(f) ==
    /\ f = [flag |-> f.flag, mods |-> f.mods]
    /\ f.flag \in {"d", "f", "o", "p", "t"}
    /\ f.mods \in Seq(Modifiers)

(* A control string of a program, or StartCondition.                         *)
IsControl(control) ==
    /\ control \in Seq(ToSet(control))
    /\ \A i \in 1 .. Len(control) : IsField(control[i])

(* What fopen may return for control.                                        *)
Returned(control, files) ==
    /\ DOMAIN files = 1 .. Len(control)
    /\ \A i \in 1 .. Len(control) :
          /\ files[i] \in (Streams \ open) \cup {NULL}
          /\ files[i] # NULL => control[i].flag = "o" /\ FileName(control[i]) # "-"

(* The streams fopen returned.                                               *)
Given(files) == ToSet(files) \ {NULL}

(* A control string that asks for one file at most.                          *)
OneFile(control) ==
    \A i, j \in 1 .. Len(control) : control[i].flag = "o" /\ control[j].flag = "o" => i = j

(* Where a thread is in a call that writes, and what it writes.              *)
Ops == {"none", "enter", "return", "print", "dump", "alloc", "free", "cleaned", "not cleaned",
        "close"}

Jobs ==
    [op : Ops, text : BOOLEAN] \cup [op : {"cleaned"}, text : {FALSE}, alloc_count : Nat]

InLine(t) == pc[t] \in {"want", "prefix", "text"}

(* The threads that are in a call that frees a block.                        *)
IsFreeing(t) == pc[t] # "run" /\ job[t].op = "free"

Freeing == {u \in Threads : IsFreeing(u)}

Typed ==
    /\ status \in [Threads -> Status]
    /\ code \in [Threads -> Code]
    /\ init_done \in BOOLEAN
    /\ mutex \in Threads \cup {NULL}
    /\ open \subseteq Streams
    /\ mstat \in [alloc_count : Nat, freed_count : Nat]
    /\ frames \in [Threads -> Seq(Frames \cup {NULL})]
    /\ pc \in [Threads -> {"run", "want", "prefix", "text", "compare", "unclosed", "crashed"}]
    /\ job \in [Threads -> Jobs]
    /\ half \subseteq Threads
    /\ live \in Nat

(* The bounds of a level: it is one higher in a call that allocates or frees; *)
(* and what a call that returns has to return from.                          *)
Bounded(t) ==
    /\ pc[t] \in {"run", "compare"} =>
          code[t].level <= MaxFrames /\ job[t].op \notin {"alloc", "free"}
    /\ InLine(t) => IF job[t].op \in {"alloc", "free"} THEN code[t].level >= 1
                    ELSE code[t].level <= MaxFrames
    /\ InLine(t) /\ job[t].op = "return" => frames[t] # <<>> /\ Head(frames[t]) # NULL
    /\ pc[t] = "unclosed" => job[t].op = "close"

(* What holds whatever the program takes care of.  Before init_done nobody   *)
(* has settings, and there is a block for everyone who frees one.            *)
IInv ==
    /\ Typed
    /\ \A t \in Threads : Bounded(t)
    /\ ~init_done => \A t \in Threads : code[t].stack = <<>>
    /\ Cardinality(Freeing) <= live

-----------------------------------------------------------------------------
(* Settings                                                                  *)

LEMMA SeqOfItems ==
    ASSUME NEW S, NEW s, s \in Seq(ToSet(s)), ToSet(s) \subseteq S
    PROVE  s \in Seq(S)
OBVIOUS

LEMMA ControlsAreControls ==
    ASSUME NEW t \in Threads, NEW control, control \in Controls[t]
    PROVE  IsControl(control)
<1>1. /\ control \in Seq(ToSet(control))
      /\ \A f \in ToSet(control) :
            /\ f = [flag |-> f.flag, mods |-> f.mods]
            /\ f.flag \in {"d", "f", "o", "p", "t"}
            /\ f.mods \in Seq(ToSet(f.mods))
  BY DbugAssumption
<1>2. ASSUME NEW i \in 1 .. Len(control)
      PROVE  IsField(control[i])
  <2>1. control[i] \in ToSet(control) /\ i \in DOMAIN control
    BY <1>1 DEF ToSet
  <2>2. ToSet(control[i].mods) \subseteq Modifiers
    BY <2>1 DEF Modifiers
  <2>3. control[i].mods \in Seq(Modifiers)
    BY <1>1, <2>1, <2>2, SeqOfItems
  <2> QED BY <1>1, <2>1, <2>3 DEF IsField
<1> QED BY <1>1, <1>2 DEF IsControl

LEMMA StartConditionIsControl ==
    IsControl(StartCondition) /\ Len(StartCondition) = 2 /\ StartCondition # <<>>
<1>1. Len(StartCondition) = 2 /\ StartCondition # <<>>
  BY DEF StartCondition
<1>2. StartCondition \in Seq(ToSet(StartCondition))
  BY DEF StartCondition, ToSet
<1>3. \A i \in 1 .. Len(StartCondition) : IsField(StartCondition[i])
  <2>1. ASSUME NEW flag \in {"d", "t"}
        PROVE  IsField([flag |-> flag, mods |-> <<>>])
    BY DEF IsField
  <2>2. \A i \in 1 .. 2 : \E flag \in {"d", "t"} :
           StartCondition[i] = [flag |-> flag, mods |-> <<>>]
    BY DEF StartCondition
  <2> QED BY <1>1, <2>1, <2>2
<1> QED BY <1>1, <1>2, <1>3 DEF IsControl

(* The modifiers of a field are modifiers.                                   *)
LEMMA ModsOfField ==
    ASSUME NEW f, IsField(f)
    PROVE  ToSet(f.mods) \subseteq Modifiers /\ (f.mods # <<>> => Last(f.mods) \in Modifiers)
BY DEF IsField, ToSet, Last

(* What a field does: it may open a stream or take stdout, as DBUGOpenFile   *)
(* says, and changes nothing else that a stream depends on.                  *)
LEMMA FieldFacts ==
    ASSUME NEW acc \in Scanning, NEW f, IsField(f), NEW fp \in Streams \cup {NULL},
           NEW new, new = Field(acc, f, fp)
    PROVE  /\ new \in Scanning
           /\ acc.on => new.on
           /\ f.flag # "o" => new.fp = acc.fp /\ new.set.out_file = acc.set.out_file
           /\ f.flag = "o" => \/ new.fp = acc.fp /\ new.set.out_file = acc.set.out_file
                              \/ new.fp = new.set.out_file /\ new.fp \in {"stdout", fp} \ {NULL}
           /\ f.flag = "o" /\ FileName(f) # "-" /\ fp # NULL => new.set.out_file = fp
<1>1. acc.set \in Settings /\ acc = [set |-> acc.set, on |-> acc.on, fp |-> acc.fp]
  BY DEF Scanning
<1>2. NULL \notin {"stderr", "stdout"}
  BY DbugAssumption
<1>3. ToSet(f.mods) \subseteq Modifiers /\ (f.mods # <<>> => Last(f.mods) \in Modifiers)
  BY ModsOfField
<1>4. CASE f.flag = "d"
  <2>1. new = [acc EXCEPT !.on = TRUE, !.set.flags = @ \cup {"DEBUG_ON"},
                          !.set.keywords = ToSet(f.mods)]
    BY <1>4, Zenon DEF Field, ListParse
  <2> DEFINE set == [acc.set EXCEPT !.flags = @ \cup {"DEBUG_ON"}, !.keywords = ToSet(f.mods)]
  <2>2. set \in Settings /\ set.out_file = acc.set.out_file
    BY <1>1, <1>3 DEF Settings
  <2>3. new = [set |-> set, on |-> TRUE, fp |-> acc.fp]
    BY <1>1, <2>1
  <2> HIDE DEF set
  <2> QED BY <1>4, <2>2, <2>3 DEF Scanning
<1>5. CASE f.flag = "f"
  <2>1. new = [acc EXCEPT !.set.functions = ToSet(f.mods)]
    <3>1. f.flag # "d"
      BY <1>5
    <3> QED BY <1>5, <3>1, Zenon DEF Field, ListParse
  <2> QED BY <1>3, <1>5, <2>1 DEF Scanning, Settings
<1>6. CASE f.flag = "p"
  <2>1. new = [acc EXCEPT !.set.processes = ToSet(f.mods)]
    <3>1. f.flag # "d" /\ f.flag # "f"
      BY <1>6
    <3> QED BY <1>6, <3>1, Zenon DEF Field, ListParse
  <2> QED BY <1>3, <1>6, <2>1 DEF Scanning, Settings
<1>7. CASE f.flag = "t"
  <2>1. new = [acc EXCEPT !.set.flags = @ \cup {"TRACE_ON"},
                          !.set.maxdepth = IF f.mods = <<>> THEN @ ELSE Last(f.mods)]
    <3>1. f.flag # "d" /\ f.flag # "f" /\ f.flag # "p"
      BY <1>7
    <3> QED BY <1>7, <3>1, Zenon DEF Field
  <2> DEFINE depth == IF f.mods = <<>> THEN acc.set.maxdepth ELSE Last(f.mods)
             set   == [acc.set EXCEPT !.flags = @ \cup {"TRACE_ON"}, !.maxdepth = depth]
  <2>2. depth \in Modifiers \cup {MAXDEPTH}
    BY <1>1, <1>3 DEF Settings
  <2>3. set \in Settings /\ set.out_file = acc.set.out_file
    <3> HIDE DEF depth
    <3> QED BY <1>1, <2>2 DEF Settings
  <2>4. new = [set |-> set, on |-> acc.on, fp |-> acc.fp]
    BY <1>1, <2>1
  <2> HIDE DEF set
  <2> QED BY <1>7, <2>3, <2>4 DEF Scanning
<1>8. CASE f.flag = "o"
  <2>1. new = DBUGOpenFile(acc, FileName(f), fp)
    <3>1. f.flag # "d" /\ f.flag # "f" /\ f.flag # "p" /\ f.flag # "t"
      BY <1>8
    <3> QED BY <1>8, <3>1, Zenon DEF Field
  <2>2. CASE FileName(f) = "-"
    <3>1. new = [acc EXCEPT !.fp = "stdout", !.set.out_file = "stdout"]
      BY <2>1, <2>2, Zenon DEF DBUGOpenFile
    <3> DEFINE set == [acc.set EXCEPT !.out_file = "stdout"]
    <3>2. set \in Settings /\ set.out_file = "stdout"
      BY <1>1 DEF Settings, Files
    <3>3. new = [set |-> set, on |-> acc.on, fp |-> "stdout"]
      BY <1>1, <3>1
    <3> HIDE DEF set
    <3> QED BY <1>2, <1>8, <2>2, <3>2, <3>3 DEF Scanning, Files
  <2>3. CASE FileName(f) # "-" /\ fp = NULL
    <3>1. new = acc
      BY <2>1, <2>3, Zenon DEF DBUGOpenFile
    <3> QED BY <1>8, <2>3, <3>1
  <2>4. CASE FileName(f) # "-" /\ fp # NULL
    <3>1. new = [acc EXCEPT !.fp = fp, !.set.out_file = fp]
      BY <2>1, <2>4, Zenon DEF DBUGOpenFile
    <3> DEFINE set == [acc.set EXCEPT !.out_file = fp]
    <3>2. set \in Settings /\ set.out_file = fp
      BY <1>1, <2>4 DEF Settings, Files
    <3>3. new = [set |-> set, on |-> acc.on, fp |-> fp]
      BY <1>1, <3>1
    <3> HIDE DEF set
    <3> QED BY <1>8, <2>4, <3>2, <3>3 DEF Scanning, Files
  <2> QED BY <2>2, <2>3, <2>4
<1> QED BY <1>4, <1>5, <1>6, <1>7, <1>8 DEF IsField

(* Scan is the function its definition says.                                 *)
LEMMA ScanUnfolds ==
    ASSUME NEW start \in Scanning, NEW control, IsControl(control),
           NEW files, Returned(control, files)
    PROVE  LET s == Scan(start, control, files) IN
           /\ s \in [0 .. Len(control) -> Scanning]
           /\ s[0] = start
           /\ \A i \in 1 .. Len(control) : s[i] = Field(s[i - 1], control[i], files[i])
<1> DEFINE n     == Len(control)
           step == [i \in 1 .. n |-> [a \in Scanning |-> Field(a, control[i], files[i])]]
           Body(f) == [i \in 0 .. n |-> IF i = 0 THEN start
                                         ELSE Field(f[i - 1], control[i], files[i])]
           s == Scan(start, control, files)
<1>1. n \in Nat
  BY DEF IsControl
<1>2. \A a \in Scanning, i \in 1 .. n :
         /\ Field(a, control[i], files[i]) \in Scanning
         /\ step[i][a] = Field(a, control[i], files[i])
  <2> SUFFICES ASSUME NEW a \in Scanning, NEW i \in 1 .. n
               PROVE  /\ Field(a, control[i], files[i]) \in Scanning
                      /\ step[i][a] = Field(a, control[i], files[i])
    OBVIOUS
  <2>1. IsField(control[i]) /\ files[i] \in Streams \cup {NULL}
    BY DEF IsControl, Returned
  <2>2. Field(a, control[i], files[i]) \in Scanning
    BY <2>1, FieldFacts
  <2> QED BY <2>2
<1>3. step \in [1 .. n -> [Scanning -> Scanning]]
  BY <1>2
<1>4. PICK f \in [0 .. n -> Scanning] :
         f[0] = start /\ \A i \in 1 .. n : f[i] = step[i][f[i - 1]]
  <2>1. \E f \in [0 .. n -> Scanning] : Iterates(f, start, step)
    <3> HIDE DEF n, step
    <3> QED BY <1>1, <1>3, Iterate
  <2>2. DOMAIN step = 1 .. n
    OBVIOUS
  <2> HIDE DEF n, step
  <2> QED BY <2>1, <2>2 DEF Iterates
<1>5. f = Body(f)
  <2>1. ASSUME NEW i \in 1 .. n
        PROVE  f[i] = Field(f[i - 1], control[i], files[i])
    <3>1. f[i - 1] \in Scanning /\ f[i] = step[i][f[i - 1]]
      <4> HIDE DEF n, step
      <4> QED BY <1>1, <1>4
    <3> QED BY <1>2, <3>1
  <2>2. \A i \in 0 .. n : i = 0 \/ i \in 1 .. n
    BY <1>1
  <2> HIDE DEF n, step
  <2> QED BY <1>4, <2>1, <2>2
<1>6. s = CHOOSE g : g = Body(g)
  BY DEF Scan
<1>7. s = Body(s)
  <2> HIDE DEF Body, s
  <2> QED BY <1>5, <1>6
<1>8. s[0] = start /\ \A i \in 1 .. n : s[i] = Field(s[i - 1], control[i], files[i])
  <2>1. 0 \in 0 .. n /\ \A i \in 1 .. n : i \in 0 .. n /\ i # 0
    BY <1>1
  <2> HIDE DEF n, s
  <2> QED BY <1>7, <2>1
<1>9. \A i \in 0 .. n : s[i] \in Scanning
  <2> DEFINE holds == {i \in 0 .. n : s[i] \in Scanning}
  <2>1. 0 \in holds
    BY <1>1, <1>8
  <2>2. \A i \in 1 .. n : i - 1 \in holds => i \in holds
    <3> SUFFICES ASSUME NEW i \in 1 .. n, s[i - 1] \in Scanning
                 PROVE  i \in 0 .. n /\ s[i] \in Scanning
      OBVIOUS
    <3>1. Field(s[i - 1], control[i], files[i]) \in Scanning
      BY <1>2
    <3> HIDE DEF s
    <3> QED BY <1>1, <1>8, <3>1
  <2>3. \A i \in 0 .. n : i \in holds
    <3> HIDE DEF n, holds
    <3> QED BY <1>1, <2>1, <2>2, Upwards
  <2> QED BY <2>3
<1>10. s \in [0 .. n -> Scanning]
  <2> HIDE DEF n, s
  <2> QED BY <1>7, <1>9
<1> QED BY <1>8, <1>10

(* What a scan makes of start, as far as streams and db_on go.               *)
Follows(acc, start, i, control, files) ==
    /\ acc.set.out_file \in {"stderr", "stdout"} \cup Given(files)
    /\ acc.fp \in {acc.set.out_file, start.fp}
    /\ start.on => acc.on
    /\ OneFile(control) => \A j \in 1 .. i : files[j] # NULL => acc.set.out_file = files[j]

LEMMA FieldFollows ==
    ASSUME NEW control, IsControl(control), NEW files, Returned(control, files),
           NEW start \in Scanning, NEW acc \in Scanning, NEW i \in 1 .. Len(control),
           Follows(acc, start, i - 1, control, files),
           NEW new, new = Field(acc, control[i], files[i])
    PROVE  Follows(new, start, i, control, files)
<1> DEFINE f == control[i]
           fp == files[i]
<1>1. IsField(f) /\ fp \in Streams \cup {NULL}
  BY DEF IsControl, Returned
<1>2. /\ acc.on => new.on
      /\ f.flag # "o" => new.fp = acc.fp /\ new.set.out_file = acc.set.out_file
      /\ f.flag = "o" => \/ new.fp = acc.fp /\ new.set.out_file = acc.set.out_file
                         \/ new.fp = new.set.out_file /\ new.fp \in {"stdout", fp} \ {NULL}
      /\ f.flag = "o" /\ FileName(f) # "-" /\ fp # NULL => new.set.out_file = fp
  BY <1>1, FieldFacts
<1>3. fp # NULL => f.flag = "o" /\ FileName(f) # "-" /\ fp \in Given(files)
  BY DEF Returned, Given, ToSet
<1>4. start.on => new.on
  BY <1>2 DEF Follows
<1>5. new.set.out_file \in {"stderr", "stdout"} \cup Given(files)
  BY <1>2, <1>3 DEF Follows
<1>6. new.fp \in {new.set.out_file, start.fp}
  BY <1>2 DEF Follows
<1>7. ASSUME OneFile(control), NEW j \in 1 .. i, files[j] # NULL
      PROVE  new.set.out_file = files[j]
  <2>1. CASE j = i
    BY <1>2, <1>3, <1>7, <2>1
  <2>2. CASE j # i
    <3>1. j \in 1 .. i - 1 /\ j \in 1 .. Len(control)
      BY <2>2 DEF IsControl
    <3>2. control[j].flag = "o" /\ acc.set.out_file = files[j]
      BY <1>7, <3>1 DEF Follows, Returned
    <3>3. f.flag # "o"
      BY <1>7, <2>2, <3>1, <3>2 DEF OneFile
    <3> QED BY <1>2, <3>2, <3>3
  <2> QED BY <2>1, <2>2
<1> QED BY <1>4, <1>5, <1>6, <1>7 DEF Follows

(* What _db_push_ does: settings of the control string are put on the stack; *)
(* the thread writes to their file, or where it wrote before, or to stderr.  *)
Pushes(p, c, st, control, files) ==
    \E set \in Settings, on \in BOOLEAN, fp \in Files :
       /\ p.code = [c EXCEPT !.stack = <<set>> \o @]
       /\ p.status = [st EXCEPT !.db_fp = fp, !.db_on = on,
                                !.no_db = IF control = <<>> THEN @ ELSE FALSE]
       /\ fp \in {set.out_file, st.db_fp, "stderr"}
       /\ set.out_file \in {"stderr", "stdout"} \cup Given(files)
       /\ st.db_on => on
       /\ control = <<>> => on = st.db_on
       /\ OneFile(control) => Given(files) \subseteq {set.out_file}

LEMMA PushedFacts ==
    ASSUME NEW c \in Code, NEW st \in Status, NEW control, IsControl(control),
           NEW files, Returned(control, files),
           NEW p, p = Pushed(c, st, control, files)
    PROVE  Pushes(p, c, st, control, files)
<1> DEFINE n     == Len(control)
           start == [set |-> FreshSettings, on |-> st.db_on,
                     fp |-> IF st.db_fp = NULL THEN "stderr" ELSE st.db_fp]
           s     == Scan(start, control, files)
           acc   == s[n]
<1>1. n \in Nat /\ (control = <<>> => n = 0)
  BY DEF IsControl
<1>2. start \in Scanning
  <2>1. FreshSettings \in Settings
    BY DEF FreshSettings, Settings, Files
  <2> QED BY <2>1 DEF Scanning, Status, Files
<1>3. /\ s \in [0 .. n -> Scanning]
      /\ s[0] = start
      /\ \A i \in 1 .. n : s[i] = Field(s[i - 1], control[i], files[i])
  <2> HIDE DEF start
  <2> QED BY <1>2, ScanUnfolds
<1> DEFINE holds == {i \in 0 .. n : Follows(s[i], start, i, control, files)}
<1>4. 0 \in holds
  <2>1. start.set.out_file = "stderr"
    BY DEF FreshSettings
  <2>2. Follows(start, start, 0, control, files)
    <3> HIDE DEF start
    <3> QED BY <2>1 DEF Follows
  <2> HIDE DEF start, s, n
  <2> QED BY <1>1, <1>3, <2>2
<1>5. ASSUME NEW i \in 1 .. n, i - 1 \in holds
      PROVE  i \in holds
  <2>1. s[i - 1] \in Scanning /\ Follows(s[i - 1], start, i - 1, control, files)
    <3> HIDE DEF s, start
    <3> QED BY <1>3, <1>5
  <2>2. Follows(s[i], start, i, control, files)
    <3> HIDE DEF s, start
    <3> QED BY <1>2, <1>3, <2>1, FieldFollows
  <2> QED BY <1>1, <2>2
<1>6. acc \in Scanning /\ Follows(acc, start, n, control, files)
  <2>1. n \in 0 .. n
    BY <1>1
  <2>2. \A i \in 0 .. n : i \in holds
    <3> HIDE DEF holds, n
    <3> QED BY <1>1, <1>4, <1>5, Upwards
  <2> HIDE DEF s, start, n
  <2> QED BY <1>3, <2>1, <2>2
<1>7. /\ p.code = [c EXCEPT !.stack = <<acc.set>> \o @]
      /\ p.status = [st EXCEPT !.db_fp = acc.fp, !.db_on = acc.on,
                               !.no_db = IF control = <<>> THEN @ ELSE FALSE]
  BY DEF Pushed
<1>8. acc.set \in Settings /\ acc.on \in BOOLEAN /\ acc.fp \in Files
  <2> HIDE DEF acc
  <2> QED BY <1>6 DEF Scanning
<1>9. acc.fp \in {acc.set.out_file, st.db_fp, "stderr"} /\ (st.db_on => acc.on)
  <2>1. start.fp \in {st.db_fp, "stderr"} /\ start.on = st.db_on
    OBVIOUS
  <2> HIDE DEF acc, start
  <2> QED BY <1>6, <2>1 DEF Follows
<1>10. control = <<>> => acc.on = st.db_on
  <2>1. start.on = st.db_on
    OBVIOUS
  <2> HIDE DEF s, start, n
  <2> QED BY <1>1, <1>3, <2>1
<1>11. acc.set.out_file \in {"stderr", "stdout"} \cup Given(files)
  <2> HIDE DEF acc, start
  <2> QED BY <1>6 DEF Follows
<1>12. OneFile(control) => Given(files) \subseteq {acc.set.out_file}
  <2>1. \A x \in Given(files) : \E j \in 1 .. n : files[j] = x /\ x # NULL
    BY DEF Given, ToSet, Returned
  <2> HIDE DEF acc, start, n
  <2> QED BY <1>6, <2>1 DEF Follows
<1> HIDE DEF acc
<1> QED BY <1>7, <1>8, <1>9, <1>10, <1>11, <1>12 DEF Pushes

LEMMA OpenedAreReturned ==
    ASSUME NEW control, IsControl(control), NEW files \in Opened(control)
    PROVE  Returned(control, files)
<1>1. DOMAIN control = 1 .. Len(control)
  BY DEF IsControl
<1> QED BY <1>1 DEF Opened, Opening, Returned

(* What a call that finds that nothing was pushed in the process does.       *)
Starts(s, t) ==
    \E set \in Settings, on \in BOOLEAN, fp \in Files :
       /\ s.code = [code[t] EXCEPT !.stack = <<set>> \o @]
       /\ s.status = [status[t] EXCEPT !.db_fp = fp, !.db_on = on, !.no_db = FALSE]
       /\ fp \in {status[t].db_fp, "stderr", "stdout"}
       /\ set.out_file \in {"stderr", "stdout"}

LEMMA StartedFacts ==
    ASSUME Typed, NEW t \in Threads, NEW s, s = Started(t)
    PROVE  IF init_done THEN s.code = code[t] /\ s.status = status[t] ELSE Starts(s, t)
<1>1. CASE init_done
  BY <1>1 DEF Started
<1>2. CASE ~init_done
  <2> DEFINE files == <<NULL, NULL>>
  <2>1. Returned(StartCondition, files) /\ Given(files) = {}
    BY StartConditionIsControl DEF Returned, Given, ToSet
  <2>2. s = Pushed(code[t], status[t], StartCondition, files)
    BY <1>2 DEF Started
  <2>3. code[t] \in Code /\ status[t] \in Status
    BY DEF Typed
  <2> HIDE DEF files
  <2>4. PICK set \in Settings, on \in BOOLEAN, fp \in Files :
           /\ s.code = [code[t] EXCEPT !.stack = <<set>> \o @]
           /\ s.status = [status[t] EXCEPT !.db_fp = fp, !.db_on = on,
                             !.no_db = IF StartCondition = <<>> THEN @ ELSE FALSE]
           /\ fp \in {set.out_file, status[t].db_fp, "stderr"}
           /\ set.out_file \in {"stderr", "stdout"} \cup Given(files)
    <3>1. Pushes(s, code[t], status[t], StartCondition, files)
      BY <2>1, <2>2, <2>3, StartConditionIsControl, PushedFacts
    <3> QED BY <3>1 DEF Pushes
  <2>5. s.status = [status[t] EXCEPT !.db_fp = fp, !.db_on = on, !.no_db = FALSE]
    BY <2>4, StartConditionIsControl
  <2>6. /\ set.out_file \in {"stderr", "stdout"}
        /\ fp \in {status[t].db_fp, "stderr", "stdout"}
    BY <2>1, <2>4
  <2> QED BY <1>2, <2>4, <2>5, <2>6 DEF Starts
<1> QED BY <1>1, <1>2

LEMMA StartedTypes ==
    ASSUME Typed, NEW t \in Threads
    PROVE  LET s == Started(t) IN
           /\ s.code \in Code /\ s.status \in Status
           /\ s.code.level = code[t].level /\ s.code.locked = code[t].locked
<1> DEFINE s == Started(t)
<1>1. code[t] \in Code /\ status[t] \in Status
  BY DEF Typed
<1>2. CASE ~init_done
  <2>1. PICK set \in Settings, on \in BOOLEAN, fp \in Files :
           /\ s.code = [code[t] EXCEPT !.stack = <<set>> \o @]
           /\ s.status = [status[t] EXCEPT !.db_fp = fp, !.db_on = on, !.no_db = FALSE]
    <3>1. Starts(s, t)
      BY <1>2, StartedFacts
    <3> QED BY <3>1 DEF Starts
  <2>2. <<set>> \o code[t].stack \in Seq(Settings)
    BY <1>1 DEF Code
  <2>3. /\ s.code \in Code
        /\ s.code.level = code[t].level /\ s.code.locked = code[t].locked
    <3> HIDE DEF s
    <3> QED BY <1>1, <2>1, <2>2 DEF Code
  <2>4. s.status \in Status
    <3> HIDE DEF s
    <3> QED BY <1>1, <2>1 DEF Status
  <2> QED BY <2>3, <2>4
<1>3. CASE init_done
  BY <1>1, <1>3, StartedFacts
<1> QED BY <1>2, <1>3

(* It does not switch the debugger off.                                      *)
LEMMA StartedSwitch ==
    ASSUME Typed, NEW t \in Threads, ~status[t].no_db
    PROVE  ~Started(t).status.no_db
<1>1. CASE init_done
  BY <1>1 DEF Started
<1>2. CASE ~init_done
  <2> DEFINE s == Started(t)
  <2>1. PICK on \in BOOLEAN, fp \in Files :
           s.status = [status[t] EXCEPT !.db_fp = fp, !.db_on = on, !.no_db = FALSE]
    <3>1. Starts(s, t)
      BY <1>2, StartedFacts
    <3> HIDE DEF s
    <3> QED BY <3>1 DEF Starts
  <2> HIDE DEF s
  <2>2. ~s.status.no_db
    BY <2>1 DEF Typed, Status
  <2> QED BY <2>2 DEF s
<1> QED BY <1>1, <1>2

-----------------------------------------------------------------------------
(* Types and bounds.                                                         *)

LEMMA InitIInv == Init => IInv
<1> SUFFICES ASSUME Init
             PROVE  IInv
  OBVIOUS
<1>1. Typed
  <2>1. FreshStatus \in Status
    BY DEF FreshStatus, Status
  <2>2. FreshCode \in Code
    BY DbugAssumption DEF FreshCode, Code, Funcs
  <2>3. NoJob \in Jobs
    BY DEF NoJob, Jobs, Ops
  <2>4. status \in [Threads -> Status] /\ code \in [Threads -> Code] /\ job \in [Threads -> Jobs]
    BY <2>1, <2>2, <2>3 DEF Init
  <2>5. frames \in [Threads -> Seq(Frames \cup {NULL})]
    BY DEF Init
  <2>6. /\ init_done \in BOOLEAN
        /\ mutex \in Threads \cup {NULL}
        /\ open \subseteq Streams
        /\ mstat \in [alloc_count : Nat, freed_count : Nat]
        /\ pc \in [Threads -> {"run", "want", "prefix", "text", "compare", "unclosed", "crashed"}]
        /\ half \subseteq Threads
        /\ live \in Nat
    BY DEF Init
  <2> QED BY <2>4, <2>5, <2>6 DEF Typed
<1>2. \A t \in Threads : Bounded(t)
  BY DbugAssumption DEF Init, Bounded, FreshCode, NoJob, InLine
<1>3. \A t \in Threads : code[t].stack = <<>>
  BY DEF Init, FreshCode
<1>4. Freeing = {}
  BY DEF Init, Freeing, IsFreeing
<1>5. Cardinality(Freeing) <= live
  BY <1>4, FS_EmptySet DEF Init
<1> QED BY <1>1, <1>2, <1>3, <1>5 DEF IInv

(* What every change of settings has in common: the thread is in no line,    *)
(* and keeps its level or starts anew.                                       *)
LEMMA PushTypes ==
    ASSUME Typed, NEW t \in Threads, NEW control \in Controls[t],
           NEW files \in Opened(control), NEW p, p = Pushed(code[t], status[t], control, files)
    PROVE  /\ p.code \in Code /\ p.status \in Status
           /\ (status[t].db_on => ~status[t].no_db) => (p.status.db_on => ~p.status.no_db)
           /\ p.code.level = code[t].level /\ p.code.locked = code[t].locked
<1>1. IsControl(control) /\ Returned(control, files)
  BY ControlsAreControls, OpenedAreReturned
<1>2. code[t] \in Code /\ status[t] \in Status
  BY DEF Typed
<1>3. Pushes(p, code[t], status[t], control, files)
  BY <1>1, <1>2, PushedFacts
<1>4. PICK set \in Settings, on \in BOOLEAN, fp \in Files :
         /\ p.code = [code[t] EXCEPT !.stack = <<set>> \o @]
         /\ p.status = [status[t] EXCEPT !.db_fp = fp, !.db_on = on,
                           !.no_db = IF control = <<>> THEN @ ELSE FALSE]
         /\ control = <<>> => on = status[t].db_on
  BY <1>3, ZenonT(40) DEF Pushes
<1>5. <<set>> \o code[t].stack \in Seq(Settings)
  BY <1>2 DEF Code
<1>6. p.code \in Code /\ p.code.level = code[t].level /\ p.code.locked = code[t].locked
  BY <1>2, <1>4, <1>5 DEF Code
<1>7. p.status \in Status
  BY <1>2, <1>4 DEF Status
<1>8. (status[t].db_on => ~status[t].no_db) => (p.status.db_on => ~p.status.no_db)
  <2>1. /\ p.status.db_on = on
        /\ p.status.no_db = IF control = <<>> THEN status[t].no_db ELSE FALSE
    BY <1>2, <1>4 DEF Status
  <2> QED BY <1>4, <2>1
<1> QED BY <1>6, <1>7, <1>8

(* The calls that change the verbosity: no fclose fails, or one does.        *)
Ends(t) == Idle(t) /\ MayChange(t) /\ MayEnd(t) /\ DbEnd(t) /\ UNCHANGED <<init_done, quiet>>

Pops(t) == Idle(t) /\ MayChange(t) /\ DbPop(t) /\ UNCHANGED <<init_done, quiet>>

Succeeds(t) ==
    \/ \E control \in Controls[t] : Enable(t, control) \/ PushControl(t, control)
    \/ Ends(t) \/ Suspend(t) \/ Resume(t) \/ Pops(t)
    \/ \E name \in Names : Process(t, name)

(* The first i settings of a thread are closed, and the later ones are still *)
(* on its stack.                                                             *)
Loses(t, c, st, i) ==
    /\ code' = [code EXCEPT ![t] = c] /\ status' = [status EXCEPT ![t] = st]
    /\ open' = open \ FreeState(SubSeq(code[t].stack, 1, i))
    /\ c.level = code[t].level /\ c.locked = code[t].locked /\ c.stack # <<>>
    /\ (status[t].db_on => ~status[t].no_db) => (st.db_on => ~st.no_db)
    /\ \A j \in DOMAIN code[t].stack : j > i =>
          \E k \in DOMAIN c.stack : c.stack[k] = code[t].stack[j]

Fails(t) ==
    /\ Idle(t) /\ MayChange(t)
    /\ \E c \in Code, st \in Status : \E i \in DOMAIN code[t].stack : Loses(t, c, st, i)
    /\ pc' = [pc EXCEPT ![t] = "unclosed"]
    /\ job' = [job EXCEPT ![t] = [op |-> "close", text |-> TRUE]]
    /\ UNCHANGED <<init_done, mutex, mstat, frames, half, live>>

LEMMA SeqFrom ==
    ASSUME NEW S, NEW s \in Seq(S), NEW i \in DOMAIN s
    PROVE  /\ SubSeq(s, i, Len(s)) \in Seq(S) /\ SubSeq(s, i, Len(s)) # <<>>
           /\ \A j \in DOMAIN s : j > i =>
                 \E k \in DOMAIN SubSeq(s, i, Len(s)) : SubSeq(s, i, Len(s))[k] = s[j]
<1> DEFINE rest == SubSeq(s, i, Len(s))
<1>1. Len(s) \in Nat /\ i \in 1 .. Len(s)
  OBVIOUS
<1>2. /\ rest \in Seq(S) /\ Len(rest) = Len(s) - i + 1
      /\ \A k \in 1 .. Len(s) - i + 1 : rest[k] = s[i + k - 1]
  BY <1>1
<1> HIDE DEF rest
<1>3. rest # <<>>
  BY <1>1, <1>2
<1>4. ASSUME NEW j \in DOMAIN s, j > i
      PROVE  \E k \in DOMAIN rest : rest[k] = s[j]
  <2>1. j \in 1 .. Len(s)
    OBVIOUS
  <2>2. j - i + 1 \in 1 .. Len(s) - i + 1 /\ i + (j - i + 1) - 1 = j
    BY <1>1, <1>4, <2>1
  <2>3. rest[j - i + 1] = s[j] /\ j - i + 1 \in DOMAIN rest
    BY <1>1, <1>2, <2>2
  <2> QED BY <2>3
<1> QED BY <1>2, <1>3, <1>4 DEF rest

LEMMA CloseFailsFacts ==
    ASSUME NEW t \in Threads, NEW i, CloseFails(t, i)
    PROVE  /\ open' = open \ FreeState(SubSeq(code[t].stack, 1, i))
           /\ pc' = [pc EXCEPT ![t] = "unclosed"]
           /\ job' = [job EXCEPT ![t] = [op |-> "close", text |-> TRUE]]
           /\ UNCHANGED <<init_done, mutex, mstat, frames, half, live>>
BY DEF CloseFails

(* The tail of a sequence that has more than one element is not empty.       *)
LEMMA TailLeft ==
    ASSUME NEW S, NEW s \in Seq(S), Len(s) > 1
    PROVE  Tail(s) # <<>>
<1>1. 1 \in DOMAIN Tail(s)
  OBVIOUS
<1>2. DOMAIN <<>> = {}
  OBVIOUS
<1> QED BY <1>1, <1>2

LEMMA PopFails ==
    ASSUME IInv, NEW t \in Threads, Idle(t), MayChange(t), PopUnclosed(t)
    PROVE  Fails(t)
<1> DEFINE stack == code[t].stack
           c  == [code[t] EXCEPT !.stack = Tail(stack)]
           st == [status[t] EXCEPT !.db_fp = stack[2].out_file]
<1>1. code[t] \in Code /\ status[t] \in Status /\ Typed
  BY DEF IInv, Typed
<1>2. stack \in Seq(Settings) /\ Len(stack) > 1 /\ CloseFails(t, 1)
      /\ code' = [code EXCEPT ![t] = c] /\ status' = [status EXCEPT ![t] = st]
  BY <1>1 DEF PopUnclosed, Code, Typed
<1> HIDE DEF stack
<1>3. /\ Tail(stack) \in Seq(Settings) /\ Tail(stack) # <<>> /\ 1 \in DOMAIN stack
      /\ stack[2] \in Settings
  <2>1. stack \in Seq(Settings) /\ Len(stack) > 1
    BY <1>2
  <2> HIDE DEF c, st
  <2>2. Tail(stack) # <<>>
    BY <2>1, TailLeft
  <2>3. stack # <<>>
    BY <2>1
  <2>4. Tail(stack) \in Seq(Settings)
    BY <2>1, <2>3
  <2>5. 1 \in DOMAIN stack
    BY <2>1
  <2>6. stack[2] \in Settings
    BY <2>1
  <2> QED BY <2>2, <2>4, <2>5, <2>6
<1>4. \A j \in DOMAIN stack : j > 1 => \E k \in DOMAIN Tail(stack) : Tail(stack)[k] = stack[j]
  <2> SUFFICES ASSUME NEW j \in 2 .. Len(stack)
               PROVE  \E k \in DOMAIN Tail(stack) : Tail(stack)[k] = stack[j]
    BY <1>2
  <2>1. j - 1 \in DOMAIN Tail(stack) /\ Tail(stack)[j - 1] = stack[j]
    BY <1>2
  <2> QED BY <2>1
<1>5. c \in Code /\ c.level = code[t].level /\ c.locked = code[t].locked
      /\ c.stack = Tail(stack)
  BY <1>1, <1>3 DEF Code
<1>6. st \in Status /\ st.db_on = status[t].db_on /\ st.no_db = status[t].no_db
  <2>1. stack[2].out_file \in Files
    BY <1>3 DEF Settings
  <2> QED BY <1>1, <2>1 DEF Status
<1> HIDE DEF c, st
<1>7. open' = open \ FreeState(SubSeq(stack, 1, 1))
  BY <1>2, CloseFailsFacts DEF stack
<1>8. Loses(t, c, st, 1)
  BY <1>2, <1>3, <1>4, <1>5, <1>6, <1>7 DEF Loses, stack
<1>9. \E i \in DOMAIN code[t].stack : Loses(t, c, st, i)
  BY <1>3, <1>8 DEF stack
<1> QED BY <1>2, <1>5, <1>6, <1>9, CloseFailsFacts DEF Fails

LEMMA EndFails ==
    ASSUME IInv, NEW t \in Threads, Idle(t), MayChange(t), NEW st \in Status, EndUnclosed(t, st),
           (status[t].db_on => ~status[t].no_db) => (st.db_on => ~st.no_db)
    PROVE  Fails(t)
<1> DEFINE stack == code[t].stack
<1>1. code[t] \in Code /\ Typed /\ stack \in Seq(Settings)
  BY DEF IInv, Typed, Code
<1>2. PICK i \in DOMAIN stack :
         CloseFails(t, i) /\ code' = [code EXCEPT ![t].stack = SubSeq(stack, i, Len(stack))]
  BY DEF EndUnclosed
<1> DEFINE rest == SubSeq(stack, i, Len(stack))
           c    == [code[t] EXCEPT !.stack = rest]
<1>3. code' = [code EXCEPT ![t] = c] /\ status' = [status EXCEPT ![t] = st]
  BY <1>1, <1>2 DEF EndUnclosed, Typed
<1> HIDE DEF stack
<1>4. /\ rest \in Seq(Settings) /\ rest # <<>>
      /\ \A j \in DOMAIN stack : j > i => \E k \in DOMAIN rest : rest[k] = stack[j]
  BY <1>1, SeqFrom
<1> HIDE DEF rest
<1>5. c \in Code /\ c.level = code[t].level /\ c.locked = code[t].locked /\ c.stack = rest
  BY <1>1, <1>4 DEF Code
<1> HIDE DEF c
<1>6. open' = open \ FreeState(SubSeq(stack, 1, i))
  BY <1>2, CloseFailsFacts DEF stack
<1>7. Loses(t, c, st, i)
  BY <1>3, <1>4, <1>5, <1>6 DEF Loses, stack
<1>8. \E k \in DOMAIN code[t].stack : Loses(t, c, st, k)
  BY <1>7 DEF stack
<1> QED BY <1>2, <1>5, <1>8, CloseFailsFacts DEF Fails

LEMMA VerbosityCases ==
    ASSUME IInv, NEW t \in Threads, Verbosity(t)
    PROVE  Succeeds(t) \/ Fails(t)
<1>1. status[t] \in Status /\ FreshStatus \in Status /\ ~FreshStatus.db_on
  BY DEF IInv, Typed, FreshStatus, Status
<1>2. CASE Disable(t)
  <2> DEFINE st == [status[t] EXCEPT !.no_db = TRUE, !.db_on = FALSE]
  <2>1. Idle(t) /\ MayChange(t) /\ MayEnd(t)
        /\ \/ DbEnd(t) /\ UNCHANGED <<init_done, quiet>>
           \/ EndUnclosed(t, st)
    BY <1>2 DEF Disable
  <2>2. st \in Status /\ ~st.db_on
    BY <1>1 DEF Status
  <2> HIDE DEF st
  <2>3. EndUnclosed(t, st) => Fails(t)
    BY <2>1, <2>2, EndFails
  <2>4. DbEnd(t) /\ UNCHANGED <<init_done, quiet>> => Ends(t)
    BY <2>1 DEF Ends
  <2> QED BY <2>1, <2>3, <2>4 DEF Succeeds
<1>3. CASE Exit(t)
  <2>1. Idle(t) /\ MayChange(t) /\ MayEnd(t)
        /\ \/ DbEnd(t) /\ UNCHANGED <<init_done, quiet>>
           \/ \E st \in {status[t], FreshStatus} : EndUnclosed(t, st)
    BY <1>3 DEF Exit, MayChange
  <2>2. EndUnclosed(t, status[t]) => Fails(t)
    BY <1>1, <2>1, EndFails
  <2>3. EndUnclosed(t, FreshStatus) => Fails(t)
    <3> HIDE DEF FreshStatus
    <3> QED BY <1>1, <2>1, EndFails
  <2>4. DbEnd(t) /\ UNCHANGED <<init_done, quiet>> => Ends(t)
    BY <2>1 DEF Ends
  <2> QED BY <2>1, <2>2, <2>3, <2>4 DEF Succeeds
<1>4. CASE Pop(t)
  <2>1. Idle(t) /\ MayChange(t)
        /\ \/ DbPop(t) /\ UNCHANGED <<init_done, quiet>>
           \/ PopUnclosed(t)
    BY <1>4 DEF Pop
  <2>2. DbPop(t) /\ UNCHANGED <<init_done, quiet>> => Pops(t)
    BY <2>1 DEF Pops
  <2> QED BY <2>1, <2>2, PopFails DEF Succeeds
<1>5. CASE \/ \E control \in Controls[t] : Enable(t, control) \/ PushControl(t, control)
           \/ Suspend(t) \/ Resume(t) \/ \E name \in Names : Process(t, name)
  BY <1>5 DEF Succeeds
<1> QED BY <1>2, <1>3, <1>4, <1>5 DEF Verbosity

LEMMA SucceedIInv ==
    ASSUME IInv, NEW t \in Threads, Succeeds(t)
    PROVE  IInv'
<1> USE DEF IInv
<1> DEFINE OnlySettings ==
             /\ code' \in [Threads -> Code] /\ status' \in [Threads -> Status]
             /\ open' \subseteq Streams /\ init_done' \in BOOLEAN
             /\ Idle(t) /\ UNCHANGED quiet
             /\ code'[t].level <= code[t].level
             /\ \A u \in Threads \ {t} : code'[u] = code[u]
             /\ ~init_done' => ~init_done /\ code'[t].stack = <<>>
<1>1. SUFFICES OnlySettings
  <2>1. Typed'
    BY <1>1 DEF Typed, quiet
  <2>2. ASSUME NEW u \in Threads
        PROVE  Bounded(u)'
    <3>1. pc'[u] = pc[u] /\ job'[u] = job[u] /\ frames'[u] = frames[u]
      BY <1>1 DEF quiet
    <3>2. CASE u = t
      <4>1. /\ code[u].level \in Int /\ code'[u].level \in Int /\ MaxFrames \in Int
            /\ code'[u].level <= code[u].level
        BY <1>1, <2>1, <3>2, DbugAssumption DEF Typed, Code
      <4>2. Bounded(u) /\ pc[u] = "run"
        BY <1>1, <3>2 DEF Idle
      <4> QED BY <3>1, <4>1, <4>2 DEF Bounded, InLine
    <3>3. CASE u # t
      <4>1. Bounded(u) /\ code'[u] = code[u]
        BY <1>1, <3>3
      <4> QED BY <3>1, <4>1 DEF Bounded, InLine
    <3> QED BY <3>2, <3>3
  <2>3. ~init_done' => \A u \in Threads : code'[u].stack = <<>>
    BY <1>1
  <2>4. Freeing' = Freeing /\ live' = live
    BY <1>1 DEF Freeing, IsFreeing, quiet
  <2> QED BY <2>1, <2>2, <2>3, <2>4
<1>2. /\ code[t] \in Code /\ status[t] \in Status /\ code[t].level \in Int
      /\ code[t].level >= 0 /\ code[t].level <= code[t].level
  BY DEF Typed, Code
<1>3. ASSUME NEW control \in Controls[t], Enable(t, control) \/ PushControl(t, control)
      PROVE  OnlySettings
  <2>1. PICK files \in Opened(control) :
           LET p == Pushed(code[t], status[t], control, files) IN
           /\ code' = [code EXCEPT ![t] = p.code]
           /\ \/ status' = [status EXCEPT ![t] = [p.status EXCEPT !.no_db = FALSE, !.db_on = TRUE]]
              \/ status' = [status EXCEPT ![t] = p.status]
           /\ open' = open \cup (ToSet(files) \ {NULL})
    BY <1>3 DEF Enable, PushControl
  <2> DEFINE p == Pushed(code[t], status[t], control, files)
  <2>2. p.code \in Code /\ p.status \in Status /\ p.code.level = code[t].level
    BY PushTypes
  <2>3. [p.status EXCEPT !.no_db = FALSE, !.db_on = TRUE] \in Status
    <3> HIDE DEF p
    <3> QED BY <2>2 DEF Status
  <2>4. Idle(t) /\ UNCHANGED quiet /\ init_done' = TRUE
    BY <1>3 DEF Enable, PushControl
  <2>5. ToSet(files) \ {NULL} \subseteq Streams
    <3>1. IsControl(control) /\ Returned(control, files)
      BY ControlsAreControls, OpenedAreReturned
    <3> QED BY <3>1 DEF Returned, ToSet
  <2>6. open' \subseteq Streams
    BY <2>1, <2>5 DEF Typed
  <2>7. /\ code' \in [Threads -> Code] /\ status' \in [Threads -> Status]
        /\ code'[t].level = code[t].level /\ \A u \in Threads \ {t} : code'[u] = code[u]
    <3>1. /\ code' = [code EXCEPT ![t] = p.code]
          /\ \/ status' = [status EXCEPT ![t] = [p.status EXCEPT !.no_db = FALSE, !.db_on = TRUE]]
             \/ status' = [status EXCEPT ![t] = p.status]
      BY <2>1
    <3> HIDE DEF p
    <3> QED BY <2>2, <2>3, <3>1, ZenonT(40) DEF Typed
  <2> QED BY <1>2, <2>4, <2>6, <2>7
<1>4. CASE Ends(t)
  <2>1. Idle(t) /\ DbEnd(t) /\ UNCHANGED <<init_done, quiet>>
    BY <1>4 DEF Ends
  <2>2. FreshCode \in Code /\ FreshStatus \in Status
        /\ FreshCode.level = 0 /\ FreshCode.stack = <<>>
    BY DbugAssumption DEF FreshCode, FreshStatus, Code, Status, Funcs
  <2> HIDE DEF FreshCode, FreshStatus
  <2> QED BY <1>2, <2>1, <2>2 DEF DbEnd, Typed
<1>5. CASE Suspend(t) \/ Resume(t) \/ \E name \in Names : Process(t, name)
  <2>1. Idle(t) /\ UNCHANGED <<code, init_done, open, quiet>>
    BY <1>5 DEF Suspend, Resume, Process
  <2>2. PICK st \in Status : status' = [status EXCEPT ![t] = st]
    <3>1. CASE Suspend(t)
      <4>1. [status[t] EXCEPT !.no_db = TRUE, !.db_on = FALSE] \in Status
        BY <1>2 DEF Status
      <4> QED BY <3>1, <4>1 DEF Suspend
    <3>2. CASE Resume(t)
      <4>1. [status[t] EXCEPT !.no_db = FALSE, !.db_on = TRUE] \in Status
        BY <1>2 DEF Status
      <4> QED BY <3>2, <4>1 DEF Resume, DEBUGGER_ON
    <3>3. ASSUME NEW name \in Names, Process(t, name)
          PROVE  \E st \in Status : status' = [status EXCEPT ![t] = st]
      <4>1. [status[t] EXCEPT !.process = name] \in Status
        BY <1>2 DEF Status
      <4> QED BY <3>3, <4>1 DEF Process
    <3> QED BY <1>5, <3>1, <3>2, <3>3
  <2> QED BY <1>2, <2>1, <2>2 DEF Typed
<1>6. CASE Pops(t)
  <2>1. Idle(t) /\ DbPop(t) /\ UNCHANGED <<init_done, quiet>>
    BY <1>6 DEF Pops
  <2>2. CASE Len(code[t].stack) > 1
    <3> DEFINE stack == code[t].stack
               c     == [code[t] EXCEPT !.stack = Tail(stack)]
               on    == status[t].db_on /\ "DEBUG_ON" \in stack[2].flags
               st    == [status[t] EXCEPT !.db_fp = stack[2].out_file, !.db_on = on]
    <3>1. stack \in Seq(Settings) /\ stack # <<>> /\ stack[2] \in Settings
      BY <1>2, <2>2 DEF Code
    <3>2. c \in Code /\ c.level = code[t].level
      <4>1. Tail(stack) \in Seq(Settings)
        BY <3>1
      <4> HIDE DEF stack
      <4> QED BY <1>2, <4>1 DEF Code
    <3>3. st \in Status
      <4>1. on \in BOOLEAN /\ stack[2].out_file \in Files
        BY <3>1 DEF Settings
      <4> HIDE DEF on
      <4> QED BY <1>2, <4>1 DEF Status
    <3>4. /\ code' = [code EXCEPT ![t] = c] /\ status' = [status EXCEPT ![t] = st]
          /\ open' = open \ CloseFile(Head(stack))
      BY <2>1, <2>2 DEF DbPop
    <3>5. init_done
      BY <3>1
    <3> HIDE DEF c, st, stack
    <3> QED BY <1>2, <2>1, <3>2, <3>3, <3>4, <3>5 DEF Typed
  <2>3. CASE ~(Len(code[t].stack) > 1)
    <3>1. status' = [status EXCEPT ![t].db_on = FALSE] /\ UNCHANGED <<code, open>>
      BY <2>1, <2>3 DEF DbPop
    <3>2. [status[t] EXCEPT !.db_on = FALSE] \in Status
      BY <1>2 DEF Status
    <3> QED BY <1>2, <2>1, <3>1, <3>2 DEF Typed
  <2> QED BY <2>2, <2>3
<1> QED BY <1>3, <1>4, <1>5, <1>6 DEF Succeeds

(* A step of one thread keeps IInv if it keeps the types and the bounds of   *)
(* that thread, and a block for everyone who frees one.                      *)
OnlyThread(t) ==
    \A u \in Threads \ {t} :
        /\ code'[u] = code[u] /\ frames'[u] = frames[u]
        /\ pc'[u] = pc[u] /\ job'[u] = job[u]

LEMMA ThreadStep ==
    ASSUME IInv, NEW t \in Threads, Typed', OnlyThread(t), Bounded(t)',
           ~init_done' => ~init_done /\ code'[t].stack = <<>>,
           \/ (IsFreeing(t)' => IsFreeing(t)) /\ live' >= live
           \/ live' = live /\ live > Cardinality(Freeing)
           \/ IsFreeing(t) /\ ~IsFreeing(t)' /\ live' = live - 1
    PROVE  IInv'
<1>1. ASSUME NEW u \in Threads
      PROVE  Bounded(u)'
  <2>1. CASE u = t
    BY <2>1
  <2>2. CASE u # t
    BY <2>2 DEF IInv, OnlyThread, Bounded, InLine
  <2> QED BY <2>1, <2>2
<1>2. ~init_done' => \A u \in Threads : code'[u].stack = <<>>
  BY DEF IInv, OnlyThread
<1>3. IsFiniteSet(Freeing) /\ IsFiniteSet(Freeing')
      /\ Cardinality(Freeing) \in Nat /\ Cardinality(Freeing') \in Nat
  BY DbugAssumption, FS_Subset, FS_CardinalityType DEF Freeing
<1>4. \A u \in Threads \ {t} : IsFreeing(u)' <=> IsFreeing(u)
  BY DEF OnlyThread, IsFreeing
<1>5. live \in Nat /\ live' \in Nat /\ Cardinality(Freeing) <= live
  BY DEF IInv, Typed
<1>6. Cardinality(Freeing') <= live'
  <2>1. CASE (IsFreeing(t)' => IsFreeing(t)) /\ live' >= live
    <3>1. Freeing' \subseteq Freeing
      BY <1>4, <2>1 DEF Freeing
    <3>2. Cardinality(Freeing') <= Cardinality(Freeing)
      BY <1>3, <3>1, FS_Subset
    <3> QED BY <1>3, <1>5, <2>1, <3>2
  <2>2. CASE live' = live /\ live > Cardinality(Freeing)
    <3>1. Freeing' \subseteq Freeing \cup {t}
      BY <1>4 DEF Freeing
    <3>2. IsFiniteSet(Freeing \cup {t}) /\ Cardinality(Freeing \cup {t}) \in Nat
          /\ Cardinality(Freeing \cup {t}) <= Cardinality(Freeing) + 1
      <4>1. /\ IsFiniteSet(Freeing \cup {t})
            /\ Cardinality(Freeing \cup {t}) =
                  IF t \in Freeing THEN Cardinality(Freeing) ELSE Cardinality(Freeing) + 1
        BY <1>3, FS_AddElement
      <4> HIDE DEF Freeing
      <4> QED BY <1>3, <4>1
    <3>3. Cardinality(Freeing') <= Cardinality(Freeing \cup {t})
      BY <3>1, <3>2, FS_Subset
    <3> QED BY <1>3, <1>5, <2>2, <3>2, <3>3
  <2>3. CASE IsFreeing(t) /\ ~IsFreeing(t)' /\ live' = live - 1
    <3>1. Freeing' = Freeing \ {t} /\ t \in Freeing
      BY <1>4, <2>3 DEF Freeing
    <3>2. Cardinality(Freeing') = Cardinality(Freeing) - 1
      BY <1>3, <3>1, FS_RemoveElement
    <3> QED BY <1>3, <1>5, <2>3, <3>2
  <2> QED BY <2>1, <2>2, <2>3
<1> QED BY <1>1, <1>2, <1>6 DEF IInv

LEMMA CrashIInv ==
    ASSUME IInv, NEW t \in Threads, Crash(t),
           Idle(t) \/ pc[t] = "prefix"
    PROVE  IInv'
<1>1. Typed'
  BY DEF IInv, Typed, Crash
<1>2. OnlyThread(t)
  BY DEF OnlyThread, Crash, IInv, Typed
<1>3. pc'[t] = "crashed" /\ job' = job /\ live' = live /\ live \in Nat
      /\ init_done' = init_done /\ code' = code
  BY DEF Crash, IInv, Typed
<1>4. Bounded(t)'
  BY <1>3 DEF Bounded, InLine
<1>5. IsFreeing(t)' => IsFreeing(t)
  BY <1>3 DEF IsFreeing, IInv, Bounded, Idle
<1>6. ~init_done' => ~init_done /\ code'[t].stack = <<>>
  BY <1>3 DEF IInv
<1> QED BY <1>1, <1>2, <1>3, <1>4, <1>5, <1>6, ThreadStep

(* A thread that is about to write a line.                                   *)
LEMMA BeginFacts ==
    ASSUME Typed, NEW t \in Threads, NEW op \in Ops, NEW text \in BOOLEAN, Begin(t, op, text)
    PROVE  /\ pc' \in [Threads -> {"run", "want", "prefix", "text", "compare", "unclosed", "crashed"}]
           /\ job' \in [Threads -> Jobs]
           /\ pc'[t] = "want" /\ job'[t].op = op
           /\ \A u \in Threads \ {t} : pc'[u] = pc[u] /\ job'[u] = job[u]
<1>1. [op |-> op, text |-> text] \in Jobs
  BY DEF Jobs
<1> QED BY <1>1 DEF Begin, Typed

(* What _db_enter_ makes of the state of a thread, and the _sstate_ it writes. *)
LEMMA EnterTypes ==
    ASSUME IInv, NEW t \in Threads, NEW f \in Functions, code[t].level < MaxFrames
    PROVE  LET s     == Started(t)
               c     == [s.code EXCEPT !.func = f, !.level = @ + 1]
               frame == [func |-> s.code.func, level |-> c.level]
           IN  /\ c \in Code /\ c.level = code[t].level + 1
               /\ frame \in Frames /\ frame # NULL /\ frame.level = c.level
               /\ s.status \in Status
               /\ ~status[t].no_db => ~s.status.no_db
<1> DEFINE s     == Started(t)
           c     == [s.code EXCEPT !.func = f, !.level = @ + 1]
           frame == [func |-> s.code.func, level |-> c.level]
<1>1. Typed /\ code[t].level \in Nat /\ MaxFrames \in Nat
  BY DbugAssumption, SMTT(30) DEF IInv, Typed, Code
<1>2. s.code \in Code /\ s.code.level = code[t].level /\ s.status \in Status
  BY <1>1, StartedTypes
<1>3. c \in Code /\ c.level = code[t].level + 1
  <2> HIDE DEF s
  <2>1. s.code.level + 1 \in 0 .. MaxFrames + 1 /\ f \in Funcs
    BY <1>1, <1>2 DEF Funcs
  <2> QED BY <1>2, <2>1 DEF Code
<1>4. frame \in Frames /\ frame.level = c.level
  <2>1. s.code.func \in Funcs
    BY <1>2 DEF Code
  <2> HIDE DEF c
  <2> QED BY <1>1, <1>3, <2>1 DEF Frames
<1>5. frame # NULL
  <2>1. NULL \notin Frames
    BY DbugAssumption DEF Frames, Funcs
  <2> QED BY <1>4, <2>1
<1>6. ~status[t].no_db => ~s.status.no_db
  BY <1>1, StartedSwitch
<1> QED BY <1>2, <1>3, <1>4, <1>5, <1>6

LEMMA EnterIInv ==
    ASSUME IInv, NEW t \in Threads, NEW f \in Functions, Enter(t, f)
    PROVE  IInv'
<1>1. /\ Idle(t) /\ Len(frames[t]) < MaxFrames /\ code[t].level < MaxFrames
      /\ code[t] \in Code /\ status[t] \in Status /\ code[t].level \in Nat
      /\ frames[t] \in Seq(Frames \cup {NULL}) /\ live \in Nat /\ MaxFrames \in Nat
      /\ job[t].op \notin {"alloc", "free"}
  BY DbugAssumption DEF Enter, IInv, Typed, Code, Bounded, Idle
<1>2. CASE status[t].no_db
  <2>1. /\ frames' = [frames EXCEPT ![t] = <<NULL>> \o @]
        /\ UNCHANGED <<status, code, init_done, pc, job, lines>>
    BY <1>2 DEF Enter
  <2>2. <<NULL>> \o frames[t] \in Seq(Frames \cup {NULL})
    BY <1>1
  <2>3. Typed' /\ OnlyThread(t)
    BY <2>1, <2>2 DEF IInv, Typed, OnlyThread, lines
  <2>4. Bounded(t)'
    BY <1>1, <2>1 DEF IInv, Bounded, Idle, InLine
  <2>5. (IsFreeing(t)' => IsFreeing(t)) /\ live' >= live
        /\ (~init_done' => ~init_done /\ code'[t].stack = <<>>)
    BY <1>1, <2>1 DEF IsFreeing, IInv, lines
  <2> QED BY <2>3, <2>4, <2>5, ThreadStep
<1> DEFINE s     == Started(t)
           c     == [s.code EXCEPT !.func = f, !.level = @ + 1]
           frame == [func |-> s.code.func, level |-> c.level]
<1>3. CASE ~status[t].no_db /\ c.stack = <<>>
  <2>1. Crash(t)
    BY <1>3 DEF Enter
  <2> QED BY <1>1, <2>1, CrashIInv
<1>4. CASE ~status[t].no_db /\ c.stack # <<>>
  <2>1. /\ code' = [code EXCEPT ![t] = c]
        /\ status' = [status EXCEPT ![t] = s.status]
        /\ init_done' = TRUE
        /\ frames' = [frames EXCEPT ![t] = <<frame>> \o @]
        /\ IF DoTrace(c, s.status) THEN Begin(t, "enter", TRUE) ELSE UNCHANGED <<pc, job>>
        /\ UNCHANGED lines
    BY <1>4 DEF Enter
  <2>2. /\ c \in Code /\ c.level = code[t].level + 1
        /\ frame \in Frames /\ s.status \in Status
    BY <1>1, EnterTypes
  <2>3. <<frame>> \o frames[t] \in Seq(Frames \cup {NULL})
    <3> HIDE DEF frame
    <3> QED BY <1>1, <2>2
  <2>4. /\ pc' \in [Threads -> {"run", "want", "prefix", "text", "compare", "unclosed", "crashed"}]
        /\ job' \in [Threads -> Jobs]
        /\ pc'[t] \in {"run", "want"} /\ job'[t].op \notin {"alloc", "free"}
        /\ pc'[t] = "want" => job'[t].op # "return"
        /\ \A u \in Threads \ {t} : pc'[u] = pc[u] /\ job'[u] = job[u]
    <3>1. CASE Begin(t, "enter", TRUE)
      <4>1. "enter" \in Ops /\ TRUE \in BOOLEAN /\ Typed
        BY DEF Ops, IInv
      <4>2. /\ pc' \in [Threads -> {"run", "want", "prefix", "text", "compare", "unclosed", "crashed"}]
            /\ job' \in [Threads -> Jobs] /\ pc'[t] = "want" /\ job'[t].op = "enter"
            /\ \A u \in Threads \ {t} : pc'[u] = pc[u] /\ job'[u] = job[u]
        BY <3>1, <4>1, BeginFacts
      <4> QED BY <4>2
    <3>2. CASE UNCHANGED <<pc, job>>
      BY <1>1, <3>2 DEF IInv, Typed, Idle
    <3> HIDE DEF c, s
    <3> QED BY <2>1, <3>1, <3>2
  <2> HIDE DEF s, c, frame
  <2>5. Typed'
    BY <2>1, <2>2, <2>3, <2>4 DEF IInv, Typed, lines
  <2>6. OnlyThread(t)
    BY <2>1, <2>4 DEF OnlyThread, IInv, Typed
  <2>7. Bounded(t)'
    <3>1. code'[t].level = code[t].level + 1
      BY <2>1, <2>2 DEF IInv, Typed
    <3> QED BY <1>1, <2>4, <3>1 DEF Bounded, InLine
  <2>8. ~IsFreeing(t)' /\ live' >= live /\ init_done'
    BY <1>1, <2>1, <2>4 DEF IsFreeing, lines
  <2> QED BY <2>5, <2>6, <2>7, <2>8, ThreadStep
<1> QED BY <1>2, <1>3, <1>4

(* A thread that begins a line and keeps its level, or takes one more for    *)
(* the time it allocates or frees.                                           *)
LEMMA BeginIInv ==
    ASSUME IInv, NEW t \in Threads, Idle(t),
           NEW op \in Ops, NEW text \in BOOLEAN, Begin(t, op, text),
           op = "return" => frames[t] # <<>> /\ Head(frames[t]) # NULL,
           NEW c \in Code, code' = [code EXCEPT ![t] = c],
           c.level = IF op \in {"alloc", "free"} THEN code[t].level + 1 ELSE code[t].level,
           status' \in [Threads -> Status], init_done' = TRUE,
           UNCHANGED <<frames, mutex, open, mstat, half>>, live' \in Nat, live' >= live,
           op = "free" => live > Cardinality(Freeing) /\ live' = live
    PROVE  IInv'
<1>1. /\ pc' \in [Threads -> {"run", "want", "prefix", "text", "compare", "unclosed", "crashed"}]
      /\ job' \in [Threads -> Jobs] /\ pc'[t] = "want" /\ job'[t].op = op
      /\ \A u \in Threads \ {t} : pc'[u] = pc[u] /\ job'[u] = job[u]
  BY BeginFacts DEF IInv
<1>2. Typed'
  BY <1>1 DEF IInv, Typed
<1>3. OnlyThread(t) /\ code'[t] = c
  BY <1>1 DEF OnlyThread, IInv, Typed
<1>4. Bounded(t)'
  <2>1. code[t].level \in Nat /\ code[t].level <= MaxFrames /\ MaxFrames \in Nat
    BY DbugAssumption DEF IInv, Typed, Code, Bounded, Idle
  <2> QED BY <1>1, <1>3, <2>1 DEF Bounded, InLine
<1>5. IsFreeing(t)' <=> op = "free"
  BY <1>1 DEF IsFreeing
<1> QED BY <1>2, <1>3, <1>4, <1>5, ThreadStep

(* The end of _db_return_.                                                   *)
LEMMA LeaveFacts ==
    ASSUME Typed, NEW t \in Threads, frames[t] # <<>>, Head(frames[t]) # NULL, Leave(t)
    PROVE  /\ code' \in [Threads -> Code] /\ frames' \in [Threads -> Seq(Frames \cup {NULL})]
           /\ Head(frames[t]) \in Frames
           /\ code'[t] = [code[t] EXCEPT !.level = Head(frames[t]).level - 1,
                                         !.func = Head(frames[t]).func]
           /\ frames'[t] = Tail(frames[t])
           /\ code'[t].level = Head(frames[t]).level - 1
           /\ code'[t].level \in 0 .. MaxFrames
           /\ \A u \in Threads \ {t} : code'[u] = code[u] /\ frames'[u] = frames[u]
<1>1. /\ Head(frames[t]) \in Frames /\ Tail(frames[t]) \in Seq(Frames \cup {NULL})
      /\ code[t] \in Code /\ MaxFrames \in Nat
  BY DbugAssumption DEF Typed
<1> DEFINE c == [code[t] EXCEPT !.level = Head(frames[t]).level - 1, !.func = Head(frames[t]).func]
<1>2. /\ Head(frames[t]).level - 1 \in 0 .. MaxFrames
      /\ Head(frames[t]).level - 1 \in 0 .. MaxFrames + 1 /\ Head(frames[t]).func \in Funcs
  BY <1>1 DEF Frames
<1>3. c \in Code /\ c.level = Head(frames[t]).level - 1
  BY <1>1, <1>2 DEF Code
<1>4. code' = [code EXCEPT ![t] = c] /\ frames' = [frames EXCEPT ![t] = Tail(frames[t])]
  BY DEF Leave, Typed
<1>5. /\ code'[t] = c /\ frames'[t] = Tail(frames[t])
      /\ code' \in [Threads -> Code] /\ frames' \in [Threads -> Seq(Frames \cup {NULL})]
      /\ \A u \in Threads \ {t} : code'[u] = code[u] /\ frames'[u] = frames[u]
  <2> HIDE DEF c
  <2> QED BY <1>1, <1>3, <1>4 DEF Typed
<1> QED BY <1>1, <1>2, <1>3, <1>5

LEMMA ReturnIInv ==
    ASSUME IInv, NEW t \in Threads, Return(t) \/ ReturnSilently(t)
    PROVE  IInv'
<1>1. /\ Idle(t) /\ frames[t] # <<>> /\ live \in Nat /\ code[t] \in Code
      /\ frames[t] \in Seq(Frames \cup {NULL}) /\ Tail(frames[t]) \in Seq(Frames \cup {NULL})
  BY DEF Return, ReturnSilently, IInv, Typed
<1>2. CASE ReturnSilently(t) \/ (Return(t) /\ status[t].no_db)
  <2>1. /\ frames' = [frames EXCEPT ![t] = Tail(@)]
        /\ UNCHANGED <<status, code, init_done, pc, job, lines>>
    BY <1>2 DEF Return, ReturnSilently
  <2>2. Typed' /\ OnlyThread(t)
    BY <1>1, <2>1 DEF IInv, Typed, OnlyThread, lines
  <2>3. Bounded(t)'
    BY <1>1, <2>1 DEF IInv, Bounded, Idle, InLine
  <2>4. (IsFreeing(t)' => IsFreeing(t)) /\ live' >= live
        /\ (~init_done' => ~init_done /\ code'[t].stack = <<>>)
    BY <1>1, <2>1 DEF IsFreeing, IInv, lines
  <2> QED BY <2>2, <2>3, <2>4, ThreadStep
<1>3. CASE /\ Return(t) /\ ~status[t].no_db
           /\ Head(frames[t]) = NULL \/ code[t].stack = <<>>
  <2>1. Crash(t)
    BY <1>3 DEF Return
  <2> QED BY <1>1, <2>1, CrashIInv
<1>4. CASE /\ Return(t) /\ ~status[t].no_db
           /\ Head(frames[t]) # NULL /\ code[t].stack # <<>>
           /\ Head(code[t].stack).flags # {}
  <2> DEFINE text == code[t].level = Head(frames[t]).level => DoTrace(code[t], status[t])
  <2>1. Begin(t, "return", text) /\ UNCHANGED <<status, code, init_done, frames, lines>>
    BY <1>4 DEF Return
  <2>2. text \in BOOLEAN /\ "return" \in Ops /\ code' = [code EXCEPT ![t] = code[t]]
    BY <2>1 DEF Ops, IInv, Typed
  <2>3. init_done' = TRUE /\ status' \in [Threads -> Status]
    BY <1>4, <2>1 DEF IInv, Typed
  <2> HIDE DEF text
  <2>4. /\ UNCHANGED <<frames, mutex, open, mstat, half>> /\ live' \in Nat /\ live' >= live
    BY <1>1, <2>1 DEF lines
  <2> QED BY <1>1, <1>4, <2>1, <2>2, <2>3, <2>4, BeginIInv
<1>5. CASE /\ Return(t) /\ ~status[t].no_db
           /\ Head(frames[t]) # NULL /\ code[t].stack # <<>>
           /\ Head(code[t].stack).flags = {}
  <2>1. Leave(t) /\ UNCHANGED <<status, init_done, pc, job, lines>>
    BY <1>5 DEF Return
  <2>2. /\ code' \in [Threads -> Code] /\ frames' \in [Threads -> Seq(Frames \cup {NULL})]
        /\ code'[t].level \in 0 .. MaxFrames
        /\ \A u \in Threads \ {t} : code'[u] = code[u] /\ frames'[u] = frames[u]
    BY <1>1, <1>5, <2>1, LeaveFacts DEF IInv
  <2>3. Typed' /\ OnlyThread(t)
    BY <2>1, <2>2 DEF IInv, Typed, OnlyThread, lines
  <2>4. Bounded(t)'
    BY <1>1, <2>1, <2>2, DbugAssumption DEF IInv, Bounded, Idle, InLine
  <2>5. (IsFreeing(t)' => IsFreeing(t)) /\ live' >= live /\ init_done'
    BY <1>1, <1>5, <2>1 DEF IsFreeing, IInv, lines
  <2> QED BY <2>3, <2>4, <2>5, ThreadStep
<1> QED BY <1>2, <1>3, <1>4, <1>5

LEMMA SelectedIInv ==
    ASSUME IInv, NEW t \in Threads, NEW k \in Keywords, Doprnt(t, k) \/ Dump(t, k)
    PROVE  IInv'
<1>1. PICK op \in {"print", "dump"} : Selected(t, k, op)
  BY DEF Doprnt, Dump
<1>2. Idle(t) /\ frames[t] # <<>> /\ live \in Nat /\ code[t] \in Code
  BY <1>1 DEF Selected, IInv, Typed
<1>3. CASE code[t].stack = <<>>
  <2>1. Crash(t)
    BY <1>1, <1>3 DEF Selected
  <2> QED BY <1>2, <2>1, CrashIInv
<1>4. CASE code[t].stack # <<>>
  <2>1. Begin(t, op, TRUE) /\ UNCHANGED <<status, code, init_done, frames, lines>>
    BY <1>1, <1>4 DEF Selected
  <2>2. op \in Ops /\ TRUE \in BOOLEAN /\ code' = [code EXCEPT ![t] = code[t]]
        /\ op \notin {"alloc", "free", "return"}
    BY <2>1 DEF Ops, IInv, Typed
  <2>3. init_done' = TRUE /\ status' \in [Threads -> Status]
    BY <1>4, <2>1 DEF IInv, Typed
  <2>4. /\ UNCHANGED <<frames, mutex, open, mstat, half>> /\ live' \in Nat /\ live' >= live
    BY <1>2, <2>1 DEF lines
  <2> QED BY <1>2, <2>1, <2>2, <2>3, <2>4, BeginIInv
<1> QED BY <1>3, <1>4

LEMMA FileIInv ==
    ASSUME IInv, NEW t \in Threads, LockFile(t) \/ UnlockFile(t)
    PROVE  IInv'
<1>1. PICK locked \in BOOLEAN :
         /\ code' = [code EXCEPT ![t].locked = locked]
         /\ mutex' \in Threads \cup {NULL}
         /\ UNCHANGED <<status, init_done, open, mstat, frames, pc, job, half, live>>
  BY DEF LockFile, UnlockFile
<1>2. /\ code' \in [Threads -> Code] /\ code'[t].level = code[t].level
      /\ code'[t].stack = code[t].stack /\ \A u \in Threads \ {t} : code'[u] = code[u]
  <2>1. code[t] \in Code
    BY DEF IInv, Typed
  <2>2. [code[t] EXCEPT !.locked = locked] \in Code
    BY <2>1 DEF Code
  <2> QED BY <1>1, <2>1, <2>2 DEF IInv, Typed, Code
<1>3. Typed' /\ OnlyThread(t)
  BY <1>1, <1>2 DEF IInv, Typed, OnlyThread
<1>4. Bounded(t)'
  BY <1>1, <1>2 DEF IInv, Bounded, InLine
<1>5. (IsFreeing(t)' => IsFreeing(t)) /\ live' >= live
      /\ (~init_done' => ~init_done /\ code'[t].stack = <<>>)
  BY <1>1, <1>2 DEF IsFreeing, IInv, Typed
<1> QED BY <1>3, <1>4, <1>5, ThreadStep

(* What is counted is added to.                                              *)
LEMMA CountedFacts ==
    ASSUME mstat \in [alloc_count : Nat, freed_count : Nat], NEW op
    PROVE  /\ Counted(op) \in [alloc_count : Nat, freed_count : Nat]
           /\ Counted(op).alloc_count = mstat.alloc_count + (IF op = "alloc" THEN 1 ELSE 0)
           /\ Counted(op).freed_count = mstat.freed_count + (IF op = "free" THEN 1 ELSE 0)
<1>1. CASE op = "alloc"
  <2>1. Counted(op) = [mstat EXCEPT !.alloc_count = @ + 1]
    BY <1>1, Zenon DEF Counted
  <2> QED BY <1>1, <2>1
<1>2. CASE op = "free"
  <2>1. op # "alloc"
    BY <1>2
  <2>2. Counted(op) = [mstat EXCEPT !.freed_count = @ + 1]
    BY <1>2, <2>1, Zenon DEF Counted
  <2> QED BY <1>2, <2>2
<1>3. CASE op \notin {"alloc", "free"}
  <2>1. op # "alloc" /\ op # "free"
    BY <1>3
  <2>2. Counted(op) = mstat
    BY <2>1, Zenon DEF Counted
  <2> QED BY <1>3, <2>2
<1> QED BY <1>1, <1>2, <1>3

(* A block that comes or goes with nothing written.                          *)
LEMMA SilentIInv ==
    ASSUME IInv, NEW t \in Threads, Idle(t),
           status' \in [Threads -> Status], UNCHANGED <<frames, pc, job, mutex, open, half>>,
           code' \in [Threads -> Code], OnlyThread(t), code'[t].level = code[t].level,
           init_done' \in BOOLEAN, ~init_done' => ~init_done /\ code'[t].stack = <<>>,
           mstat' \in [alloc_count : Nat, freed_count : Nat],
           live' \in Nat, live' >= live \/ (live' = live - 1 /\ live > Cardinality(Freeing))
    PROVE  IInv'
<1>1. Typed'
  BY DEF IInv, Typed
<1>2. Bounded(t)'
  BY DEF IInv, Bounded, Idle, InLine
<1>3. Freeing' = Freeing
  BY DEF Freeing, IsFreeing
<1>4. Cardinality(Freeing) \in Nat /\ live \in Nat
  BY DbugAssumption, FS_Subset, FS_CardinalityType DEF Freeing, IInv, Typed
<1>5. Cardinality(Freeing') <= live'
  BY <1>3, <1>4 DEF IInv
<1>6. ASSUME NEW u \in Threads
      PROVE  Bounded(u)'
  BY <1>2 DEF IInv, OnlyThread, Bounded, InLine
<1>7. ~init_done' => \A u \in Threads : code'[u].stack = <<>>
  BY DEF IInv, OnlyThread
<1> QED BY <1>1, <1>5, <1>6, <1>7 DEF IInv

LEMMA AllocIInv ==
    ASSUME IInv, NEW t \in Threads, Alloc(t)
    PROVE  IInv'
<1> DEFINE s == Started(t)
           c == [s.code EXCEPT !.level = @ + 1]
<1>1. /\ Idle(t) /\ live \in Nat /\ Typed
      /\ mstat \in [alloc_count : Nat, freed_count : Nat]
  BY DEF Alloc, IInv, Typed
<1>2. s.code \in Code /\ s.code.level = code[t].level /\ s.status \in Status
  BY <1>1, StartedTypes
<1>3. CASE status[t].no_db \/ ~s.status.db_on
  <2>1. NoDbAlloc(t)
    BY <1>3 DEF Alloc
  <2>2. mstat' \in [alloc_count : Nat, freed_count : Nat]
    BY <1>1, <2>1, CountedFacts DEF NoDbAlloc
  <2>3. /\ status' \in [Threads -> Status] /\ UNCHANGED <<frames, pc, job, mutex, open, half>>
        /\ code' \in [Threads -> Code] /\ OnlyThread(t) /\ code'[t].level = code[t].level
        /\ live' = live + 1 /\ UNCHANGED <<init_done, code>>
    BY <2>1 DEF NoDbAlloc, IInv, Typed, OnlyThread
  <2>4. /\ init_done' \in BOOLEAN /\ (~init_done' => ~init_done /\ code'[t].stack = <<>>)
        /\ live' \in Nat /\ live' >= live
    BY <1>1, <2>3 DEF IInv, Typed
  <2> QED BY <1>1, <2>2, <2>3, <2>4, SilentIInv
<1>4. CASE ~(status[t].no_db \/ ~s.status.db_on) /\ c.stack = <<>>
  <2>1. Crash(t)
    BY <1>4 DEF Alloc
  <2> QED BY <1>1, <2>1, CrashIInv
<1>5. CASE ~(status[t].no_db \/ ~s.status.db_on) /\ c.stack # <<>>
  <2>1. /\ live' = live + 1
        /\ status' = [status EXCEPT ![t] = s.status]
        /\ init_done' = TRUE
        /\ IF DoTrace(c, s.status)
           THEN Begin(t, "alloc", TRUE) /\ code' = [code EXCEPT ![t] = c]
           ELSE code' = [code EXCEPT ![t] = s.code] /\ UNCHANGED <<pc, job>>
        /\ UNCHANGED <<mutex, open, mstat, frames, half>>
    BY <1>5 DEF Alloc
  <2>2. status' \in [Threads -> Status] /\ live' \in Nat /\ live' >= live
    <3> HIDE DEF s, c
    <3> QED BY <1>1, <1>2, <2>1 DEF Typed
  <2>3. c \in Code /\ c.level = code[t].level + 1
    <3>1. code[t].level + 1 \in 0 .. MaxFrames + 1
      BY <1>1, DbugAssumption DEF IInv, Typed, Bounded, Code, Idle
    <3> HIDE DEF s
    <3> QED BY <1>2, <3>1 DEF Code
  <2>4. CASE DoTrace(c, s.status)
    <3>1. Begin(t, "alloc", TRUE) /\ code' = [code EXCEPT ![t] = c]
      BY <2>1, <2>4
    <3>2. "alloc" \in Ops /\ TRUE \in BOOLEAN
      BY DEF Ops
    <3>3. init_done' = TRUE /\ UNCHANGED <<frames, mutex, open, mstat, half>>
      BY <2>1
    <3> HIDE DEF s, c
    <3> QED BY <1>1, <2>2, <2>3, <3>1, <3>2, <3>3, BeginIInv
  <2>5. CASE ~DoTrace(c, s.status)
    <3> HIDE DEF s, c
    <3>1. /\ code' = [code EXCEPT ![t] = s.code] /\ init_done' = TRUE
          /\ UNCHANGED <<pc, job, mutex, open, mstat, frames, half>>
      BY <2>1, <2>5
    <3>2. code' \in [Threads -> Code] /\ OnlyThread(t) /\ code'[t].level = code[t].level
      BY <1>1, <1>2, <3>1 DEF Typed, OnlyThread
    <3> QED BY <1>1, <2>2, <3>1, <3>2, SilentIInv
  <2> QED BY <2>4, <2>5
<1> QED BY <1>3, <1>4, <1>5

LEMMA FreeIInv ==
    ASSUME IInv, NEW t \in Threads, Free(t)
    PROVE  IInv'
<1> DEFINE c == [code[t] EXCEPT !.level = @ + 1]
<1>1. /\ Idle(t) /\ live \in Nat /\ Typed /\ code[t] \in Code
      /\ mstat \in [alloc_count : Nat, freed_count : Nat]
      /\ live > Cardinality(Freeing) /\ Cardinality(Freeing) \in Nat
  BY DbugAssumption, FS_Subset, FS_CardinalityType DEF Free, IInv, Typed, Freeing, IsFreeing
<1>2. ASSUME UNCHANGED vars
      PROVE  IInv'
  BY <1>2 DEF vars, IInv, Typed, Bounded, InLine, Freeing, IsFreeing
<1>3. ASSUME live' = live - 1, mstat' \in [alloc_count : Nat, freed_count : Nat],
             UNCHANGED <<status, code, init_done, mutex, open, frames, pc, job, half>>
      PROVE  IInv'
  <2>1. /\ status' \in [Threads -> Status] /\ code' \in [Threads -> Code]
        /\ OnlyThread(t) /\ init_done' \in BOOLEAN
        /\ ~init_done' => ~init_done /\ code'[t].stack = <<>>
        /\ live' \in Nat /\ code'[t].level = code[t].level
    BY <1>1, <1>3 DEF IInv, Typed, OnlyThread
  <2> QED BY <1>1, <1>3, <2>1, SilentIInv
<1>4. CASE NoDbFree(t)
  <2>1. mstat' \in [alloc_count : Nat, freed_count : Nat]
    BY <1>1, <1>4, CountedFacts DEF NoDbFree
  <2> QED BY <1>3, <1>4, <2>1 DEF NoDbFree
<1>5. CASE Crash(t)
  BY <1>1, <1>5, CrashIInv
<1>6. CASE /\ init_done /\ DoTrace(c, status[t]) /\ Begin(t, "free", TRUE)
           /\ code' = [code EXCEPT ![t] = c]
           /\ UNCHANGED <<status, init_done, frames, lines>>
  <2>1. c \in Code /\ c.level = code[t].level + 1
    <3>1. code[t].level + 1 \in 0 .. MaxFrames + 1
      BY <1>1, DbugAssumption, SMTT(30) DEF IInv, Typed, Bounded, Code, Idle
    <3> QED BY <1>1, <3>1 DEF Code
  <2>2. "free" \in Ops /\ TRUE \in BOOLEAN
    BY DEF Ops
  <2>3. /\ status' \in [Threads -> Status] /\ init_done' = TRUE
        /\ UNCHANGED <<frames, mutex, open, mstat, half>> /\ live' = live
        /\ live' \in Nat /\ live' >= live
    BY <1>1, <1>6 DEF IInv, Typed, lines
  <2> HIDE DEF c
  <2> QED BY <1>1, <1>6, <2>1, <2>2, <2>3, BeginIInv
<1>7. \/ UNCHANGED vars \/ NoDbFree(t) \/ Crash(t)
      \/ /\ init_done /\ DoTrace(c, status[t]) /\ Begin(t, "free", TRUE)
         /\ code' = [code EXCEPT ![t] = c]
         /\ UNCHANGED <<status, init_done, frames, lines>>
      \/ /\ live' = live - 1
         /\ UNCHANGED <<status, code, init_done, mutex, open, mstat, frames, pc, job, half>>
  BY DEF Free
<1>8. CASE /\ live' = live - 1
           /\ UNCHANGED <<status, code, init_done, mutex, open, mstat, frames, pc, job, half>>
  BY <1>1, <1>3, <1>8
<1> QED BY <1>2, <1>4, <1>5, <1>6, <1>7, <1>8

LEMMA CleanedIInv ==
    ASSUME IInv, NEW t \in Threads, MemoryCleaned(t) \/ Compare(t)
    PROVE  IInv'
<1>1. PICK to \in {"run", "compare"}, j \in Jobs :
         /\ pc' = [pc EXCEPT ![t] = to] /\ job' = [job EXCEPT ![t] = j]
         /\ j.op \in {"cleaned", "not cleaned"}
         /\ UNCHANGED <<status, code, init_done, frames, lines>>
  <2>1. CASE MemoryCleaned(t)
    <3> DEFINE j == [op |-> "cleaned", text |-> FALSE, alloc_count |-> mstat.alloc_count]
    <3>1. j \in Jobs
      BY DEF IInv, Typed, Jobs
    <3> QED BY <2>1, <3>1 DEF MemoryCleaned
  <2>2. CASE Compare(t)
    <3> DEFINE j == [op |-> IF job[t].alloc_count = mstat.freed_count
                            THEN "cleaned" ELSE "not cleaned", text |-> FALSE]
    <3>1. j \in Jobs /\ j.op \in {"cleaned", "not cleaned"}
      BY DEF Jobs, Ops
    <3>2. job' = [job EXCEPT ![t] = j]
      BY <2>2 DEF Compare, IInv, Typed
    <3> QED BY <2>2, <3>1, <3>2 DEF Compare
  <2> QED BY <2>1, <2>2
<1>2. pc[t] \in {"run", "compare"} /\ live \in Nat
  BY DEF MemoryCleaned, Compare, Idle, IInv, Typed
<1>3. Typed' /\ OnlyThread(t)
  BY <1>1 DEF IInv, Typed, OnlyThread, lines
<1>4. pc'[t] = to /\ job'[t] = j
  BY <1>1 DEF IInv, Typed
<1>5. Bounded(t)'
  BY <1>1, <1>2, <1>4 DEF IInv, Bounded, InLine
<1>6. ~IsFreeing(t)' /\ live' >= live
  <2>1. job'[t].op # "free" /\ live' = live
    BY <1>1, <1>4 DEF lines
  <2> QED BY <1>2, <2>1 DEF IsFreeing
<1>7. ~init_done' => ~init_done /\ code'[t].stack = <<>>
  BY <1>1 DEF IInv
<1> QED BY <1>3, <1>5, <1>6, <1>7, ThreadStep

(* The text of a line, by what the call is for.                              *)
LEMMA TextCases ==
    ASSUME NEW t \in Threads, Text(t)
    PROVE  /\ pc[t] = "text" /\ half' = half \ {t} /\ Flush(t)
           /\ pc' = [pc EXCEPT ![t] = "run"] /\ job' = [job EXCEPT ![t] = NoJob]
           /\ UNCHANGED <<status, init_done, open, mstat>>
           /\ \/ job[t].op = "return" /\ Leave(t) /\ UNCHANGED live
              \/ /\ job[t].op = "alloc" /\ code' = [code EXCEPT ![t].level = @ - 1]
                 /\ UNCHANGED <<frames, live>>
              \/ /\ job[t].op = "free" /\ code' = [code EXCEPT ![t].level = @ - 1]
                 /\ live' = live - 1 /\ UNCHANGED frames
              \/ job[t].op \notin {"return", "alloc", "free"} /\ UNCHANGED <<code, frames, live>>
<1>1. /\ pc[t] = "text" /\ half' = half \ {t} /\ Flush(t)
      /\ pc' = [pc EXCEPT ![t] = "run"] /\ job' = [job EXCEPT ![t] = NoJob]
      /\ UNCHANGED <<status, init_done, open, mstat>>
  BY Zenon DEF Text
<1>2. CASE job[t].op = "return"
  <2>1. Leave(t) /\ UNCHANGED live
    BY <1>2, Zenon DEF Text
  <2> QED BY <1>1, <1>2, <2>1
<1>3. CASE job[t].op = "alloc"
  <2>1. job[t].op # "return"
    BY <1>3
  <2>2. AllocEnds(t)
    BY <1>3, <2>1, Zenon DEF Text
  <2>3. code' = [code EXCEPT ![t].level = @ - 1] /\ UNCHANGED <<frames, live>>
    BY <2>2, Zenon DEF AllocEnds
  <2> QED BY <1>1, <1>3, <2>3
<1>4. CASE job[t].op = "free"
  <2>1. job[t].op # "return" /\ job[t].op # "alloc"
    BY <1>4
  <2>2. FreeEnds(t)
    BY <1>4, <2>1, Zenon DEF Text
  <2>3. code' = [code EXCEPT ![t].level = @ - 1] /\ live' = live - 1 /\ UNCHANGED frames
    BY <2>2, Zenon DEF FreeEnds
  <2> QED BY <1>1, <1>4, <2>3
<1>5. CASE job[t].op \notin {"return", "alloc", "free"}
  <2>1. job[t].op # "return" /\ job[t].op # "alloc" /\ job[t].op # "free"
    BY <1>5
  <2>2. UNCHANGED <<code, frames, live>>
    BY <2>1, Zenon DEF Text
  <2> QED BY <1>1, <1>5, <2>2
<1> QED BY <1>2, <1>3, <1>4, <1>5

LEMMA WritingIInv ==
    ASSUME IInv, NEW t \in Threads, Writing(t)
    PROVE  IInv'
<1>1. /\ Typed /\ code[t] \in Code /\ code[t].level \in Nat /\ MaxFrames \in Nat
      /\ live \in Nat /\ Bounded(t)
  BY DbugAssumption, SMTT(30) DEF IInv, Typed, Code
<1>2. CASE Acquire(t)
  <2>1. /\ pc[t] = "want" /\ mstat' = Counted(job[t].op)
        /\ mutex' \in Threads \cup {NULL}
        /\ UNCHANGED <<status, code, init_done, open, frames, job, half, live>>
    BY <1>1, <1>2 DEF Acquire, Typed
  <2>2. PICK to \in {"prefix", "text"} : pc' = [pc EXCEPT ![t] = to]
    BY <1>2 DEF Acquire
  <2>3. mstat' \in [alloc_count : Nat, freed_count : Nat]
    BY <1>1, <2>1, CountedFacts DEF Typed
  <2>4. Typed' /\ OnlyThread(t)
    BY <1>1, <2>1, <2>2, <2>3 DEF Typed, OnlyThread
  <2>5. pc'[t] = to
    BY <1>1, <2>2 DEF Typed
  <2>6. Bounded(t)'
    BY <1>1, <2>1, <2>5 DEF Bounded, InLine
  <2>7. (IsFreeing(t)' => IsFreeing(t)) /\ live' >= live
    BY <1>1, <2>1 DEF IsFreeing
  <2>8. ~init_done' => ~init_done /\ code'[t].stack = <<>>
    BY <2>1 DEF IInv
  <2> QED BY <2>4, <2>6, <2>7, <2>8, ThreadStep
<1>3. CASE DoPrefix(t) /\ ~Usable(status[t].db_fp)
  <2>1. pc[t] = "prefix" /\ Crash(t)
    BY <1>3 DEF DoPrefix
  <2> QED BY <2>1, CrashIInv
<1>4. CASE DoPrefix(t) /\ Usable(status[t].db_fp)
  <2>1. /\ pc[t] = "prefix" /\ half' = half \cup {t} /\ pc' = [pc EXCEPT ![t] = "text"]
        /\ UNCHANGED <<status, code, init_done, mutex, open, mstat, frames, job, live>>
    BY <1>4 DEF DoPrefix
  <2>2. Typed' /\ OnlyThread(t) /\ pc'[t] = "text"
    BY <1>1, <2>1 DEF Typed, OnlyThread
  <2>3. Bounded(t)'
    BY <1>1, <2>1, <2>2 DEF Bounded, InLine
  <2>4. (IsFreeing(t)' => IsFreeing(t)) /\ live' >= live
    BY <1>1, <2>1 DEF IsFreeing
  <2>5. ~init_done' => ~init_done /\ code'[t].stack = <<>>
    BY <2>1 DEF IInv
  <2> QED BY <2>2, <2>3, <2>4, <2>5, ThreadStep
<1>5. CASE Text(t)
  <2>1. /\ pc[t] = "text" /\ half' = half \ {t} /\ Flush(t)
        /\ pc' = [pc EXCEPT ![t] = "run"] /\ job' = [job EXCEPT ![t] = NoJob]
        /\ UNCHANGED <<status, init_done, open, mstat>>
    BY <1>5, TextCases
  <2>2. mutex' \in Threads \cup {NULL}
    BY <1>1, <2>1 DEF Flush, Typed
  <2>3. /\ pc'[t] = "run" /\ job'[t] = NoJob /\ NoJob \in Jobs /\ NoJob.op = "none"
        /\ \A u \in Threads \ {t} : pc'[u] = pc[u] /\ job'[u] = job[u]
    BY <1>1, <2>1 DEF Typed, NoJob, Jobs, Ops
  <2>4. /\ code' \in [Threads -> Code] /\ frames' \in [Threads -> Seq(Frames \cup {NULL})]
        /\ \A u \in Threads \ {t} : code'[u] = code[u] /\ frames'[u] = frames[u]
        /\ code'[t].level <= MaxFrames /\ code'[t].stack = code[t].stack
    <3>1. CASE job[t].op = "return" /\ Leave(t)
      <4>1. frames[t] # <<>> /\ Head(frames[t]) # NULL
        BY <1>1, <2>1, <3>1 DEF Bounded, InLine
      <4>2. /\ code' \in [Threads -> Code] /\ frames' \in [Threads -> Seq(Frames \cup {NULL})]
            /\ code'[t] = [code[t] EXCEPT !.level = Head(frames[t]).level - 1,
                                         !.func = Head(frames[t]).func]
            /\ code'[t].level \in 0 .. MaxFrames
            /\ \A u \in Threads \ {t} : code'[u] = code[u] /\ frames'[u] = frames[u]
        BY <1>1, <3>1, <4>1, LeaveFacts
      <4>3. code'[t].stack = code[t].stack
        BY <1>1, <4>2 DEF Code
      <4> QED BY <1>1, <4>2, <4>3
    <3>2. CASE /\ job[t].op \in {"alloc", "free"}
               /\ code' = [code EXCEPT ![t].level = @ - 1] /\ UNCHANGED frames
      <4>1. code[t].level - 1 \in 0 .. MaxFrames /\ code[t].level - 1 \in 0 .. MaxFrames + 1
        BY <1>1, <2>1, <3>2 DEF Bounded, InLine, Typed, Code
      <4> DEFINE c == [code[t] EXCEPT !.level = code[t].level - 1]
      <4>2. c \in Code /\ c.level <= MaxFrames /\ c.stack = code[t].stack
        BY <1>1, <4>1 DEF Code
      <4>3. code' = [code EXCEPT ![t] = c]
        BY <1>1, <3>2 DEF Typed
      <4> HIDE DEF c
      <4> QED BY <1>1, <3>2, <4>2, <4>3, ZenonT(40) DEF Typed
    <3>3. CASE /\ job[t].op \notin {"return", "alloc", "free"} /\ UNCHANGED <<code, frames>>
      BY <1>1, <2>1, <3>3 DEF Typed, Bounded, InLine
    <3> QED BY <1>5, <3>1, <3>2, <3>3, TextCases
  <2>5. ~IsFreeing(t)'
    BY <2>3 DEF IsFreeing
  <2>6. live' = live \/ (IsFreeing(t) /\ live' = live - 1)
    <3>1. live' = live \/ (job[t].op = "free" /\ live' = live - 1)
      BY <1>5, TextCases
    <3> QED BY <2>1, <3>1 DEF IsFreeing
  <2>7. live' \in Nat
    <3>1. CASE IsFreeing(t) /\ live' = live - 1
      <4>1. t \in Freeing
        BY <3>1 DEF Freeing
      <4>2. Cardinality(Freeing) \in Nat /\ Cardinality(Freeing) # 0
        BY <4>1, DbugAssumption, FS_Subset, FS_CardinalityType, FS_EmptySet DEF Freeing
      <4> QED BY <1>1, <3>1, <4>2 DEF IInv
    <3> QED BY <1>1, <2>6, <3>1
  <2>8. Typed'
    BY <1>1, <2>1, <2>2, <2>3, <2>4, <2>7 DEF Typed
  <2>9. OnlyThread(t)
    BY <2>3, <2>4 DEF OnlyThread
  <2>10. Bounded(t)'
    BY <2>3, <2>4 DEF Bounded, InLine
  <2>11. ~init_done' => ~init_done /\ code'[t].stack = <<>>
    BY <2>1, <2>4 DEF IInv
  <2> QED BY <1>1, <2>5, <2>6, <2>8, <2>9, <2>10, <2>11, ThreadStep
<1> QED BY <1>2, <1>3, <1>4, <1>5 DEF Writing

(* A thread for which fclose fails keeps its level and its types.            *)
LEMMA FailIInv ==
    ASSUME IInv, NEW t \in Threads, Fails(t)
    PROVE  IInv'
<1>1. Typed /\ live \in Nat
  BY DEF IInv, Typed
<1>2. /\ Idle(t) /\ pc' = [pc EXCEPT ![t] = "unclosed"]
      /\ job' = [job EXCEPT ![t] = [op |-> "close", text |-> TRUE]]
      /\ UNCHANGED <<init_done, mutex, mstat, frames, half, live>>
  BY DEF Fails
<1>3. PICK c \in Code, st \in Status, i \in DOMAIN code[t].stack : Loses(t, c, st, i)
  BY DEF Fails
<1>4. /\ code' = [code EXCEPT ![t] = c] /\ status' = [status EXCEPT ![t] = st]
      /\ open' \subseteq open
  BY <1>3 DEF Loses
<1>5. [op |-> "close", text |-> TRUE] \in Jobs
  BY DEF Jobs, Ops
<1>6. /\ code' \in [Threads -> Code] /\ status' \in [Threads -> Status]
      /\ \A u \in Threads \ {t} : code'[u] = code[u]
  BY <1>1, <1>3, <1>4 DEF Typed
<1>7. /\ pc'[t] = "unclosed" /\ job'[t].op = "close" /\ job' \in [Threads -> Jobs]
      /\ \A u \in Threads \ {t} : pc'[u] = pc[u] /\ job'[u] = job[u]
  BY <1>1, <1>2, <1>5 DEF Typed
<1>8. Typed'
  BY <1>1, <1>2, <1>4, <1>6, <1>7 DEF Typed
<1>9. OnlyThread(t)
  BY <1>2, <1>6, <1>7 DEF OnlyThread
<1>10. Bounded(t)'
  BY <1>7 DEF Bounded, InLine
<1>11. ~IsFreeing(t)' /\ live' >= live
  BY <1>1, <1>2, <1>7 DEF IsFreeing
<1>12. init_done /\ init_done' = init_done
  <2>1. code[t].stack # <<>>
    BY <1>3
  <2> QED BY <1>2, <2>1 DEF IInv
<1> QED BY <1>8, <1>9, <1>10, <1>11, <1>12, ThreadStep

LEMMA ReportIInv ==
    ASSUME IInv, NEW t \in Threads, ReportClose(t)
    PROVE  IInv'
<1>1. Typed /\ live \in Nat /\ Bounded(t)
  BY DEF IInv, Typed
<1>2. /\ pc[t] = "unclosed" /\ mutex' = t /\ half' = half \cup {t}
      /\ pc' = [pc EXCEPT ![t] = "crashed"]
      /\ UNCHANGED <<status, code, init_done, open, mstat, frames, job, live>>
  BY DEF ReportClose
<1>3. pc'[t] = "crashed" /\ \A u \in Threads \ {t} : pc'[u] = pc[u]
  BY <1>1, <1>2 DEF Typed
<1>4. Typed' /\ OnlyThread(t)
  BY <1>1, <1>2, <1>3 DEF Typed, OnlyThread
<1>5. Bounded(t)'
  BY <1>3 DEF Bounded, InLine
<1>6. (IsFreeing(t)' => IsFreeing(t)) /\ live' >= live
  BY <1>1, <1>2, <1>3 DEF IsFreeing
<1>7. ~init_done' => ~init_done /\ code'[t].stack = <<>>
  BY <1>2 DEF IInv
<1> QED BY <1>4, <1>5, <1>6, <1>7, ThreadStep

LEMMA IInvStep == IInv /\ [Next]_vars => IInv'
<1> SUFFICES ASSUME IInv, [Next]_vars
             PROVE  IInv'
  OBVIOUS
<1>1. CASE UNCHANGED vars
  BY <1>1 DEF vars, IInv, Typed, Bounded, InLine, Freeing, IsFreeing
<1>2. ASSUME NEW t \in Threads, Verbosity(t)
      PROVE  IInv'
  BY <1>2, VerbosityCases, SucceedIInv, FailIInv
<1>3. ASSUME NEW t \in Threads, Working(t)
      PROVE  IInv'
  <2>1. CASE \E f \in Functions : Enter(t, f)
    BY <2>1, EnterIInv
  <2>2. CASE Return(t) \/ ReturnSilently(t)
    BY <2>2, ReturnIInv
  <2>3. CASE \E k \in Keywords : Doprnt(t, k) \/ Dump(t, k)
    BY <2>3, SelectedIInv
  <2>4. CASE LockFile(t) \/ UnlockFile(t)
    BY <2>4, FileIInv
  <2>5. CASE Alloc(t)
    BY <2>5, AllocIInv
  <2>6. CASE Free(t)
    BY <2>6, FreeIInv
  <2>7. CASE MemoryCleaned(t) \/ Compare(t)
    BY <2>7, CleanedIInv
  <2> QED BY <1>3, <2>1, <2>2, <2>3, <2>4, <2>5, <2>6, <2>7 DEF Working
<1>4. ASSUME NEW t \in Threads, Writing(t)
      PROVE  IInv'
  BY <1>4, WritingIInv
<1>5. ASSUME NEW t \in Threads, ReportClose(t)
      PROVE  IInv'
  BY <1>5, ReportIInv
<1> QED BY <1>1, <1>2, <1>3, <1>4, <1>5 DEF Next

(* The inductive invariant that every other proof starts from.               *)
THEOREM Invariance == Spec => []IInv
<1>1. Init => IInv
  BY InitIInv
<1>2. IInv /\ [Next]_vars => IInv'
  BY IInvStep
<1> QED BY <1>1, <1>2, PTL DEF Spec

(* The state keeps its types: the level of a thread stays within its bounds,  *)
(* and no block is freed that nobody has, whatever order the calls of        *)
(* dbug.c come in and whatever the program takes care of.                    *)
THEOREM Typing == Spec => []TypeOK
<1>1. IInv => TypeOK
  <2> SUFFICES ASSUME IInv
               PROVE  TypeOK
    OBVIOUS
  <2>1. \A t \in Threads : code[t].level \in 0 .. MaxFrames + 1
    BY DEF IInv, Typed, Code
  <2>2. status \in [Threads -> [db_on : BOOLEAN, no_db : BOOLEAN,
                                process : Names \cup {"dbug"},
                                db_fp : Streams \cup {"stderr", "stdout", NULL}]]
    BY DEF IInv, Typed, Status, Files
  <2> QED BY <2>1, <2>2 DEF IInv, Typed, TypeOK
<1> QED BY <1>1, Invariance, PTL

-----------------------------------------------------------------------------
(* One line at a time.  This needs of the program only that a thread that    *)
(* has the file gives it back before it ends ("lock").                       *)

(* A thread has the mutex if it has the file, or is in a line; a thread that *)
(* crashed keeps what it had, the line it had begun too.                     *)
Lines ==
    /\ \A t \in Threads : pc[t] # "crashed" =>
          (mutex = t <=> code[t].locked \/ pc[t] \in {"prefix", "text"})
    /\ \A t \in half : mutex = t /\ pc[t] \in {"text", "crashed"}

(* The thread does not begin or end to write.                                *)
WritesNothing(u) ==
    \/ pc'[u] = pc[u]
    \/ pc'[u] = "crashed" /\ pc[u] # "text"
    \/ /\ pc[u] \in {"run", "want", "compare"}
       /\ pc'[u] \in {"run", "want", "compare", "unclosed"}

LEMMA LinesKept ==
    ASSUME Typed, Lines, UNCHANGED <<mutex, half>>,
           \A u \in Threads : code'[u].locked = code[u].locked /\ WritesNothing(u)
    PROVE  Lines'
<1>1. ASSUME NEW u \in Threads, pc'[u] # "crashed"
      PROVE  (mutex = u <=> code[u].locked \/ pc[u] \in {"prefix", "text"})'
  <2>1. pc[u] # "crashed" /\ (pc'[u] \in {"prefix", "text"} <=> pc[u] \in {"prefix", "text"})
    BY <1>1 DEF WritesNothing
  <2> QED BY <1>1, <2>1 DEF Lines
<1>2. ASSUME NEW u \in half'
      PROVE  mutex' = u /\ pc'[u] \in {"text", "crashed"}
  <2>1. u \in Threads /\ mutex' = u /\ pc[u] \in {"text", "crashed"}
    BY <1>2 DEF Typed, Lines
  <2> QED BY <2>1 DEF WritesNothing
<1> QED BY <1>1, <1>2 DEF Lines

LEMMA SucceedLines ==
    ASSUME "lock" \in Contract, IInv, Lines, NEW t \in Threads, Succeeds(t)
    PROVE  Lines'
<1>1. Typed /\ pc[t] = "run" /\ code[t] \in Code
  BY DEF IInv, Typed, Succeeds, Enable, PushControl, Ends, Suspend, Resume, Pops, Process, Idle
<1>2. UNCHANGED quiet
  BY DEF Succeeds, Enable, PushControl, Ends, Suspend, Resume, Pops, Process
<1>3. ASSUME \A u \in Threads : code'[u].locked = code[u].locked
      PROVE  Lines'
  <2>1. mutex' = mutex /\ half' = half /\ \A u \in Threads : WritesNothing(u)
    BY <1>2 DEF quiet, WritesNothing
  <2> QED BY <1>1, <1>3, <2>1, LinesKept
<1>4. ASSUME NEW control \in Controls[t], Enable(t, control) \/ PushControl(t, control)
      PROVE  Lines'
  <2>1. PICK files \in Opened(control) :
           code' = [code EXCEPT ![t] = Pushed(code[t], status[t], control, files).code]
    BY <1>4 DEF Enable, PushControl
  <2> DEFINE p == Pushed(code[t], status[t], control, files)
  <2>2. p.code.locked = code[t].locked /\ code' = [code EXCEPT ![t] = p.code]
    BY <1>1, <2>1, PushTypes
  <2> HIDE DEF p
  <2> QED BY <1>1, <1>3, <2>2 DEF Typed
<1>5. CASE Ends(t)
  <2>1. code' = [code EXCEPT ![t] = FreshCode] /\ mutex # t
    BY <1>5 DEF Ends, DbEnd, MayEnd
  <2>2. code'[t].locked = FALSE /\ code[t].locked = FALSE
    BY <1>1, <2>1 DEF FreshCode, Typed, Lines, Code
  <2> QED BY <1>1, <1>3, <2>1, <2>2 DEF Typed
<1>6. CASE Suspend(t) \/ Resume(t) \/ \E name \in Names : Process(t, name)
  BY <1>3, <1>6 DEF Suspend, Resume, Process
<1>7. CASE Pops(t)
  <2> DEFINE c == [code[t] EXCEPT !.stack = Tail(code[t].stack)]
  <2>1. code' = code \/ code' = [code EXCEPT ![t] = c]
    BY <1>7 DEF Pops, DbPop
  <2>2. c.locked = code[t].locked
    BY <1>1 DEF Code
  <2> HIDE DEF c
  <2>3. \A u \in Threads : code'[u].locked = code[u].locked
    BY <1>1, <2>1, <2>2 DEF Typed
  <2> QED BY <1>3, <2>3
<1> QED BY <1>4, <1>5, <1>6, <1>7 DEF Succeeds

LEMMA FailLines ==
    ASSUME IInv, Lines, NEW t \in Threads, Fails(t)
    PROVE  Lines'
<1>1. Typed /\ pc[t] = "run" /\ pc' = [pc EXCEPT ![t] = "unclosed"] /\ UNCHANGED <<mutex, half>>
  BY DEF IInv, Fails, Idle
<1>2. PICK c : code' = [code EXCEPT ![t] = c] /\ c.locked = code[t].locked
  BY DEF Fails, Loses
<1>3. \A u \in Threads : code'[u].locked = code[u].locked
  BY <1>1, <1>2 DEF Typed
<1>4. \A u \in Threads : WritesNothing(u)
  BY <1>1 DEF Typed, WritesNothing
<1> QED BY <1>1, <1>3, <1>4, LinesKept

LEMMA ReportLines ==
    ASSUME IInv, Lines, NEW t \in Threads, ReportClose(t)
    PROVE  Lines'
<1>1. /\ Typed /\ NULL \notin Threads /\ pc[t] = "unclosed" /\ mutex = NULL
      /\ mutex' = t /\ half' = half \cup {t} /\ code' = code
      /\ pc' = [pc EXCEPT ![t] = "crashed"]
  BY DbugAssumption DEF IInv, ReportClose
<1>2. pc'[t] = "crashed" /\ \A u \in Threads \ {t} : pc'[u] = pc[u]
  BY <1>1 DEF Typed
<1>3. half = {}
  BY <1>1 DEF Lines, Typed
<1>4. ASSUME NEW u \in Threads \ {t}, pc'[u] # "crashed"
      PROVE  (mutex = u <=> code[u].locked \/ pc[u] \in {"prefix", "text"})'
  BY <1>1, <1>2, <1>4 DEF Lines
<1> QED BY <1>1, <1>2, <1>3, <1>4 DEF Lines

(* The calls between lines do not change who may write.                      *)
LEMMA WorkingLines ==
    ASSUME IInv, Lines, NEW t \in Threads, Working(t)
    PROVE  Lines'
<1>1. Typed /\ code[t] \in Code
  BY DEF IInv, Typed
<1>2. ASSUME UNCHANGED <<mutex, half>>,
             code' = code \/ \E c : code' = [code EXCEPT ![t] = c] /\ c.locked = code[t].locked,
             \/ pc' = pc
             \/ pc[t] # "text" /\ pc' = [pc EXCEPT ![t] = "crashed"]
             \/ pc[t] = "run" /\ \E to \in {"want", "compare"} : pc' = [pc EXCEPT ![t] = to]
             \/ pc[t] = "compare" /\ pc' = [pc EXCEPT ![t] = "run"]
      PROVE  Lines'
  <2>1. \A u \in Threads : code'[u].locked = code[u].locked
    BY <1>1, <1>2 DEF Typed
  <2>2. ASSUME NEW u \in Threads
        PROVE  WritesNothing(u)
    <3>1. CASE u = t
      <4>1. \A to : pc' = [pc EXCEPT ![t] = to] => pc'[t] = to
        BY <1>1 DEF Typed
      <4> QED BY <1>2, <3>1, <4>1 DEF WritesNothing
    <3>2. CASE u # t
      BY <1>1, <1>2, <3>2 DEF WritesNothing, Typed
    <3> QED BY <3>1, <3>2
  <2> QED BY <1>1, <1>2, <2>1, <2>2, LinesKept
<1>3. ASSUME Crash(t), Idle(t)
      PROVE  Lines'
  BY <1>2, <1>3 DEF Crash, Idle
<1> DEFINE s == Started(t)
<1>4. /\ s.code \in Code /\ s.code.locked = code[t].locked
      /\ \A f : [s.code EXCEPT !.func = f, !.level = @ + 1].locked = code[t].locked
      /\ [s.code EXCEPT !.level = @ + 1].locked = code[t].locked
      /\ [code[t] EXCEPT !.level = @ + 1].locked = code[t].locked
  <2>1. s.code \in Code /\ s.code.locked = code[t].locked
    BY <1>1, StartedTypes
  <2> HIDE DEF s
  <2> QED BY <1>1, <2>1 DEF Code
<1>5. ASSUME NEW f \in Functions, Enter(t, f)
      PROVE  Lines'
  <2> DEFINE c == [s.code EXCEPT !.func = f, !.level = @ + 1]
  <2>1. Idle(t)
    BY <1>5 DEF Enter
  <2>2. \/ UNCHANGED <<code, pc, lines>> \/ Crash(t)
        \/ /\ code' = [code EXCEPT ![t] = c] /\ UNCHANGED lines
           /\ UNCHANGED pc \/ Begin(t, "enter", TRUE)
    BY <1>5 DEF Enter
  <2>3. c.locked = code[t].locked
    BY <1>4
  <2> HIDE DEF c
  <2> QED BY <1>2, <1>3, <2>1, <2>2, <2>3 DEF Begin, Idle, lines
<1>6. CASE Return(t) \/ ReturnSilently(t)
  <2>1. Idle(t)
    BY <1>6 DEF Return, ReturnSilently
  <2>2. \/ UNCHANGED <<code, pc, lines>> \/ Crash(t)
        \/ (\E text : Begin(t, "return", text)) /\ UNCHANGED <<code, lines>>
        \/ Leave(t) /\ UNCHANGED <<pc, lines>>
    BY <1>6 DEF Return, ReturnSilently
  <2>3. ASSUME Leave(t), UNCHANGED <<pc, lines>>
        PROVE  Lines'
    <3> DEFINE c == [code[t] EXCEPT !.level = Head(frames[t]).level - 1,
                                    !.func = Head(frames[t]).func]
    <3>1. code' = [code EXCEPT ![t] = c] /\ c.locked = code[t].locked
      BY <1>1, <2>3 DEF Leave, Typed, Code
    <3> HIDE DEF c
    <3> QED BY <1>2, <2>3, <3>1 DEF lines
  <2> QED BY <1>2, <1>3, <2>1, <2>2, <2>3 DEF Begin, Idle, lines
<1>7. ASSUME NEW k \in Keywords, Doprnt(t, k) \/ Dump(t, k)
      PROVE  Lines'
  <2>1. /\ Idle(t)
        /\ \/ Crash(t)
           \/ (\E op : Begin(t, op, TRUE)) /\ UNCHANGED <<code, lines>>
    BY <1>7 DEF Doprnt, Dump, Selected
  <2> QED BY <1>2, <1>3, <2>1 DEF Begin, Idle, lines
<1>8. CASE LockFile(t)
  <2>1. /\ pc[t] = "run" /\ mutex = NULL /\ mutex' = t /\ UNCHANGED <<pc, half>>
        /\ code' = [code EXCEPT ![t].locked = TRUE]
    BY <1>8 DEF LockFile, Idle
  <2>2. code'[t].locked /\ \A u \in Threads \ {t} : code'[u] = code[u]
    BY <1>1, <2>1 DEF Typed, Code
  <2>3. half = {} /\ NULL \notin Threads
    BY <1>1, <2>1, DbugAssumption DEF Lines, Typed
  <2> QED BY <1>1, <2>1, <2>2, <2>3 DEF Lines, Typed
<1>9. CASE UnlockFile(t)
  <2>1. /\ pc[t] = "run" /\ mutex = t /\ mutex' = NULL /\ UNCHANGED <<pc, half>>
        /\ code' = [code EXCEPT ![t].locked = FALSE]
    BY <1>9 DEF UnlockFile, Idle
  <2>2. ~code'[t].locked /\ \A u \in Threads \ {t} : code'[u] = code[u]
    BY <1>1, <2>1 DEF Typed, Code
  <2>3. half = {} /\ NULL \notin Threads
    BY <1>1, <2>1, DbugAssumption DEF Lines, Typed
  <2> QED BY <1>1, <2>1, <2>2, <2>3 DEF Lines, Typed
<1>10. CASE Alloc(t)
  <2> DEFINE c == [s.code EXCEPT !.level = @ + 1]
  <2>1. Idle(t)
    BY <1>10 DEF Alloc
  <2>2. \/ UNCHANGED <<code, pc, mutex, half>> \/ Crash(t)
        \/ /\ UNCHANGED <<mutex, half>>
           /\ \/ code' = [code EXCEPT ![t] = c] /\ Begin(t, "alloc", TRUE)
              \/ code' = [code EXCEPT ![t] = s.code] /\ UNCHANGED pc
    BY <1>10 DEF Alloc, NoDbAlloc
  <2>3. c.locked = code[t].locked
    BY <1>4
  <2> HIDE DEF c, s
  <2> QED BY <1>2, <1>3, <1>4, <2>1, <2>2, <2>3 DEF Begin, Idle
<1>11. CASE Free(t)
  <2> DEFINE c == [code[t] EXCEPT !.level = @ + 1]
  <2>1. Idle(t)
    BY <1>11 DEF Free
  <2>2. \/ UNCHANGED <<code, pc, mutex, half>> \/ Crash(t)
        \/ /\ UNCHANGED <<mutex, half>>
           /\ code' = [code EXCEPT ![t] = c] /\ Begin(t, "free", TRUE)
    BY <1>11 DEF Free, NoDbFree, vars, lines
  <2>3. c.locked = code[t].locked
    BY <1>4
  <2> HIDE DEF c, s
  <2> QED BY <1>2, <1>3, <2>1, <2>2, <2>3 DEF Begin, Idle
<1>12. CASE MemoryCleaned(t) \/ Compare(t)
  BY <1>2, <1>12 DEF MemoryCleaned, Compare, Idle, lines
<1> QED BY <1>5, <1>6, <1>7, <1>8, <1>9, <1>10, <1>11, <1>12 DEF Working

(* The mutex is taken for a line, unless the thread has the file, and given  *)
(* back at its end.                                                          *)
LEMMA WritingLines ==
    ASSUME IInv, Lines, NEW t \in Threads, Writing(t)
    PROVE  Lines'
<1>1. Typed /\ code[t] \in Code /\ NULL \notin Threads
  BY DbugAssumption DEF IInv, Typed
<1>2. CASE Acquire(t)
  <2>1. /\ pc[t] = "want" /\ UNCHANGED <<code, half>>
        /\ \/ code[t].locked /\ UNCHANGED mutex
           \/ ~code[t].locked /\ mutex = NULL /\ mutex' = t
    BY <1>2 DEF Acquire
  <2>2. PICK to \in {"prefix", "text"} : pc' = [pc EXCEPT ![t] = to]
    BY <1>2 DEF Acquire
  <2>3. pc'[t] = to /\ \A u \in Threads \ {t} : pc'[u] = pc[u]
    BY <1>1, <2>2 DEF Typed
  <2>4. ASSUME NEW u \in Threads, pc'[u] # "crashed"
        PROVE  (mutex = u <=> code[u].locked \/ pc[u] \in {"prefix", "text"})'
    <3>1. CASE u = t
      BY <1>1, <2>1, <2>3, <3>1 DEF Lines
    <3>2. CASE u # t
      BY <1>1, <2>1, <2>3, <2>4, <3>2 DEF Lines
    <3> QED BY <3>1, <3>2
  <2>5. \A u \in half' : mutex' = u /\ pc'[u] \in {"text", "crashed"}
    BY <1>1, <2>1, <2>3 DEF Lines, Typed
  <2> QED BY <2>4, <2>5 DEF Lines
<1>3. CASE DoPrefix(t) /\ ~Usable(status[t].db_fp)
  <2>1. pc[t] = "prefix" /\ Crash(t)
    BY <1>3 DEF DoPrefix
  <2>2. \A u \in Threads : WritesNothing(u)
    BY <1>1, <2>1 DEF Crash, WritesNothing, Typed
  <2> QED BY <1>1, <2>1, <2>2, LinesKept DEF Crash
<1>4. CASE DoPrefix(t) /\ Usable(status[t].db_fp)
  <2>1. /\ pc[t] = "prefix" /\ half' = half \cup {t} /\ pc' = [pc EXCEPT ![t] = "text"]
        /\ UNCHANGED <<code, mutex>>
    BY <1>4 DEF DoPrefix
  <2>2. pc'[t] = "text" /\ \A u \in Threads \ {t} : pc'[u] = pc[u]
    BY <1>1, <2>1 DEF Typed
  <2>3. mutex = t /\ half \subseteq {t}
    BY <1>1, <2>1 DEF Lines, Typed
  <2> QED BY <1>1, <2>1, <2>2, <2>3 DEF Lines, Typed
<1>5. CASE Text(t)
  <2>1. /\ pc[t] = "text" /\ half' = half \ {t} /\ Flush(t)
        /\ pc' = [pc EXCEPT ![t] = "run"]
    BY <1>5, TextCases
  <2>2. pc'[t] = "run" /\ \A u \in Threads \ {t} : pc'[u] = pc[u]
    BY <1>1, <2>1 DEF Typed
  <2>3. \A u \in Threads : code'[u].locked = code[u].locked
    <3>1. CASE Leave(t)
      <4> DEFINE c == [code[t] EXCEPT !.level = Head(frames[t]).level - 1,
                                      !.func = Head(frames[t]).func]
      <4>1. code' = [code EXCEPT ![t] = c] /\ c.locked = code[t].locked
        BY <1>1, <3>1 DEF Leave, Typed, Code
      <4> HIDE DEF c
      <4> QED BY <1>1, <4>1 DEF Typed
    <3>2. CASE code' = [code EXCEPT ![t].level = @ - 1]
      <4> DEFINE c == [code[t] EXCEPT !.level = @ - 1]
      <4>1. code' = [code EXCEPT ![t] = c] /\ c.locked = code[t].locked
        BY <1>1, <3>2 DEF Typed, Code
      <4> HIDE DEF c
      <4> QED BY <1>1, <4>1 DEF Typed
    <3>3. CASE code' = code
      BY <3>3
    <3> QED BY <1>5, <3>1, <3>2, <3>3, TextCases
  <2>4. mutex = t /\ mutex' = (IF code[t].locked THEN mutex ELSE NULL)
    BY <2>1 DEF Lines, Flush
  <2>5. ASSUME NEW u \in Threads, pc'[u] # "crashed"
        PROVE  (mutex = u <=> code[u].locked \/ pc[u] \in {"prefix", "text"})'
    <3>1. CASE u = t
      BY <1>1, <2>2, <2>3, <2>4, <3>1
    <3>2. CASE u # t
      BY <1>1, <2>2, <2>3, <2>4, <2>5, <3>2 DEF Lines
    <3> QED BY <3>1, <3>2
  <2>6. half' = {}
    BY <1>1, <2>1, <2>4 DEF Lines
  <2> QED BY <2>5, <2>6 DEF Lines
<1> QED BY <1>2, <1>3, <1>4, <1>5 DEF Writing

(* Lines of different threads are never mixed, and every way through a call  *)
(* gives the mutex back: for all programs whose threads do not end while     *)
(* they have the file, even those that crash or fail to close a stream.      *)
THEOREM OneLine ==
    ASSUME "lock" \in Contract
    PROVE  Spec => []OneLineAtATime
<1>1. Init => Lines
  BY DbugAssumption DEF Init, Lines, FreshCode
<1>2. IInv /\ Lines /\ [Next]_vars => Lines'
  <2> SUFFICES ASSUME IInv, Lines, [Next]_vars
               PROVE  Lines'
    OBVIOUS
  <2>1. CASE UNCHANGED vars
    BY <2>1 DEF vars, Lines
  <2>2. CASE Next
    <3>1. PICK t \in Threads : Verbosity(t) \/ Working(t) \/ Writing(t) \/ ReportClose(t)
      BY <2>2 DEF Next
    <3>2. Verbosity(t) => Succeeds(t) \/ Fails(t)
      BY VerbosityCases
    <3> QED BY <3>1, <3>2, SucceedLines, FailLines, WorkingLines, WritingLines, ReportLines
  <2> QED BY <2>1, <2>2
<1>3. IInv /\ Lines => OneLineAtATime
  <2> SUFFICES ASSUME IInv, Lines
               PROVE  OneLineAtATime
    OBVIOUS
  <2>1. \A t \in half : t \in Threads /\ mutex = t
    BY DEF IInv, Typed, Lines
  <2>2. \A t \in Threads : Idle(t) => (mutex = t <=> code[t].locked)
    BY DEF Lines, Idle
  <2> QED BY <2>1, <2>2 DEF OneLineAtATime
<1> QED BY <1>1, <1>2, <1>3, Invariance, PTL DEF Spec

-----------------------------------------------------------------------------
(* The nesting level.  This needs of the program that a thread changes its   *)
(* verbosity outside of its functions ("outside"), and that a check that     *)
(* skips DBUG_LEAVE is not that of the outermost function ("leave").         *)

(* Every _sstate_ was written, the outermost at level 1; or none was.        *)
Written(fs) ==
    /\ \A i \in 1 .. Len(fs) : fs[i] # NULL
    /\ fs # <<>> => fs[Len(fs)].level = 1

Unwritten(fs) == \A i \in 1 .. Len(fs) : fs[i] = NULL

(* A thread is in its functions either all with the debugger or all without. *)
Nested(t) ==
    /\ status[t].no_db => ~InLine(t) /\ code[t].level = 0 /\ Unwritten(frames[t])
    /\ ~status[t].no_db => Written(frames[t])
    /\ frames[t] = <<>> /\ pc[t] \in {"run", "compare"} => code[t].level = 0
    /\ InLine(t) => frames[t] # <<>>
    /\ status[t].db_on => ~status[t].no_db

LEMMA WrittenPush ==
    ASSUME NEW S, NEW fs \in Seq(S), NEW f \in S, Written(fs), f # NULL,
           fs = <<>> => f.level = 1
    PROVE  Written(<<f>> \o fs)
<1> DEFINE new == <<f>> \o fs
<1>1. /\ new \in Seq(S) /\ Len(new) = Len(fs) + 1 /\ new[1] = f /\ Len(fs) \in Nat
      /\ \A i \in 2 .. Len(new) : new[i] = fs[i - 1]
  OBVIOUS
<1>2. \A i \in 1 .. Len(new) : new[i] # NULL
  <2> HIDE DEF new
  <2> QED BY <1>1 DEF Written
<1>3. new[Len(new)].level = 1
  <2>1. CASE fs = <<>>
    <3>1. Len(new) = 1
      BY <2>1
    <3> QED BY <2>1, <3>1
  <2>2. CASE fs # <<>>
    <3>1. Len(fs) > 0
      BY <2>2
    <3>2. new[Len(new)] = fs[Len(fs)]
      BY <1>1, <3>1
    <3> QED BY <2>2, <3>2 DEF Written
  <2> QED BY <2>1, <2>2
<1> QED BY <1>2, <1>3 DEF Written

LEMMA WrittenTail ==
    ASSUME NEW S, NEW fs \in Seq(S), Written(fs), fs # <<>>
    PROVE  /\ Written(Tail(fs))
           /\ Head(fs) # NULL
           /\ Tail(fs) = <<>> => Head(fs).level = 1
<1>1. /\ Len(fs) \in Nat /\ Len(fs) > 0 /\ Len(Tail(fs)) = Len(fs) - 1
      /\ Tail(fs) \in Seq(S) /\ Head(fs) = fs[1]
      /\ \A i \in 1 .. Len(fs) - 1 : Tail(fs)[i] = fs[i + 1]
  OBVIOUS
<1>2. \A i \in 1 .. Len(Tail(fs)) : Tail(fs)[i] # NULL
  BY <1>1 DEF Written
<1>3. ASSUME Tail(fs) # <<>>
      PROVE  Tail(fs)[Len(Tail(fs))].level = 1
  <2>1. Len(fs) - 1 > 0
    BY <1>1, <1>3
  <2>2. Tail(fs)[Len(Tail(fs))] = fs[Len(fs)]
    BY <1>1, <2>1
  <2> QED BY <2>2 DEF Written
<1>4. ASSUME Tail(fs) = <<>>
      PROVE  Head(fs).level = 1
  <2>1. Len(fs) = 1
    BY <1>1, <1>4
  <2> QED BY <1>1, <2>1 DEF Written
<1>5. Head(fs) # NULL
  BY <1>1 DEF Written
<1> QED BY <1>2, <1>3, <1>4, <1>5 DEF Written

LEMMA UnwrittenChanges ==
    ASSUME NEW S, NEW fs \in Seq(S), NULL \in S, Unwritten(fs)
    PROVE  /\ Unwritten(<<NULL>> \o fs)
           /\ fs # <<>> => Unwritten(Tail(fs))
<1>1. Unwritten(<<NULL>> \o fs)
  <2> DEFINE new == <<NULL>> \o fs
  <2>1. /\ Len(new) = Len(fs) + 1 /\ new[1] = NULL /\ Len(fs) \in Nat
        /\ \A i \in 2 .. Len(new) : new[i] = fs[i - 1]
    OBVIOUS
  <2> HIDE DEF new
  <2> QED BY <2>1 DEF Unwritten
<1>2. ASSUME fs # <<>>
      PROVE  Unwritten(Tail(fs))
  <2>1. /\ Len(fs) \in Nat /\ Len(fs) > 0 /\ Len(Tail(fs)) = Len(fs) - 1
        /\ \A i \in 1 .. Len(fs) - 1 : Tail(fs)[i] = fs[i + 1]
    BY <1>2
  <2> QED BY <2>1 DEF Unwritten
<1> QED BY <1>1, <1>2

LEMMA NestedStep ==
    ASSUME \A u \in Threads : Nested(u), NEW t \in Threads, OnlyThread(t),
           \A u \in Threads \ {t} : status'[u] = status[u],
           Nested(t)'
    PROVE  \A u \in Threads : Nested(u)'
<1> SUFFICES ASSUME NEW u \in Threads, u # t
             PROVE  Nested(u)'
  OBVIOUS
<1>1. Nested(u) /\ code'[u] = code[u] /\ frames'[u] = frames[u] /\ pc'[u] = pc[u]
      /\ job'[u] = job[u] /\ status'[u] = status[u]
  BY DEF OnlyThread
<1> QED BY <1>1 DEF Nested, InLine

(* The settings change outside of the functions, or not at all.              *)
LEMMA SucceedNested ==
    ASSUME "outside" \in Contract, IInv, \A u \in Threads : Nested(u),
           NEW t \in Threads, Succeeds(t)
    PROVE  \A u \in Threads : Nested(u)'
<1>1. /\ Typed /\ code[t] \in Code /\ status[t] \in Status /\ Nested(t)
      /\ pc[t] = "run" /\ UNCHANGED quiet
  BY DEF IInv, Typed, Succeeds, Enable, PushControl, Ends, Suspend, Resume, Pops, Process, Idle
<1>2. ASSUME NEW c, NEW st, code' = [code EXCEPT ![t] = c], status' = [status EXCEPT ![t] = st],
             c.level = 0, frames[t] = <<>>, st.db_on => ~st.no_db
      PROVE  \A u \in Threads : Nested(u)'
  <2>1. OnlyThread(t) /\ \A u \in Threads \ {t} : status'[u] = status[u]
    BY <1>1, <1>2 DEF OnlyThread, quiet, Typed
  <2>2. code'[t] = c /\ status'[t] = st /\ pc'[t] = "run" /\ frames'[t] = <<>>
    BY <1>1, <1>2 DEF quiet, Typed
  <2>3. Written(<<>>) /\ Unwritten(<<>>)
    BY DEF Written, Unwritten
  <2>4. Nested(t)'
    BY <1>2, <2>2, <2>3 DEF Nested, InLine
  <2> QED BY <2>1, <2>4, NestedStep
<1>3. frames[t] = <<>> => code[t].level = 0
  BY <1>1 DEF Nested
<1>4. ASSUME NEW control \in Controls[t], Enable(t, control) \/ PushControl(t, control)
      PROVE  \A u \in Threads : Nested(u)'
  <2>1. PICK files \in Opened(control) :
           LET p == Pushed(code[t], status[t], control, files) IN
           /\ code' = [code EXCEPT ![t] = p.code]
           /\ \/ status' = [status EXCEPT ![t] = [p.status EXCEPT !.no_db = FALSE, !.db_on = TRUE]]
              \/ status' = [status EXCEPT ![t] = p.status]
    BY <1>4 DEF Enable, PushControl
  <2>2. frames[t] = <<>>
    BY <1>4 DEF Enable, PushControl, MayChange
  <2> DEFINE p == Pushed(code[t], status[t], control, files)
  <2>3. /\ code' = [code EXCEPT ![t] = p.code]
        /\ \/ status' = [status EXCEPT ![t] = [p.status EXCEPT !.no_db = FALSE, !.db_on = TRUE]]
           \/ status' = [status EXCEPT ![t] = p.status]
    BY <2>1
  <2>4. /\ p.status \in Status /\ p.code.level = code[t].level
        /\ (status[t].db_on => ~status[t].no_db) => (p.status.db_on => ~p.status.no_db)
    BY <1>1, PushTypes
  <2> HIDE DEF p
  <2>5. /\ p.code.level = 0 /\ (p.status.db_on => ~p.status.no_db)
        /\ ~[p.status EXCEPT !.no_db = FALSE, !.db_on = TRUE].no_db
    BY <1>1, <1>3, <2>2, <2>4 DEF Nested, Status
  <2> QED BY <1>2, <2>2, <2>3, <2>5
<1>5. CASE Ends(t)
  <2>1. DbEnd(t) /\ frames[t] = <<>>
    BY <1>5 DEF Ends, MayChange
  <2>2. FreshCode.level = 0 /\ ~FreshStatus.db_on
    BY DEF FreshCode, FreshStatus
  <2> QED BY <1>2, <2>1, <2>2 DEF DbEnd
<1>6. CASE Suspend(t) \/ Resume(t)
  <2>1. frames[t] = <<>> /\ code' = [code EXCEPT ![t] = code[t]]
    BY <1>1, <1>6 DEF Suspend, Resume, MayChange, Typed
  <2>2. PICK b \in BOOLEAN :
           status' = [status EXCEPT ![t] = [status[t] EXCEPT !.no_db = b, !.db_on = ~b]]
    <3>1. (TRUE \in BOOLEAN) /\ (FALSE \in BOOLEAN) /\ (~TRUE <=> FALSE) /\ (~FALSE <=> TRUE)
      OBVIOUS
    <3>2. CASE Suspend(t)
      <4>1. status' = [status EXCEPT ![t] = [status[t] EXCEPT !.no_db = TRUE, !.db_on = ~TRUE]]
        BY <1>1, <3>1, <3>2 DEF Suspend, Typed
      <4> QED BY <4>1
    <3>3. CASE Resume(t)
      <4>1. status' = [status EXCEPT ![t] = [status[t] EXCEPT !.no_db = FALSE, !.db_on = ~FALSE]]
        BY <1>1, <3>1, <3>3 DEF Resume, DEBUGGER_ON, Typed
      <4> QED BY <4>1
    <3> QED BY <1>6, <3>2, <3>3
  <2> DEFINE st == [status[t] EXCEPT !.no_db = b, !.db_on = ~b]
  <2>3. st.db_on => ~st.no_db
    BY <1>1 DEF Status
  <2>4. status' = [status EXCEPT ![t] = st]
    BY <2>2
  <2> HIDE DEF st
  <2> QED BY <1>2, <1>3, <2>1, <2>3, <2>4
<1>7. ASSUME NEW name \in Names, Process(t, name)
      PROVE  \A u \in Threads : Nested(u)'
  <2>1. code' = code /\ status' = [status EXCEPT ![t] = [status[t] EXCEPT !.process = name]]
    BY <1>1, <1>7 DEF Process, Typed
  <2>2. \A u \in Threads : status'[u].no_db = status[u].no_db /\ status'[u].db_on = status[u].db_on
    <3>1. [status[t] EXCEPT !.process = name].no_db = status[t].no_db
          /\ [status[t] EXCEPT !.process = name].db_on = status[t].db_on
      BY <1>1 DEF Status
    <3> QED BY <1>1, <2>1, <3>1 DEF Typed
  <2> QED BY <1>1, <2>1, <2>2 DEF Nested, InLine, quiet
<1>8. CASE Pops(t)
  <2>1. frames[t] = <<>> /\ DbPop(t)
    BY <1>8 DEF Pops, MayChange
  <2> DEFINE stack == code[t].stack
             c  == [code[t] EXCEPT !.stack = Tail(stack)]
             on == status[t].db_on /\ "DEBUG_ON" \in stack[2].flags
             st == [status[t] EXCEPT !.db_fp = stack[2].out_file, !.db_on = on]
             off == [status[t] EXCEPT !.db_on = FALSE]
  <2>2. \/ code' = [code EXCEPT ![t] = c] /\ status' = [status EXCEPT ![t] = st]
        \/ code' = [code EXCEPT ![t] = code[t]] /\ status' = [status EXCEPT ![t] = off]
    BY <1>1, <2>1 DEF DbPop, Typed
  <2>3. c.level = code[t].level
    BY <1>1 DEF Code
  <2>4. (st.db_on => ~st.no_db) /\ ~off.db_on
    <3>1. /\ st.db_on = on /\ st.no_db = status[t].no_db /\ off.db_on = FALSE
      BY <1>1 DEF Status
    <3>2. on => status[t].db_on
      OBVIOUS
    <3> HIDE DEF st, off, on
    <3> QED BY <1>1, <3>1, <3>2 DEF Nested
  <2> HIDE DEF c, st, off
  <2> QED BY <1>2, <1>3, <2>1, <2>2, <2>3, <2>4
<1> QED BY <1>4, <1>5, <1>6, <1>7, <1>8 DEF Succeeds

LEMMA FailNested ==
    ASSUME "outside" \in Contract, IInv, \A u \in Threads : Nested(u),
           NEW t \in Threads, Fails(t)
    PROVE  \A u \in Threads : Nested(u)'
<1>1. /\ Typed /\ Nested(t) /\ pc[t] = "run" /\ frames[t] = <<>>
      /\ pc' = [pc EXCEPT ![t] = "unclosed"] /\ UNCHANGED frames
      /\ job' = [job EXCEPT ![t] = [op |-> "close", text |-> TRUE]]
  BY DEF IInv, Fails, Idle, MayChange
<1>2. PICK c, st :
         /\ code' = [code EXCEPT ![t] = c] /\ status' = [status EXCEPT ![t] = st]
         /\ c.level = code[t].level
         /\ (status[t].db_on => ~status[t].no_db) => (st.db_on => ~st.no_db)
  BY DEF Fails, Loses
<1>3. OnlyThread(t) /\ \A u \in Threads \ {t} : status'[u] = status[u]
  BY <1>1, <1>2 DEF OnlyThread, Typed
<1>4. code'[t] = c /\ status'[t] = st /\ pc'[t] = "unclosed" /\ frames'[t] = <<>>
  BY <1>1, <1>2 DEF Typed
<1>5. Written(<<>>) /\ Unwritten(<<>>)
  BY DEF Written, Unwritten
<1>6. c.level = 0 /\ (st.db_on => ~st.no_db)
  BY <1>1, <1>2 DEF Nested
<1>7. Nested(t)'
  BY <1>4, <1>5, <1>6 DEF Nested, InLine
<1> QED BY <1>3, <1>7, NestedStep

LEMMA ReportNested ==
    ASSUME IInv, \A u \in Threads : Nested(u), NEW t \in Threads, ReportClose(t)
    PROVE  \A u \in Threads : Nested(u)'
<1>1. /\ Typed /\ Nested(t) /\ pc' = [pc EXCEPT ![t] = "crashed"]
      /\ UNCHANGED <<status, code, frames, job>>
  BY DEF IInv, ReportClose
<1>2. pc'[t] = "crashed" /\ OnlyThread(t)
  BY <1>1 DEF OnlyThread, Typed
<1>3. Nested(t)'
  BY <1>1, <1>2 DEF Nested, InLine
<1> QED BY <1>1, <1>2, <1>3, NestedStep

(* A step between or in lines changes the state of its own thread.           *)
LEMMA Local ==
    ASSUME Typed, NEW t \in Threads, Working(t) \/ Writing(t)
    PROVE  OnlyThread(t) /\ \A u \in Threads \ {t} : status'[u] = status[u]
<1> DEFINE Others == OnlyThread(t) /\ \A u \in Threads \ {t} : status'[u] = status[u]
<1>1. ASSUME \/ code' = code \/ \E c : code' = [code EXCEPT ![t] = c],
             \/ frames' = frames \/ \E fs : frames' = [frames EXCEPT ![t] = fs],
             \/ pc' = pc \/ \E to : pc' = [pc EXCEPT ![t] = to],
             \/ job' = job \/ \E j : job' = [job EXCEPT ![t] = j],
             \/ status' = status \/ \E st : status' = [status EXCEPT ![t] = st]
      PROVE  Others
  BY <1>1 DEF OnlyThread, Typed
<1>2. ASSUME NEW f \in Functions, Enter(t, f)
      PROVE  Others
  BY <1>1, <1>2 DEF Enter, Crash, Begin, Typed
<1>3. ASSUME Leave(t)
      PROVE  /\ \E c : code' = [code EXCEPT ![t] = c]
             /\ \E fs : frames' = [frames EXCEPT ![t] = fs]
  <2>1. code' = [code EXCEPT ![t] = [code[t] EXCEPT !.level = Head(frames[t]).level - 1,
                                                   !.func = Head(frames[t]).func]]
    BY <1>3 DEF Leave, Typed
  <2> QED BY <1>3, <2>1 DEF Leave
<1>4. CASE Return(t) \/ ReturnSilently(t)
  BY <1>1, <1>3, <1>4 DEF Return, ReturnSilently, Crash, Begin, Typed
<1>5. ASSUME NEW k \in Keywords, Doprnt(t, k) \/ Dump(t, k)
      PROVE  Others
  BY <1>1, <1>5 DEF Doprnt, Dump, Selected, Crash, Begin
<1>6. CASE LockFile(t) \/ UnlockFile(t)
  BY <1>1, <1>6 DEF LockFile, UnlockFile, Typed
<1>7. CASE Alloc(t)
  BY <1>1, <1>7 DEF Alloc, NoDbAlloc, Crash, Begin
<1>8. CASE Free(t)
  BY <1>1, <1>8 DEF Free, NoDbFree, Crash, Begin, vars
<1>9. CASE MemoryCleaned(t) \/ Compare(t)
  BY <1>1, <1>9 DEF MemoryCleaned, Compare
<1>10. CASE Acquire(t) \/ DoPrefix(t)
  BY <1>1, <1>10 DEF Acquire, DoPrefix, Crash
<1>11. CASE Text(t)
  <2>1. \/ UNCHANGED <<code, frames>>
        \/ Leave(t)
        \/ code' = [code EXCEPT ![t].level = @ - 1] /\ UNCHANGED frames
    BY <1>11, TextCases
  <2>2. pc' = [pc EXCEPT ![t] = "run"] /\ job' = [job EXCEPT ![t] = NoJob] /\ status' = status
    BY <1>11, TextCases
  <2> QED BY <1>1, <1>3, <2>1, <2>2
<1> QED BY <1>2, <1>4, <1>5, <1>6, <1>7, <1>8, <1>9, <1>10, <1>11 DEF Working, Writing

(* A line begins, or the thread crashes, where it was not before: the level   *)
(* counts for nothing until the line ends.                                   *)
LEMMA SameNesting ==
    ASSUME Typed, NEW t \in Threads, Nested(t), UNCHANGED frames,
           status'[t].db_on => ~status'[t].no_db,
           status'[t].no_db <=> status[t].no_db,
           \/ /\ code'[t].level = code[t].level
              /\ pc'[t] \in {"run", "compare"} => pc[t] \in {"run", "compare"}
              /\ InLine(t)' => ~status[t].no_db /\ frames[t] # <<>>
           \/ frames[t] # <<>> /\ ~status[t].no_db
    PROVE  Nested(t)'
BY DEF Nested, InLine

LEMMA EnterNested ==
    ASSUME IInv, NEW t \in Threads, Nested(t), NEW f \in Functions, Enter(t, f)
    PROVE  Nested(t)'
<1>1. /\ Typed /\ pc[t] = "run" /\ code[t].level < MaxFrames /\ status[t] \in Status
      /\ frames[t] \in Seq(Frames \cup {NULL})
  BY DEF Enter, Idle, IInv, Typed
<1>2. CASE status[t].no_db
  <2>1. /\ frames' = [frames EXCEPT ![t] = <<NULL>> \o @]
        /\ UNCHANGED <<status, code, pc>>
    BY <1>2 DEF Enter
  <2>2. Unwritten(<<NULL>> \o frames[t]) /\ <<NULL>> \o frames[t] # <<>>
    BY <1>1, <1>2, UnwrittenChanges DEF Nested
  <2>3. frames'[t] = <<NULL>> \o frames[t]
    BY <1>1, <2>1 DEF Typed
  <2> QED BY <1>1, <1>2, <2>1, <2>2, <2>3 DEF Nested, InLine
<1> DEFINE s     == Started(t)
           c     == [s.code EXCEPT !.func = f, !.level = @ + 1]
           frame == [func |-> s.code.func, level |-> c.level]
<1>3. CASE ~status[t].no_db /\ c.stack = <<>>
  <2>1. Crash(t)
    BY <1>3 DEF Enter
  <2>2. pc'[t] = "crashed" /\ UNCHANGED <<code, frames, status>>
    BY <1>1, <2>1 DEF Crash, Typed
  <2> QED BY <2>2 DEF Nested, InLine
<1>4. CASE ~status[t].no_db /\ c.stack # <<>>
  <2>1. /\ code' = [code EXCEPT ![t] = c]
        /\ status' = [status EXCEPT ![t] = s.status]
        /\ frames' = [frames EXCEPT ![t] = <<frame>> \o @]
        /\ UNCHANGED pc \/ Begin(t, "enter", TRUE)
    BY <1>4 DEF Enter
  <2>2. /\ c.level = code[t].level + 1 /\ frame \in Frames /\ frame # NULL
        /\ frame.level = c.level /\ ~s.status.no_db
    BY <1>1, <1>4, EnterTypes
  <2> HIDE DEF s, c, frame
  <2>3. Written(frames[t]) /\ (frames[t] = <<>> => frame.level = 1)
    BY <1>1, <1>4, <2>2 DEF Nested
  <2>4. Written(<<frame>> \o frames[t])
    BY <1>1, <2>2, <2>3, WrittenPush
  <2>5. /\ frames'[t] = <<frame>> \o frames[t] /\ frames'[t] # <<>>
        /\ status'[t] = s.status
    BY <1>1, <2>1 DEF Typed
  <2> QED BY <2>2, <2>4, <2>5 DEF Nested
<1> QED BY <1>2, <1>3, <1>4

(* Back from a function: the last one to be left was entered at level 1.      *)
LEMMA LeaveNested ==
    ASSUME IInv, NEW t \in Threads, Nested(t), frames[t] # <<>>, ~status[t].no_db,
           Leave(t), UNCHANGED status, pc'[t] = "run"
    PROVE  Nested(t)'
<1>1. Typed /\ frames[t] \in Seq(Frames \cup {NULL})
  BY DEF IInv, Typed
<1>2. /\ Written(Tail(frames[t])) /\ Head(frames[t]) # NULL
      /\ Tail(frames[t]) = <<>> => Head(frames[t]).level = 1
  BY <1>1, WrittenTail DEF Nested
<1>3. frames'[t] = Tail(frames[t]) /\ code'[t].level = Head(frames[t]).level - 1
  BY <1>1, <1>2, LeaveFacts
<1> QED BY <1>2, <1>3 DEF Nested, InLine

LEMMA ReturnNested ==
    ASSUME "leave" \in Contract, IInv, NEW t \in Threads, Nested(t),
           Return(t) \/ ReturnSilently(t)
    PROVE  Nested(t)'
<1>1. /\ Typed /\ pc[t] = "run" /\ frames[t] # <<>> /\ status[t] \in Status
      /\ frames[t] \in Seq(Frames \cup {NULL})
  BY DEF Return, ReturnSilently, Idle, IInv, Typed
<1>2. CASE ReturnSilently(t) \/ (Return(t) /\ status[t].no_db)
  <2>1. frames' = [frames EXCEPT ![t] = Tail(@)] /\ UNCHANGED <<status, code, pc>>
    BY <1>2 DEF Return, ReturnSilently
  <2>2. frames'[t] = Tail(frames[t])
    BY <1>1, <2>1 DEF Typed
  <2>3. status[t].no_db => code[t].level = 0 /\ Unwritten(Tail(frames[t]))
    BY <1>1, UnwrittenChanges DEF Nested
  <2>4. ~status[t].no_db => Written(Tail(frames[t]))
    BY <1>1, WrittenTail DEF Nested
  <2>5. Tail(frames[t]) = <<>> => code[t].level = 0
    <3>1. CASE ReturnSilently(t)
      <4>1. Len(frames[t]) > 1
        BY <3>1 DEF ReturnSilently, MaySkip
      <4> QED BY <1>1, <4>1, TailLeft
    <3>2. CASE status[t].no_db
      BY <2>3, <3>2
    <3> QED BY <1>2, <3>1, <3>2
  <2> QED BY <1>1, <2>1, <2>2, <2>3, <2>4, <2>5 DEF Nested, InLine
<1>3. CASE Return(t) /\ ~status[t].no_db
  <2>1. CASE Crash(t)
    <3>1. pc'[t] = "crashed" /\ UNCHANGED <<code, frames, status>>
      BY <1>1, <2>1 DEF Crash, Typed
    <3> QED BY <3>1 DEF Nested, InLine
  <2>2. CASE UNCHANGED <<status, code, frames>>
    BY <1>1, <1>3, <2>2, SameNesting DEF Nested
  <2>3. CASE Leave(t) /\ UNCHANGED <<status, pc>>
    BY <1>1, <1>3, <2>3, LeaveNested
  <2> QED BY <1>3, <2>1, <2>2, <2>3 DEF Return
<1> QED BY <1>2, <1>3

LEMMA WorkingNested ==
    ASSUME "leave" \in Contract, IInv, NEW t \in Threads, Nested(t), Working(t)
    PROVE  Nested(t)'
<1>1. /\ Typed /\ status[t] \in Status /\ code[t] \in Code
  BY DEF IInv, Typed
<1>2. ASSUME NEW f \in Functions, Enter(t, f)
      PROVE  Nested(t)'
  BY <1>2, EnterNested
<1>3. CASE Return(t) \/ ReturnSilently(t)
  BY <1>3, ReturnNested
<1>4. ASSUME NEW k \in Keywords, Doprnt(t, k) \/ Dump(t, k)
      PROVE  Nested(t)'
  <2>1. frames[t] # <<>> /\ status[t].db_on /\ UNCHANGED <<frames, status>>
    BY <1>4 DEF Doprnt, Dump, Selected, Crash
  <2> QED BY <1>1, <2>1, SameNesting DEF Nested
<1>5. CASE LockFile(t) \/ UnlockFile(t)
  <2>1. PICK b \in BOOLEAN : code' = [code EXCEPT ![t] = [code[t] EXCEPT !.locked = b]]
    BY <1>1, <1>5 DEF LockFile, UnlockFile, Typed
  <2>2. code'[t].level = code[t].level
    BY <1>1, <2>1 DEF Typed, Code
  <2>3. UNCHANGED <<status, frames, pc>>
    BY <1>5 DEF LockFile, UnlockFile
  <2>4. InLine(t)' => ~status[t].no_db /\ frames[t] # <<>>
    BY <2>3 DEF Nested, InLine
  <2> QED BY <1>1, <2>2, <2>3, <2>4, SameNesting DEF Nested
<1>6. CASE Alloc(t)
  <2> DEFINE s == Started(t)
             c == [s.code EXCEPT !.level = @ + 1]
  <2>1. frames[t] # <<>> /\ UNCHANGED frames /\ pc[t] = "run"
    BY <1>6 DEF Alloc, NoDbAlloc, Crash, Idle
  <2>2. CASE status[t].no_db \/ ~s.status.db_on
    <3>1. UNCHANGED <<status, code, pc, frames>>
      BY <1>6, <2>2 DEF Alloc, NoDbAlloc
    <3> QED BY <1>1, <2>1, <3>1, SameNesting DEF Nested, InLine
  <2>3. CASE ~(status[t].no_db \/ ~s.status.db_on) /\ c.stack = <<>>
    <3>1. UNCHANGED <<status, frames>>
      BY <1>6, <2>3 DEF Alloc, Crash
    <3> QED BY <1>1, <2>1, <2>3, <3>1, SameNesting DEF Nested
  <2>4. CASE ~(status[t].no_db \/ ~s.status.db_on) /\ c.stack # <<>>
    <3>1. status' = [status EXCEPT ![t] = s.status]
      BY <1>6, <2>4 DEF Alloc
    <3>2. ~s.status.no_db
      BY <1>1, <2>4, StartedSwitch
    <3>3. status'[t] = s.status
      <4> HIDE DEF s
      <4> QED BY <1>1, <3>1 DEF Typed
    <3> HIDE DEF s, c
    <3> QED BY <1>1, <2>1, <2>4, <3>2, <3>3, SameNesting
  <2> QED BY <2>2, <2>3, <2>4
<1>7. CASE Free(t)
  <2>1. frames[t] # <<>> /\ UNCHANGED <<frames, status>> /\ pc[t] = "run"
    BY <1>7 DEF Free, NoDbFree, Crash, Idle, vars
  <2>2. CASE ~status[t].no_db
    BY <1>1, <2>1, <2>2, SameNesting DEF Nested
  <2>3. CASE status[t].no_db
    <3>1. UNCHANGED <<code, pc>>
      BY <1>7, <2>3 DEF Free, NoDbFree
    <3> QED BY <1>1, <2>1, <3>1, SameNesting DEF Nested, InLine
  <2> QED BY <2>2, <2>3
<1>8. CASE MemoryCleaned(t) \/ Compare(t)
  <2>1. /\ UNCHANGED <<status, code, frames>> /\ pc[t] \in {"run", "compare"}
        /\ pc'[t] \in {"run", "compare"}
    BY <1>1, <1>8 DEF MemoryCleaned, Compare, Idle, Typed
  <2> QED BY <1>1, <2>1, SameNesting DEF Nested, InLine
<1> QED BY <1>2, <1>3, <1>4, <1>5, <1>6, <1>7, <1>8 DEF Working

LEMMA WritingNested ==
    ASSUME IInv, NEW t \in Threads, Nested(t), Writing(t)
    PROVE  Nested(t)'
<1>1. /\ Typed /\ InLine(t) /\ frames[t] # <<>> /\ ~status[t].no_db /\ UNCHANGED status
  <2>1. UNCHANGED status /\ InLine(t)
    BY TextCases DEF Writing, Acquire, DoPrefix, Crash, InLine
  <2> QED BY <2>1 DEF IInv, Nested
<1>2. CASE UNCHANGED frames
  BY <1>1, <1>2, SameNesting DEF Nested
<1>3. CASE Text(t) /\ Leave(t)
  <2>1. pc'[t] = "run"
    BY <1>1, <1>3, TextCases DEF Typed
  <2> QED BY <1>1, <1>3, <2>1, LeaveNested
<1>4. UNCHANGED frames \/ (Text(t) /\ Leave(t))
  BY TextCases DEF Writing, Acquire, DoPrefix, Crash
<1> QED BY <1>2, <1>3, <1>4

LEMMA InitNested == Init => \A t \in Threads : Nested(t)
BY DEF Init, Nested, FreshStatus, FreshCode, InLine, Written, Unwritten

LEMMA NextNested ==
    ASSUME {"outside", "leave"} \subseteq Contract, IInv, \A t \in Threads : Nested(t),
           [Next]_vars
    PROVE  \A t \in Threads : Nested(t)'
<1>1. CASE UNCHANGED vars
  BY <1>1 DEF vars, Nested, InLine
<1>2. ASSUME NEW t \in Threads, Verbosity(t)
      PROVE  \A u \in Threads : Nested(u)'
  BY <1>2, VerbosityCases, SucceedNested, FailNested
<1>3. ASSUME NEW t \in Threads, Working(t) \/ Writing(t)
      PROVE  \A u \in Threads : Nested(u)'
  <2>1. OnlyThread(t) /\ \A u \in Threads \ {t} : status'[u] = status[u]
    BY <1>3, Local DEF IInv
  <2>2. Nested(t)'
    BY <1>3, WorkingNested, WritingNested
  <2> QED BY <2>1, <2>2, NestedStep
<1>4. ASSUME NEW t \in Threads, ReportClose(t)
      PROVE  \A u \in Threads : Nested(u)'
  BY <1>4, ReportNested
<1> QED BY <1>1, <1>2, <1>3, <1>4 DEF Next

(* The nesting level of a thread that is in no function is 0, whatever checks *)
(* failed on the way, whatever was allocated, and however often the          *)
(* debugger was switched on and off.                                         *)
THEOREM LevelReturns ==
    ASSUME {"outside", "leave"} \subseteq Contract
    PROVE  Spec => []LevelComesBack
<1> DEFINE AllNested == \A t \in Threads : Nested(t)
<1>1. Init => AllNested
  BY InitNested
<1>2. IInv /\ AllNested /\ [Next]_vars => AllNested'
  BY NextNested
<1>3. AllNested => LevelComesBack
  BY DEF Nested, LevelComesBack, Idle
<1> QED BY <1>1, <1>2, <1>3, Invariance, PTL DEF Spec

-----------------------------------------------------------------------------
(* Streams and settings: which thread holds which open stream, and that no   *)
(* thread writes to a stream that was closed or reads settings that are not  *)
(* there.                                                                    *)

(* The streams of the settings on a stack: those that FreeState closes.      *)
Holds(stack, s) == s \in Streams /\ \E i \in DOMAIN stack : stack[i].out_file = s

(* No two settings of a stack hold the same stream.                          *)
Once(stack) ==
    \A i, j \in DOMAIN stack :
        stack[i].out_file \in Streams /\ stack[i].out_file = stack[j].out_file => i = j

LEMMA NoStandardStream == {"stderr", "stdout", NULL} \cap Streams = {} /\ NULL \notin Files
BY DbugAssumption DEF Files

LEMMA HoldsFree ==
    ASSUME NEW stack \in Seq(Settings), NEW s \in Streams
    PROVE  s \in FreeState(stack) <=> Holds(stack, s)
<1>1. \A i \in DOMAIN stack : s \in CloseFile(stack[i]) <=> stack[i].out_file = s
  BY NoStandardStream DEF CloseFile
<1> QED BY <1>1 DEF FreeState, Holds

LEMMA HoldsFirst ==
    ASSUME NEW stack \in Seq(Settings), NEW i \in DOMAIN stack, NEW s \in Streams
    PROVE  s \in FreeState(SubSeq(stack, 1, i)) <=>
              \E j \in DOMAIN stack : j <= i /\ stack[j].out_file = s
<1> DEFINE first == SubSeq(stack, 1, i)
<1>1. Len(stack) \in Nat /\ DOMAIN stack = 1 .. Len(stack) /\ i \in 1 .. Len(stack)
  OBVIOUS
<1>2. /\ first \in Seq(Settings) /\ DOMAIN first = 1 .. i
      /\ \A j \in 1 .. i : first[j] = stack[j]
  BY <1>1
<1>3. s \in FreeState(first) <=> Holds(first, s)
  <2> HIDE DEF first
  <2> QED BY <1>2, HoldsFree
<1> HIDE DEF first
<1>4. Holds(first, s) <=> \E j \in 1 .. i : stack[j].out_file = s
  BY <1>2 DEF Holds
<1>5. \A j : j \in 1 .. i <=> j \in DOMAIN stack /\ j <= i
  BY <1>1
<1> QED BY <1>3, <1>4, <1>5 DEF first

LEMMA HoldsPush ==
    ASSUME NEW stack \in Seq(Settings), NEW set \in Settings,
           NEW new, new = <<set>> \o stack
    PROVE  /\ \A s : Holds(new, s) <=> Holds(stack, s) \/ (s \in Streams /\ s = set.out_file)
           /\ Once(stack) /\ ~Holds(stack, set.out_file) => Once(new)
<1>1. /\ new \in Seq(Settings) /\ Len(new) = Len(stack) + 1 /\ new[1] = set
      /\ Len(stack) \in Nat /\ \A i \in 2 .. Len(new) : new[i] = stack[i - 1]
  OBVIOUS
<1>2. \A i \in DOMAIN new : i = 1 \/ (i \in 2 .. Len(new) /\ i - 1 \in DOMAIN stack)
  BY <1>1
<1>3. \A i \in DOMAIN stack : i + 1 \in DOMAIN new /\ new[i + 1] = stack[i]
  BY <1>1
<1>4. ASSUME NEW s \in Streams
      PROVE  Holds(new, s) <=> Holds(stack, s) \/ s = set.out_file
  <2>1. ASSUME Holds(new, s)
        PROVE  Holds(stack, s) \/ s = set.out_file
    <3>1. PICK i \in DOMAIN new : new[i].out_file = s
      BY <2>1 DEF Holds
    <3> QED BY <1>1, <1>2, <3>1 DEF Holds
  <2>2. ASSUME Holds(stack, s)
        PROVE  Holds(new, s)
    BY <1>3, <2>2 DEF Holds
  <2>3. ASSUME s = set.out_file
        PROVE  Holds(new, s)
    <3>1. 1 \in DOMAIN new
      BY <1>1
    <3> QED BY <1>1, <2>3, <3>1 DEF Holds
  <2> QED BY <2>1, <2>2, <2>3
<1>5. ASSUME Once(stack), ~Holds(stack, set.out_file),
             NEW i \in DOMAIN new, NEW j \in DOMAIN new,
             new[i].out_file \in Streams, new[i].out_file = new[j].out_file
      PROVE  i = j
  <2>1. CASE i = 1 \/ j = 1
    <3>1. ASSUME NEW k \in DOMAIN new, k # 1, new[k].out_file = set.out_file
          PROVE  Holds(stack, set.out_file)
      BY <1>1, <1>2, <1>5, <2>1, <3>1 DEF Holds
    <3> QED BY <1>1, <1>5, <2>1, <3>1
  <2>2. CASE i # 1 /\ j # 1
    <3>1. i - 1 = j - 1 /\ i \in Int /\ j \in Int
      BY <1>1, <1>2, <1>5, <2>2 DEF Once
    <3> QED BY <3>1
  <2> QED BY <2>1, <2>2
<1>6. \A s : ~(s \in Streams) => ~Holds(new, s) /\ ~Holds(stack, s)
  BY DEF Holds
<1> QED BY <1>4, <1>5, <1>6 DEF Once

LEMMA HoldsTail ==
    ASSUME NEW stack \in Seq(Settings), stack # <<>>, Once(stack)
    PROVE  /\ \A s \in Streams :
                 Holds(Tail(stack), s) <=> Holds(stack, s) /\ s \notin CloseFile(Head(stack))
           /\ Once(Tail(stack))
<1>1. /\ Len(stack) \in Nat /\ Len(stack) > 0 /\ Tail(stack) \in Seq(Settings)
      /\ Len(Tail(stack)) = Len(stack) - 1 /\ Head(stack) = stack[1]
      /\ \A i \in 1 .. Len(stack) - 1 : Tail(stack)[i] = stack[i + 1]
  OBVIOUS
<1>2. \A i \in DOMAIN Tail(stack) :
         i \in Int /\ i + 1 \in DOMAIN stack /\ i + 1 # 1 /\ Tail(stack)[i] = stack[i + 1]
  BY <1>1
<1>3. \A i \in DOMAIN stack : i # 1 => i - 1 \in DOMAIN Tail(stack) /\ Tail(stack)[i - 1] = stack[i]
  BY <1>1
<1>4. 1 \in DOMAIN stack
  BY <1>1
<1>5. ASSUME NEW s \in Streams
      PROVE  Holds(Tail(stack), s) <=> Holds(stack, s) /\ s \notin CloseFile(Head(stack))
  <2>1. s \in CloseFile(Head(stack)) <=> stack[1].out_file = s
    BY <1>1, NoStandardStream DEF CloseFile
  <2>2. ASSUME Holds(Tail(stack), s)
        PROVE  Holds(stack, s) /\ stack[1].out_file # s
    <3>1. PICK i \in DOMAIN Tail(stack) : Tail(stack)[i].out_file = s
      BY <2>2 DEF Holds
    <3>2. i + 1 \in DOMAIN stack /\ i + 1 # 1 /\ stack[i + 1].out_file = s
      BY <1>2, <3>1
    <3> QED BY <1>4, <3>2 DEF Holds, Once
  <2>3. ASSUME Holds(stack, s), stack[1].out_file # s
        PROVE  Holds(Tail(stack), s)
    <3>1. PICK i \in DOMAIN stack : stack[i].out_file = s
      BY <2>3 DEF Holds
    <3> QED BY <1>3, <2>3, <3>1 DEF Holds
  <2> QED BY <2>1, <2>2, <2>3
<1>6. Once(Tail(stack))
  <2> SUFFICES ASSUME NEW i \in DOMAIN Tail(stack), NEW j \in DOMAIN Tail(stack),
                      Tail(stack)[i].out_file \in Streams,
                      Tail(stack)[i].out_file = Tail(stack)[j].out_file
               PROVE  i = j
    BY DEF Once
  <2>1. i + 1 = j + 1 /\ i \in Int /\ j \in Int
    BY <1>2 DEF Once
  <2> QED BY <2>1
<1> QED BY <1>5, <1>6

-----------------------------------------------------------------------------
(* Who holds which stream.                                                   *)

Streamed(t) ==
    /\ Once(code[t].stack)
    /\ \A s : Holds(code[t].stack, s) => s \in open
    /\ status[t].db_fp \in Streams => Holds(code[t].stack, status[t].db_fp)
    /\ code[t].stack # <<>> => status[t].db_fp # NULL

Apart(t, u) == \A s : ~(Holds(code[t].stack, s) /\ Holds(code[u].stack, s))

(* Of a thread that failed to close a stream only the others are spoken of.  *)
Streaming ==
    /\ \A t \in Threads : Gone(t) \/ Streamed(t)
    /\ \A t, u \in Threads : t # u => Gone(t) \/ Gone(u) \/ Apart(t, u)

(* Streams are used by threads that are not gone.                            *)
LEMMA Present ==
    ASSUME NEW t \in Threads, Succeeds(t) \/ Fails(t) \/ Working(t) \/ Writing(t)
    PROVE  ~Gone(t) /\ (Succeeds(t) \/ Fails(t) => Idle(t)) /\ (Succeeds(t) => UNCHANGED pc)
<1>1. Succeeds(t) => Idle(t) /\ UNCHANGED pc
  BY DEF Succeeds, Enable, PushControl, Ends, Suspend, Resume, Pops, Process, quiet
<1>2. Fails(t) => Idle(t)
  BY DEF Fails
<1>3. Working(t) => Idle(t) \/ pc[t] = "compare"
  BY DEF Working, Enter, Return, ReturnSilently, Doprnt, Dump, Selected, LockFile, UnlockFile,
         Alloc, Free, MemoryCleaned, Compare
<1>4. Writing(t) => pc[t] \in {"want", "prefix", "text"}
  BY TextCases DEF Writing, Acquire, DoPrefix
<1> QED BY <1>1, <1>2, <1>3, <1>4 DEF Gone, Idle

LEMMA SameStreams ==
    ASSUME Streaming, UNCHANGED open, \A u \in Threads : Gone(u) => Gone(u)',
           \A u \in Threads : code'[u].stack = code[u].stack
                             /\ status'[u].db_fp = status[u].db_fp
    PROVE  Streaming'
<1>1. ASSUME NEW u \in Threads
      PROVE  Gone(u)' \/ Streamed(u)'
  <2>1. Gone(u) \/ Streamed(u)
    BY DEF Streaming
  <2>2. Streamed(u) => Streamed(u)'
    BY DEF Streamed
  <2> QED BY <2>1, <2>2
<1>2. ASSUME NEW u \in Threads, NEW v \in Threads, u # v
      PROVE  Gone(u)' \/ Gone(v)' \/ Apart(u, v)'
  <2>1. Gone(u) \/ Gone(v) \/ Apart(u, v)
    BY <1>2 DEF Streaming
  <2>2. Apart(u, v) => Apart(u, v)'
    BY DEF Apart
  <2> QED BY <2>1, <2>2
<1> QED BY <1>1, <1>2 DEF Streaming

(* What one thread does leaves the others their streams if it closes its own *)
(* ones only and what it opens was not open.                                 *)
LEMMA StreamStep ==
    ASSUME Streaming, NEW t \in Threads, ~Gone(t),
           \A u \in Threads \ {t} : code'[u].stack = code[u].stack
                                    /\ status'[u].db_fp = status[u].db_fp /\ pc'[u] = pc[u],
           \A s \in open : s \in open' \/ Holds(code[t].stack, s),
           \/ Gone(t)'
           \/ /\ Streamed(t)'
              /\ \A s : Holds(code'[t].stack, s) => Holds(code[t].stack, s) \/ s \notin open
    PROVE  Streaming'
<1>1. ASSUME NEW u \in Threads, u # t
      PROVE  (Gone(u)' <=> Gone(u)) /\ (~Gone(u) => Streamed(u) /\ Apart(t, u))
  BY <1>1 DEF Streaming, Gone, Apart
<1>2. ASSUME NEW u \in Threads, u # t, ~Gone(u)
      PROVE  Streamed(u)'
  <2>1. \A s : Holds(code[u].stack, s) => s \in open'
    BY <1>1, <1>2 DEF Streamed, Apart
  <2> QED BY <1>1, <1>2, <2>1 DEF Streamed
<1>3. ASSUME NEW u \in Threads, u # t, ~Gone(u), ~Gone(t)'
      PROVE  Apart(t, u)' /\ Apart(u, t)'
  BY <1>1, <1>3 DEF Streamed, Apart
<1>4. ASSUME NEW u \in Threads, NEW v \in Threads, u # v
      PROVE  Gone(u)' \/ Gone(v)' \/ Apart(u, v)'
  <2>1. CASE u = t \/ v = t
    BY <1>1, <1>3, <1>4, <2>1
  <2>2. CASE u # t /\ v # t
    <3>1. Gone(u) \/ Gone(v) \/ Apart(u, v)
      BY <1>4 DEF Streaming
    <3>2. Apart(u, v) => Apart(u, v)'
      BY <2>2 DEF Apart
    <3> QED BY <1>1, <2>2, <3>1, <3>2
  <2> QED BY <2>1, <2>2
<1>5. \A u \in Threads : Gone(u)' \/ Streamed(u)'
  BY <1>1, <1>2
<1> QED BY <1>4, <1>5 DEF Streaming

(* Settings are put on the stack of a thread, with the streams fopen gave it. *)
LEMMA PushStreams ==
    ASSUME IInv, Streaming, NEW t \in Threads, ~Gone(t), NEW set \in Settings, NEW given,
           given \subseteq Streams, given \cap open = {},
           set.out_file \in {"stderr", "stdout"} \cup given,
           NEW fp \in Files, fp \in {set.out_file, status[t].db_fp, "stderr", "stdout"},
           code'[t].stack = <<set>> \o code[t].stack, status'[t].db_fp = fp,
           \A u \in Threads \ {t} : code'[u].stack = code[u].stack
                                    /\ status'[u].db_fp = status[u].db_fp /\ pc'[u] = pc[u],
           open' = open \cup given
    PROVE  Streaming'
<1> DEFINE stack == code[t].stack
           new   == <<set>> \o stack
<1>1. stack \in Seq(Settings)
  BY DEF IInv, Typed, Code
<1>2. Streamed(t)
  BY DEF Streaming
<1>3. set.out_file \in Streams => set.out_file \notin open /\ set.out_file \in open'
  BY NoStandardStream
<1>4. ~Holds(stack, set.out_file)
  BY <1>2, <1>3 DEF Streamed, Holds
<1>5. /\ \A s : Holds(new, s) <=> Holds(stack, s) \/ (s \in Streams /\ s = set.out_file)
      /\ Once(new)
  <2>1. Once(stack) /\ new = <<set>> \o stack
    BY <1>2 DEF Streamed
  <2> HIDE DEF stack, new
  <2> QED BY <1>1, <1>4, <2>1, HoldsPush
<1>6. new # <<>>
  BY <1>1
<1> HIDE DEF new, stack
<1>7. code'[t].stack = new
  BY DEF new, stack
<1>8. \A s : Holds(new, s) => s \in open'
  BY <1>2, <1>3, <1>5 DEF Streamed, stack
<1>9. fp \in Streams => Holds(new, fp)
  BY <1>2, <1>5, NoStandardStream DEF Streamed, stack
<1>10. fp # NULL
  BY NoStandardStream
<1>11. Streamed(t)'
  BY <1>5, <1>7, <1>8, <1>9, <1>10 DEF Streamed
<1>12. \A s : Holds(new, s) => Holds(code[t].stack, s) \/ s \notin open
  BY <1>3, <1>5 DEF stack
<1> QED BY <1>7, <1>11, <1>12, StreamStep

LEMMA PopStreams ==
    ASSUME IInv, Streaming, NEW t \in Threads, ~Gone(t), Len(code[t].stack) > 1,
           code'[t].stack = Tail(code[t].stack),
           status'[t].db_fp = code[t].stack[2].out_file,
           \A u \in Threads \ {t} : code'[u].stack = code[u].stack
                                    /\ status'[u].db_fp = status[u].db_fp /\ pc'[u] = pc[u],
           open' = open \ CloseFile(Head(code[t].stack))
    PROVE  Streaming'
<1> DEFINE stack == code[t].stack
           new   == Tail(stack)
           fp    == stack[2].out_file
<1>1. stack \in Seq(Settings) /\ stack # <<>>
  BY DEF IInv, Typed, Code
<1>2. Streamed(t)
  BY DEF Streaming
<1>3. /\ \A s \in Streams : Holds(new, s) <=> Holds(stack, s) /\ s \notin CloseFile(Head(stack))
      /\ Once(new)
  BY <1>1, <1>2, HoldsTail DEF Streamed
<1>4. /\ 1 \in DOMAIN new /\ new[1].out_file = fp /\ fp \in Files
      /\ 1 \in DOMAIN stack /\ stack[1] = Head(stack)
  <2>1. stack[2] \in Settings /\ new[1] = stack[2] /\ 1 \in DOMAIN new
    BY <1>1
  <2>2. 1 \in DOMAIN stack /\ stack[1] = Head(stack)
    BY <1>1
  <2>3. stack[2].out_file \in Files
    BY <2>1 DEF Settings
  <2> QED BY <2>1, <2>2, <2>3
<1> HIDE DEF new, stack, fp
<1>5. code'[t].stack = new /\ status'[t].db_fp = fp
  BY DEF new, stack, fp
<1>6. \A s : Holds(new, s) => s \in Streams /\ s \in open' /\ Holds(stack, s)
  BY <1>2, <1>3 DEF Streamed, stack, Holds
<1>7. fp \in Streams => Holds(new, fp)
  BY <1>4 DEF Holds
<1>8. fp # NULL
  BY <1>4, NoStandardStream
<1>9. Streamed(t)'
  BY <1>3, <1>5, <1>6, <1>7, <1>8 DEF Streamed
<1>10. \A s \in open : s \in open' \/ Holds(stack, s)
  <2> SUFFICES ASSUME NEW s \in open, s \in CloseFile(Head(stack))
               PROVE  Holds(stack, s)
    BY DEF stack
  <2>1. s = stack[1].out_file /\ s \in Streams
    BY <1>4 DEF CloseFile, IInv, Typed
  <2> QED BY <1>4, <2>1 DEF Holds
<1> QED BY <1>5, <1>6, <1>9, <1>10, StreamStep DEF stack

LEMMA EndStreams ==
    ASSUME IInv, Streaming, NEW t \in Threads, ~Gone(t), DbEnd(t), UNCHANGED pc
    PROVE  Streaming'
<1>1. code[t].stack \in Seq(Settings) /\ Typed
  BY DEF IInv, Typed, Code
<1>2. FreshCode.stack = <<>> /\ FreshStatus.db_fp = NULL /\ DOMAIN <<>> = {}
  BY DEF FreshCode, FreshStatus
<1>3. /\ code'[t].stack = <<>> /\ status'[t].db_fp = NULL
      /\ \A u \in Threads \ {t} : code'[u] = code[u] /\ status'[u] = status[u]
  BY <1>1, <1>2 DEF DbEnd, Typed
<1>4. \A s : ~Holds(<<>>, s)
  BY <1>2 DEF Holds
<1>5. Streamed(t)'
  BY <1>2, <1>3, <1>4, NoStandardStream DEF Streamed, Once
<1>6. \A s \in open : s \in open' \/ Holds(code[t].stack, s)
  BY <1>1, HoldsFree DEF DbEnd, Typed
<1> QED BY <1>3, <1>4, <1>5, <1>6, StreamStep

(* What a push does to the settings, the stream and the switch of a thread.  *)
Pushing(t, control, set, fp, given) ==
    /\ code'[t].stack = <<set>> \o code[t].stack
    /\ status'[t].db_fp = fp
    /\ fp \in {set.out_file, status[t].db_fp, "stderr", "stdout"}
    /\ set.out_file \in {"stderr", "stdout"} \cup given
    /\ given \subseteq Streams /\ given \cap open = {}
    /\ open' = open \cup given
    /\ OneFile(control) => given \subseteq {set.out_file}
    /\ \A u \in Threads \ {t} : code'[u] = code[u] /\ status'[u] = status[u]

LEMMA PushFacts ==
    ASSUME IInv, NEW t \in Threads, NEW control \in Controls[t],
           Enable(t, control) \/ PushControl(t, control)
    PROVE  \E set \in Settings, fp \in Files, given \in SUBSET Streams :
               Pushing(t, control, set, fp, given)
<1>1. PICK files \in Opened(control) :
         LET p == Pushed(code[t], status[t], control, files) IN
         /\ code' = [code EXCEPT ![t] = p.code]
         /\ \/ status' = [status EXCEPT ![t] = [p.status EXCEPT !.no_db = FALSE, !.db_on = TRUE]]
            \/ status' = [status EXCEPT ![t] = p.status]
         /\ open' = open \cup (ToSet(files) \ {NULL})
  BY DEF Enable, PushControl
<1> DEFINE p == Pushed(code[t], status[t], control, files)
<1>2. /\ code' = [code EXCEPT ![t] = p.code]
      /\ \/ status' = [status EXCEPT ![t] = [p.status EXCEPT !.no_db = FALSE, !.db_on = TRUE]]
         \/ status' = [status EXCEPT ![t] = p.status]
      /\ open' = open \cup Given(files)
  BY <1>1 DEF Given
<1>3. IsControl(control) /\ Returned(control, files)
  BY ControlsAreControls, OpenedAreReturned
<1>4. code[t] \in Code /\ status[t] \in Status
  BY DEF IInv, Typed
<1>5. Pushes(p, code[t], status[t], control, files) /\ p.code \in Code /\ p.status \in Status
  BY <1>3, <1>4, PushedFacts, PushTypes DEF IInv
<1> HIDE DEF p
<1>6. PICK set \in Settings, on \in BOOLEAN, fp \in Files :
         /\ p.code = [code[t] EXCEPT !.stack = <<set>> \o @]
         /\ p.status = [status[t] EXCEPT !.db_fp = fp, !.db_on = on,
                           !.no_db = IF control = <<>> THEN @ ELSE FALSE]
         /\ fp \in {set.out_file, status[t].db_fp, "stderr"}
         /\ set.out_file \in {"stderr", "stdout"} \cup Given(files)
         /\ OneFile(control) => Given(files) \subseteq {set.out_file}
  BY <1>5 DEF Pushes
<1>7. Given(files) \subseteq Streams /\ Given(files) \cap open = {}
  BY <1>3 DEF Returned, Given, ToSet
<1>8. p.code.stack = <<set>> \o code[t].stack
  BY <1>4, <1>6 DEF Code
<1>9. p.status.db_fp = fp /\ [p.status EXCEPT !.no_db = FALSE, !.db_on = TRUE].db_fp = fp
  <2>1. p.status.db_fp = fp
    BY <1>4, <1>6 DEF Status
  <2> QED BY <1>5, <2>1 DEF Status
<1>10. code'[t].stack = <<set>> \o code[t].stack
  BY <1>2, <1>8 DEF IInv, Typed
<1>11. status'[t].db_fp = fp
  BY <1>2, <1>9 DEF IInv, Typed
<1>12. \A u \in Threads \ {t} : code'[u] = code[u] /\ status'[u] = status[u]
  BY <1>2 DEF IInv, Typed
<1>13. Pushing(t, control, set, fp, Given(files))
  BY <1>2, <1>6, <1>7, <1>10, <1>11, <1>12 DEF Pushing
<1> QED BY <1>7, <1>13

LEMMA SucceedStreams ==
    ASSUME IInv, Streaming, NEW t \in Threads, Succeeds(t)
    PROVE  Streaming'
<1>1. Typed /\ code[t] \in Code /\ status[t] \in Status /\ ~Gone(t) /\ UNCHANGED pc
  BY Present DEF IInv, Typed
<1>2. ASSUME NEW control \in Controls[t], Enable(t, control) \/ PushControl(t, control)
      PROVE  Streaming'
  <2>1. PICK set \in Settings, fp \in Files, given \in SUBSET Streams :
           Pushing(t, control, set, fp, given)
    BY <1>2, PushFacts
  <2>2. /\ \A u \in Threads \ {t} : code'[u].stack = code[u].stack
                                   /\ status'[u].db_fp = status[u].db_fp /\ pc'[u] = pc[u]
        /\ code'[t].stack = <<set>> \o code[t].stack /\ status'[t].db_fp = fp
        /\ fp \in {set.out_file, status[t].db_fp, "stderr", "stdout"}
        /\ set.out_file \in {"stderr", "stdout"} \cup given
        /\ given \subseteq Streams /\ given \cap open = {} /\ open' = open \cup given
    BY <1>1, <2>1 DEF Pushing
  <2> QED BY <1>1, <2>2, PushStreams
<1>3. CASE Ends(t)
  BY <1>1, <1>3, EndStreams DEF Ends
<1>4. ASSUME UNCHANGED open, \A u \in Threads : code'[u].stack = code[u].stack
                                              /\ status'[u].db_fp = status[u].db_fp
      PROVE  Streaming'
  <2>1. \A u \in Threads : Gone(u) => Gone(u)'
    BY <1>1 DEF Gone
  <2> QED BY <1>4, <2>1, SameStreams
<1>5. ASSUME NEW st, status' = [status EXCEPT ![t] = st], st.db_fp = status[t].db_fp,
             UNCHANGED <<code, open>>
      PROVE  Streaming'
  BY <1>1, <1>4, <1>5 DEF Typed
<1>6. CASE Suspend(t) \/ Resume(t)
  <2>1. UNCHANGED <<code, open>>
    BY <1>6 DEF Suspend, Resume
  <2>2. PICK b \in BOOLEAN, c \in BOOLEAN :
           status' = [status EXCEPT ![t] = [status[t] EXCEPT !.no_db = b, !.db_on = c]]
    BY <1>1, <1>6 DEF Suspend, Resume, DEBUGGER_ON, Typed
  <2>3. [status[t] EXCEPT !.no_db = b, !.db_on = c].db_fp = status[t].db_fp
    BY <1>1 DEF Status
  <2> QED BY <1>5, <2>1, <2>2, <2>3
<1>7. ASSUME NEW name \in Names, Process(t, name)
      PROVE  Streaming'
  <2>1. UNCHANGED <<code, open>>
        /\ status' = [status EXCEPT ![t] = [status[t] EXCEPT !.process = name]]
    BY <1>1, <1>7 DEF Process, Typed
  <2>2. [status[t] EXCEPT !.process = name].db_fp = status[t].db_fp
    BY <1>1 DEF Status
  <2> QED BY <1>5, <2>1, <2>2
<1>8. CASE Pops(t)
  <2> DEFINE stack == code[t].stack
             c  == [code[t] EXCEPT !.stack = Tail(stack)]
             on == status[t].db_on /\ "DEBUG_ON" \in stack[2].flags
             st == [status[t] EXCEPT !.db_fp = stack[2].out_file, !.db_on = on]
             off == [status[t] EXCEPT !.db_on = FALSE]
  <2>1. CASE Len(stack) > 1
    <3>1. /\ code' = [code EXCEPT ![t] = c] /\ status' = [status EXCEPT ![t] = st]
          /\ open' = open \ CloseFile(Head(stack))
      BY <1>1, <1>8, <2>1 DEF Pops, DbPop, Typed
    <3>2. c.stack = Tail(stack) /\ st.db_fp = stack[2].out_file
      BY <1>1 DEF Code, Status
    <3> HIDE DEF c, st
    <3>3. /\ code'[t].stack = Tail(stack) /\ status'[t].db_fp = stack[2].out_file
          /\ \A u \in Threads \ {t} : code'[u] = code[u] /\ status'[u] = status[u]
                                      /\ pc'[u] = pc[u]
      BY <1>1, <3>1, <3>2 DEF Typed
    <3> QED BY <1>1, <2>1, <3>1, <3>3, PopStreams
  <2>2. CASE ~(Len(stack) > 1)
    <3>1. UNCHANGED <<code, open>> /\ status' = [status EXCEPT ![t] = off]
      BY <1>1, <1>8, <2>2 DEF Pops, DbPop, Typed
    <3>2. off.db_fp = status[t].db_fp
      BY <1>1 DEF Status
    <3> HIDE DEF off
    <3> QED BY <1>5, <3>1, <3>2
  <2> QED BY <2>1, <2>2
<1> QED BY <1>2, <1>3, <1>6, <1>7, <1>8 DEF Succeeds

(* A thread for which fclose fails closed none but its own streams.          *)
LEMMA FailStreams ==
    ASSUME IInv, Streaming, NEW t \in Threads, Fails(t)
    PROVE  Streaming'
<1>1. /\ Typed /\ ~Gone(t) /\ code[t].stack \in Seq(Settings)
      /\ pc' = [pc EXCEPT ![t] = "unclosed"]
  BY Present DEF IInv, Typed, Code, Fails
<1>2. PICK i \in DOMAIN code[t].stack, c \in Code, st \in Status :
         /\ code' = [code EXCEPT ![t] = c] /\ status' = [status EXCEPT ![t] = st]
         /\ open' = open \ FreeState(SubSeq(code[t].stack, 1, i))
  BY DEF Fails, Loses
<1>3. /\ \A u \in Threads \ {t} : code'[u].stack = code[u].stack
                                  /\ status'[u].db_fp = status[u].db_fp /\ pc'[u] = pc[u]
      /\ Gone(t)'
  BY <1>1, <1>2 DEF Typed, Gone
<1>4. ASSUME NEW s \in open, s \notin open'
      PROVE  Holds(code[t].stack, s)
  <2>1. s \in Streams /\ s \in FreeState(SubSeq(code[t].stack, 1, i))
    BY <1>1, <1>2, <1>4 DEF Typed
  <2> QED BY <1>1, <2>1, HoldsFirst DEF Holds
<1> QED BY <1>1, <1>3, <1>4, StreamStep

(* What a step between or in lines does to the settings and the stream of    *)
(* its thread: nothing, or the start that nobody made before.                *)
Starting(t) ==
    /\ ~init_done /\ init_done' /\ ~status[t].no_db
    /\ code'[t].stack = Started(t).code.stack
    /\ status'[t].db_fp = Started(t).status.db_fp

Keeping(t) ==
    /\ code'[t].stack = code[t].stack
    /\ status'[t].db_fp = status[t].db_fp
    /\ init_done' = init_done

LEMMA StartOrKeep ==
    ASSUME IInv, NEW t \in Threads, ~status[t].no_db, init_done' = TRUE,
           code'[t].stack = Started(t).code.stack, status'[t] = Started(t).status
    PROVE  Keeping(t) \/ Starting(t)
<1>1. CASE init_done
  BY <1>1 DEF Keeping, Started
<1>2. CASE ~init_done
  BY <1>2 DEF Starting
<1> QED BY <1>1, <1>2

LEMMA WorkingStacks ==
    ASSUME IInv, NEW t \in Threads, Working(t) \/ Writing(t)
    PROVE  /\ UNCHANGED open /\ status'[t].no_db = status[t].no_db
           /\ Keeping(t) \/ Starting(t)
<1> DEFINE Goal == /\ UNCHANGED open /\ status'[t].no_db = status[t].no_db
                   /\ Keeping(t) \/ Starting(t)
<1>1. Typed /\ code[t] \in Code /\ status[t] \in Status
  BY DEF IInv, Typed
<1>2. ASSUME UNCHANGED <<status, open, init_done>>,
             \/ UNCHANGED code
             \/ \E c : code' = [code EXCEPT ![t] = c] /\ c.stack = code[t].stack
      PROVE  Goal
  BY <1>1, <1>2 DEF Keeping, Typed
<1>3. ASSUME NEW f \in Functions, Enter(t, f)
      PROVE  Goal
  <2> DEFINE s == Started(t)
             c == [s.code EXCEPT !.func = f, !.level = @ + 1]
  <2>1. CASE status[t].no_db \/ c.stack = <<>>
    BY <1>2, <1>3, <2>1 DEF Enter, Crash, lines
  <2>2. CASE ~status[t].no_db /\ c.stack # <<>>
    <3>1. /\ code' = [code EXCEPT ![t] = c] /\ status' = [status EXCEPT ![t] = s.status]
          /\ init_done' = TRUE /\ UNCHANGED open
      BY <1>3, <2>2 DEF Enter, lines
    <3>2. s.code \in Code /\ s.status \in Status /\ ~s.status.no_db
      BY <1>1, <2>2, StartedTypes, StartedSwitch
    <3>3. c.stack = s.code.stack
      <4> HIDE DEF s
      <4> QED BY <3>2 DEF Code
    <3> HIDE DEF c, s
    <3>4. code'[t].stack = s.code.stack /\ status'[t] = s.status
      BY <1>1, <3>1, <3>3 DEF Typed
    <3>5. Keeping(t) \/ Starting(t)
      BY <2>2, <3>1, <3>4, StartOrKeep DEF s
    <3>6. s.status.no_db = status[t].no_db
      BY <1>1, <2>2, <3>2 DEF Status
    <3>7. status'[t].no_db = status[t].no_db
      BY <3>4, <3>6
    <3> QED BY <3>1, <3>5, <3>7
  <2> QED BY <2>1, <2>2
<1>4. ASSUME Leave(t), UNCHANGED <<status, open, init_done>>
      PROVE  Goal
  <2> DEFINE c == [code[t] EXCEPT !.level = Head(frames[t]).level - 1, !.func = Head(frames[t]).func]
  <2>1. code' = [code EXCEPT ![t] = c]
    BY <1>1, <1>4 DEF Leave, Typed
  <2>2. c.stack = code[t].stack
    BY <1>1 DEF Code
  <2> HIDE DEF c
  <2> QED BY <1>2, <1>4, <2>1, <2>2
<1>5. CASE Return(t) \/ ReturnSilently(t)
  BY <1>2, <1>4, <1>5 DEF Return, ReturnSilently, Crash, lines
<1>6. ASSUME NEW k \in Keywords, Doprnt(t, k) \/ Dump(t, k)
      PROVE  Goal
  BY <1>2, <1>6 DEF Doprnt, Dump, Selected, Crash, lines
<1>7. CASE LockFile(t) \/ UnlockFile(t)
  <2>1. PICK b \in BOOLEAN : code' = [code EXCEPT ![t] = [code[t] EXCEPT !.locked = b]]
    BY <1>1, <1>7 DEF LockFile, UnlockFile, Typed
  <2>2. [code[t] EXCEPT !.locked = b].stack = code[t].stack
    BY <1>1 DEF Code
  <2> QED BY <1>2, <1>7, <2>1, <2>2 DEF LockFile, UnlockFile
<1>8. CASE Alloc(t)
  <2> DEFINE s == Started(t)
             c == [s.code EXCEPT !.level = @ + 1]
  <2>1. CASE status[t].no_db \/ ~s.status.db_on \/ c.stack = <<>>
    BY <1>2, <1>8, <2>1 DEF Alloc, NoDbAlloc, Crash
  <2>2. CASE ~(status[t].no_db \/ ~s.status.db_on) /\ c.stack # <<>>
    <3>1. /\ code' = [code EXCEPT ![t] = c] \/ code' = [code EXCEPT ![t] = s.code]
          /\ status' = [status EXCEPT ![t] = s.status] /\ init_done' = TRUE /\ UNCHANGED open
      BY <1>8, <2>2 DEF Alloc
    <3>2. s.code \in Code /\ s.status \in Status /\ ~s.status.no_db
      BY <1>1, <2>2, StartedTypes, StartedSwitch
    <3>3. c.stack = s.code.stack
      <4> HIDE DEF s
      <4> QED BY <3>2 DEF Code
    <3> HIDE DEF c, s
    <3>4. code'[t].stack = s.code.stack /\ status'[t] = s.status
      BY <1>1, <3>1, <3>3 DEF Typed
    <3>5. Keeping(t) \/ Starting(t)
      BY <2>2, <3>1, <3>4, StartOrKeep DEF s
    <3>6. s.status.no_db = status[t].no_db
      BY <1>1, <2>2, <3>2 DEF Status
    <3>7. status'[t].no_db = status[t].no_db
      BY <3>4, <3>6
    <3> QED BY <3>1, <3>5, <3>7
  <2> QED BY <2>1, <2>2
<1>9. CASE Free(t)
  <2>1. [code[t] EXCEPT !.level = @ + 1].stack = code[t].stack
    BY <1>1 DEF Code
  <2> QED BY <1>2, <1>9, <2>1 DEF Free, NoDbFree, Crash, vars, lines
<1>10. CASE MemoryCleaned(t) \/ Compare(t)
  BY <1>2, <1>10 DEF MemoryCleaned, Compare, lines
<1>11. CASE Acquire(t) \/ DoPrefix(t)
  BY <1>2, <1>11 DEF Acquire, DoPrefix, Crash
<1>12. CASE Text(t)
  <2> DEFINE c == [code[t] EXCEPT !.level = @ - 1]
  <2>1. /\ UNCHANGED <<status, init_done, open>>
        /\ Leave(t) \/ UNCHANGED code \/ code' = [code EXCEPT ![t] = c]
    BY <1>1, <1>12, TextCases DEF Typed
  <2>2. c.stack = code[t].stack
    BY <1>1 DEF Code
  <2> HIDE DEF c
  <2> QED BY <1>2, <1>4, <2>1, <2>2
<1> QED BY <1>3, <1>5, <1>6, <1>7, <1>8, <1>9, <1>10, <1>11, <1>12 DEF Working, Writing

LEMMA WorkingStreams ==
    ASSUME IInv, Streaming, NEW t \in Threads, Working(t) \/ Writing(t)
    PROVE  Streaming'
<1>1. /\ \A u \in Threads \ {t} : code'[u] = code[u] /\ status'[u] = status[u]
                                  /\ pc'[u] = pc[u]
      /\ ~Gone(t)
  BY Local, Present DEF IInv, OnlyThread
<1>2. UNCHANGED open /\ (Keeping(t) \/ Starting(t))
  BY WorkingStacks
<1>3. CASE Keeping(t)
  <2>1. \A u \in Threads : code'[u].stack = code[u].stack /\ status'[u].db_fp = status[u].db_fp
    BY <1>1, <1>3 DEF Keeping
  <2>2. \A u \in Threads : Gone(u) => Gone(u)'
    BY <1>1 DEF Gone
  <2> QED BY <1>2, <2>1, <2>2, SameStreams
<1>4. CASE Starting(t)
  <2>1. PICK set \in Settings, on \in BOOLEAN, fp \in Files :
           /\ Started(t).code = [code[t] EXCEPT !.stack = <<set>> \o @]
           /\ Started(t).status = [status[t] EXCEPT !.db_fp = fp, !.db_on = on, !.no_db = FALSE]
           /\ fp \in {status[t].db_fp, "stderr", "stdout"}
           /\ set.out_file \in {"stderr", "stdout"}
    <3>1. Starts(Started(t), t)
      BY <1>4, StartedFacts DEF Starting, IInv
    <3> QED BY <3>1 DEF Starts
  <2>2. Started(t).code.stack = <<set>> \o code[t].stack /\ Started(t).status.db_fp = fp
    BY <2>1 DEF IInv, Typed, Code, Status
  <2>3. code'[t].stack = <<set>> \o code[t].stack /\ status'[t].db_fp = fp
    BY <1>4, <2>2 DEF Starting
  <2>4. {} \subseteq Streams /\ {} \cap open = {} /\ open' = open \cup {}
        /\ set.out_file \in {"stderr", "stdout"} \cup {}
        /\ fp \in {set.out_file, status[t].db_fp, "stderr", "stdout"}
    BY <1>2, <2>1
  <2>5. \A u \in Threads \ {t} : code'[u].stack = code[u].stack
                                 /\ status'[u].db_fp = status[u].db_fp /\ pc'[u] = pc[u]
    BY <1>1
  <2> QED BY <1>1, <2>3, <2>4, <2>5, PushStreams
<1> QED BY <1>2, <1>3, <1>4

LEMMA StreamingStep == IInv /\ Streaming /\ [Next]_vars => Streaming'
<1> SUFFICES ASSUME IInv, Streaming, [Next]_vars
             PROVE  Streaming'
  OBVIOUS
<1>1. CASE UNCHANGED vars
  BY <1>1, SameStreams DEF vars, Gone
<1>2. ASSUME NEW t \in Threads, Verbosity(t)
      PROVE  Streaming'
  BY <1>2, VerbosityCases, SucceedStreams, FailStreams
<1>3. ASSUME NEW t \in Threads, ReportClose(t)
      PROVE  Streaming'
  <2>1. Typed /\ pc' = [pc EXCEPT ![t] = "crashed"] /\ UNCHANGED <<status, code, open>>
    BY <1>3 DEF IInv, ReportClose
  <2>2. \A u \in Threads : Gone(u) => Gone(u)'
    BY <2>1 DEF Gone, Typed
  <2> QED BY <2>1, <2>2, SameStreams
<1> QED BY <1>1, <1>2, <1>3, WorkingStreams DEF Next

LEMMA InitStreaming == Init => Streaming
<1>1. \A s : ~Holds(<<>>, s)
  BY DEF Holds
<1> QED BY <1>1, NoStandardStream
        DEF Init, FreshCode, FreshStatus, Streaming, Streamed, Apart, Once

-----------------------------------------------------------------------------
(* Every open stream is held.  A control string that opens two files forgets *)
(* the first, so this is said of strings that name one.                      *)
AllHeld == \A s \in open : \E t \in Threads : Holds(code[t].stack, s)

LEMMA HeldStep ==
    ASSUME AllHeld, NEW t \in Threads,
           \A u \in Threads \ {t} : code'[u].stack = code[u].stack,
           \A s \in open' : \/ s \in open /\ ~Holds(code[t].stack, s)
                            \/ Holds(code'[t].stack, s)
    PROVE  AllHeld'
<1> SUFFICES ASSUME NEW s \in open', s \in open, ~Holds(code[t].stack, s)
             PROVE  \E u \in Threads : Holds(code'[u].stack, s)
  BY DEF AllHeld
<1>1. PICK u \in Threads : Holds(code[u].stack, s)
  BY DEF AllHeld
<1>2. u # t
  BY <1>1
<1> QED BY <1>1, <1>2

LEMMA PushHeld ==
    ASSUME IInv, AllHeld, NEW t \in Threads, NEW set \in Settings,
           code'[t].stack = <<set>> \o code[t].stack,
           \A u \in Threads \ {t} : code'[u].stack = code[u].stack,
           \A s \in open' : s \in open \/ (s \in Streams /\ s = set.out_file)
    PROVE  AllHeld'
<1> DEFINE stack == code[t].stack
           new   == <<set>> \o stack
<1>1. stack \in Seq(Settings) /\ new = <<set>> \o stack
  BY DEF IInv, Typed, Code
<1>2. code'[t].stack = new
  OBVIOUS
<1> HIDE DEF stack, new
<1>3. \A s : Holds(new, s) <=> Holds(stack, s) \/ (s \in Streams /\ s = set.out_file)
  BY <1>1, HoldsPush
<1> QED BY <1>2, <1>3, HeldStep DEF stack

LEMMA NextHeld ==
    ASSUME \A t \in Threads : \A control \in Controls[t] : OneFile(control),
           IInv, Streaming, AllHeld, [Next]_vars
    PROVE  AllHeld'
<1>1. Typed
  BY DEF IInv
<1>2. ASSUME UNCHANGED open, \A u \in Threads : code'[u].stack = code[u].stack
      PROVE  AllHeld'
  BY <1>2 DEF AllHeld
<1>3. CASE UNCHANGED vars
  BY <1>2, <1>3 DEF vars
<1>4. ASSUME NEW t \in Threads, Working(t) \/ Writing(t)
      PROVE  AllHeld'
  <2>1. \A u \in Threads \ {t} : code'[u].stack = code[u].stack
    BY <1>1, <1>4, Local DEF OnlyThread
  <2>2. UNCHANGED open /\ (Keeping(t) \/ Starting(t))
    BY <1>4, WorkingStacks
  <2>3. CASE Keeping(t)
    BY <1>2, <2>1, <2>2, <2>3 DEF Keeping
  <2>4. CASE Starting(t)
    <3>1. Starts(Started(t), t)
      BY <1>1, <2>4, StartedFacts DEF Starting
    <3>2. PICK set \in Settings : Started(t).code = [code[t] EXCEPT !.stack = <<set>> \o @]
      BY <3>1 DEF Starts
    <3>3. code'[t].stack = <<set>> \o code[t].stack
      BY <1>1, <2>4, <3>2 DEF Starting, Typed, Code
    <3> QED BY <2>1, <2>2, <3>3, PushHeld
  <2> QED BY <2>2, <2>3, <2>4
<1>5. ASSUME NEW t \in Threads, Succeeds(t)
      PROVE  AllHeld'
  <2>1. ASSUME NEW control \in Controls[t], Enable(t, control) \/ PushControl(t, control)
        PROVE  AllHeld'
    <3>1. PICK set \in Settings, fp \in Files, given \in SUBSET Streams :
             Pushing(t, control, set, fp, given)
      BY <2>1, PushFacts
    <3>2. OneFile(control)
      OBVIOUS
    <3>3. /\ code'[t].stack = <<set>> \o code[t].stack
          /\ \A u \in Threads \ {t} : code'[u].stack = code[u].stack
          /\ \A s \in open' : s \in open \/ (s \in Streams /\ s = set.out_file)
      BY <3>1, <3>2 DEF Pushing
    <3> QED BY <3>3, PushHeld
  <2>2. CASE Ends(t)
    <3>1. DbEnd(t)
      BY <2>2 DEF Ends
    <3>2. \A u \in Threads \ {t} : code'[u].stack = code[u].stack
      BY <1>1, <3>1 DEF DbEnd, Typed
    <3>3. code[t].stack \in Seq(Settings) /\ open' \subseteq Streams /\ open' \subseteq open
      BY <1>1, <3>1 DEF Typed, Code, DbEnd
    <3>4. \A s \in open' : ~Holds(code[t].stack, s)
      BY <3>1, <3>3, HoldsFree DEF DbEnd
    <3> QED BY <3>2, <3>3, <3>4, HeldStep
  <2>3. CASE Suspend(t) \/ Resume(t)
    BY <1>2, <2>3 DEF Suspend, Resume
  <2>5. ASSUME NEW name \in Names, Process(t, name)
        PROVE  AllHeld'
    BY <1>2, <2>5 DEF Process
  <2>4. CASE Pops(t)
    <3> DEFINE stack == code[t].stack
               c     == [code[t] EXCEPT !.stack = Tail(stack)]
    <3>1. CASE Len(stack) > 1
      <4>1. code' = [code EXCEPT ![t] = c] /\ open' = open \ CloseFile(Head(stack))
        BY <1>1, <2>4, <3>1 DEF Pops, DbPop, Typed
      <4>2. c.stack = Tail(stack)
        BY <1>1 DEF Typed, Code
      <4>3. stack \in Seq(Settings) /\ stack # <<>> /\ Once(stack) /\ open \subseteq Streams
        BY <1>1, <1>5, <3>1, Present DEF Typed, Code, Streaming, Streamed
      <4> HIDE DEF c
      <4>4. code'[t].stack = Tail(stack) /\ \A u \in Threads \ {t} : code'[u].stack = code[u].stack
        BY <1>1, <4>1, <4>2 DEF Typed
      <4>5. \A s \in Streams :
               Holds(Tail(stack), s) <=> Holds(stack, s) /\ s \notin CloseFile(Head(stack))
        <5> HIDE DEF stack
        <5> QED BY <4>3, HoldsTail
      <4> QED BY <4>1, <4>3, <4>4, <4>5, HeldStep
    <3>2. CASE ~(Len(stack) > 1)
      <4>1. UNCHANGED <<code, open>>
        BY <2>4, <3>2 DEF Pops, DbPop
      <4> QED BY <1>2, <4>1
    <3> QED BY <3>1, <3>2
  <2> QED BY <1>5, <2>1, <2>2, <2>3, <2>4, <2>5 DEF Succeeds
<1>6. ASSUME NEW t \in Threads, Fails(t)
      PROVE  AllHeld'
  <2>1. PICK i \in DOMAIN code[t].stack, c \in Code :
           /\ code' = [code EXCEPT ![t] = c]
           /\ open' = open \ FreeState(SubSeq(code[t].stack, 1, i))
           /\ \A j \in DOMAIN code[t].stack : j > i =>
                 \E k \in DOMAIN c.stack : c.stack[k] = code[t].stack[j]
    BY <1>6 DEF Fails, Loses
  <2>2. code'[t] = c /\ \A u \in Threads \ {t} : code'[u].stack = code[u].stack
    BY <1>1, <2>1 DEF Typed
  <2>3. ASSUME NEW s \in open'
        PROVE  (s \in open /\ ~Holds(code[t].stack, s)) \/ Holds(code'[t].stack, s)
    <3>1. s \in open /\ s \in Streams /\ s \notin FreeState(SubSeq(code[t].stack, 1, i))
      BY <1>1, <2>1, <2>3 DEF Typed
    <3>2. SUFFICES ASSUME NEW j \in DOMAIN code[t].stack, code[t].stack[j].out_file = s
                   PROVE  Holds(c.stack, s)
      BY <2>2, <3>1 DEF Holds
    <3>3. code[t].stack \in Seq(Settings)
      BY <1>1 DEF Typed, Code
    <3>4. j > i
      <4>1. ~(j <= i)
        BY <3>1, <3>2, <3>3, HoldsFirst
      <4>2. i \in Int /\ j \in Int
        BY <3>3
      <4> QED BY <4>1, <4>2
    <3> QED BY <2>1, <3>1, <3>2, <3>4 DEF Holds
  <2> QED BY <2>2, <2>3, HeldStep
<1>7. ASSUME NEW t \in Threads, ReportClose(t)
      PROVE  AllHeld'
  BY <1>2, <1>7 DEF ReportClose
<1> QED BY <1>3, <1>4, <1>5, <1>6, <1>7, VerbosityCases DEF Next

(* A stream that is open is that of some settings.  Of the threads for which *)
(* no fclose failed it is that of one thread and one settings, and such a    *)
(* thread writes to a stream its own settings hold open, whatever the others *)
(* failed to close: for all programs whose control strings ask for one file  *)
(* each.                                                                     *)
THEOREM Owned ==
    ASSUME \A t \in Threads : \A control \in Controls[t] : OneFile(control)
    PROVE  Spec => []StreamsOwned
<1>1. Init => Streaming /\ AllHeld
  BY InitStreaming DEF Init, AllHeld
<1>2. IInv /\ Streaming /\ AllHeld /\ [Next]_vars => Streaming' /\ AllHeld'
  BY StreamingStep, NextHeld
<1>3. IInv /\ Streaming /\ AllHeld => StreamsOwned
  <2> SUFFICES ASSUME IInv, Streaming, AllHeld
               PROVE  StreamsOwned
    OBVIOUS
  <2>1. \A s \in open : \E t \in Threads : \E i \in DOMAIN code[t].stack :
           code[t].stack[i].out_file = s
    BY DEF AllHeld, Holds
  <2> DEFINE There == {t \in Threads : ~Gone(t)}
  <2>2. ASSUME NEW t \in There, NEW i \in DOMAIN code[t].stack,
               code[t].stack[i].out_file \in Streams
        PROVE  /\ code[t].stack[i].out_file \in open
               /\ \A u \in There : \A j \in DOMAIN code[u].stack :
                     code[u].stack[j].out_file = code[t].stack[i].out_file => u = t /\ j = i
    <3> DEFINE s == code[t].stack[i].out_file
    <3>1. Holds(code[t].stack, s)
      BY <2>2 DEF Holds
    <3>2. s \in open
      BY <3>1 DEF Streaming, Streamed
    <3>3. ASSUME NEW u \in There, NEW j \in DOMAIN code[u].stack,
                 code[u].stack[j].out_file = s
          PROVE  u = t /\ j = i
      <4>1. Holds(code[u].stack, s)
        BY <2>2, <3>3 DEF Holds
      <4>2. u = t
        <5> HIDE DEF s
        <5> QED BY <3>1, <4>1 DEF Streaming, Apart
      <4>3. j = i
        BY <2>2, <3>3, <4>2 DEF Streaming, Streamed, Once
      <4> QED BY <4>2, <4>3
    <3> QED BY <3>2, <3>3
  <2>3. \A t \in There : status[t].db_fp \in Streams =>
           \E i \in DOMAIN code[t].stack : code[t].stack[i].out_file = status[t].db_fp
    BY DEF Streaming, Streamed, Holds
  <2> QED BY <2>1, <2>2, <2>3 DEF StreamsOwned
<1> QED BY <1>1, <1>2, <1>3, Invariance, PTL DEF Spec

-----------------------------------------------------------------------------
(* Faults.  A thread whose debugger is switched on and that has no settings   *)
(* is in no function, and is the only one of its kind in a process where     *)
(* nothing was ever pushed: its first call will push.                        *)
Lacking(t) == ~status[t].no_db /\ code[t].stack = <<>>

Ready ==
    \A t \in Threads : Lacking(t) =>
        frames[t] = <<>> /\ ~init_done /\ \A u \in Threads \ {t} : ~Lacking(u)

LEMMA PushedIsThere ==
    ASSUME NEW S, NEW set, NEW s \in Seq(S)
    PROVE  <<set>> \o s # <<>>
<1>1. s \in Seq(S \cup {set}) /\ <<set>> \in Seq(S \cup {set})
  OBVIOUS
<1>2. Len(<<set>> \o s) = 1 + Len(s) /\ Len(s) \in Nat
  BY <1>1
<1>3. Len(<<>>) = 0
  OBVIOUS
<1>4. 1 + Len(s) # 0
  BY <1>2
<1> QED BY <1>2, <1>3, <1>4

LEMMA StartedIsThere ==
    ASSUME IInv, NEW t \in Threads, ~init_done
    PROVE  Started(t).code.stack # <<>>
<1>1. Starts(Started(t), t)
  BY StartedFacts DEF IInv
<1>2. PICK set \in Settings : Started(t).code = [code[t] EXCEPT !.stack = <<set>> \o @]
  BY <1>1 DEF Starts
<1>3. Started(t).code.stack = <<set>> \o code[t].stack /\ code[t].stack \in Seq(Settings)
  BY <1>2 DEF IInv, Typed, Code
<1> QED BY <1>3, PushedIsThere

(* A thread comes into a function with settings, or without the debugger.    *)
LEMMA EntersReady ==
    ASSUME IInv, NEW t \in Threads, Working(t) \/ Writing(t), Nested(t),
           frames[t] = <<>>, frames'[t] # <<>>
    PROVE  status[t].no_db \/ Starting(t) \/ code[t].stack # <<>>
<1>1. Typed /\ ~InLine(t)
  BY DEF IInv, Nested
<1>2. ASSUME NEW f \in Functions, Enter(t, f), ~status[t].no_db, code[t].stack = <<>>
      PROVE  Starting(t)
  <2> DEFINE s == Started(t)
             c == [s.code EXCEPT !.func = f, !.level = @ + 1]
  <2>1. s.code \in Code
    BY <1>1, StartedTypes
  <2>2. c.stack = s.code.stack
    <3> HIDE DEF s
    <3> QED BY <2>1 DEF Code
  <2>3. CASE c.stack = <<>>
    BY <1>2, <2>3 DEF Enter, Crash
  <2>4. CASE c.stack # <<>>
    <3>1. /\ code' = [code EXCEPT ![t] = c] /\ status' = [status EXCEPT ![t] = s.status]
          /\ init_done' = TRUE
      BY <1>2, <2>4 DEF Enter
    <3>2. ~init_done
      BY <1>2, <2>2, <2>4 DEF Started
    <3> HIDE DEF c, s
    <3>3. code'[t].stack = s.code.stack /\ status'[t] = s.status
      BY <1>1, <2>2, <3>1 DEF Typed
    <3> QED BY <1>2, <3>1, <3>2, <3>3 DEF Starting, s
  <2> QED BY <2>3, <2>4
<1>3. \E f \in Functions : Enter(t, f)
  <2>1. ~(Return(t) \/ ReturnSilently(t) \/ Alloc(t) \/ Free(t))
        /\ \A k \in Keywords : ~Doprnt(t, k) /\ ~Dump(t, k)
    BY DEF Return, ReturnSilently, Alloc, Free, Doprnt, Dump, Selected
  <2>2. ~(LockFile(t) \/ UnlockFile(t) \/ MemoryCleaned(t) \/ Compare(t))
    BY DEF LockFile, UnlockFile, MemoryCleaned, Compare
  <2>3. ~Writing(t)
    BY <1>1 DEF Writing, Acquire, DoPrefix, Text, InLine
  <2> QED BY <2>1, <2>2, <2>3 DEF Working
<1> QED BY <1>2, <1>3

LEMMA WorkingReady ==
    ASSUME IInv, \A u \in Threads : Nested(u), Ready, NEW t \in Threads,
           Working(t) \/ Writing(t)
    PROVE  Ready'
<1>1. \A u \in Threads \ {t} : code'[u] = code[u] /\ status'[u] = status[u]
                               /\ frames'[u] = frames[u]
  BY Local DEF IInv, OnlyThread
<1>2. status'[t].no_db = status[t].no_db /\ (Keeping(t) \/ Starting(t))
  BY WorkingStacks
<1>3. \A u \in Threads \ {t} : Lacking(u)' <=> Lacking(u)
  BY <1>1 DEF Lacking
<1>4. CASE Starting(t)
  <2>1. Lacking(t) /\ ~Lacking(t)'
    <3>1. code[t].stack = <<>> /\ code'[t].stack # <<>>
      BY <1>4, StartedIsThere DEF Starting, IInv
    <3> QED BY <1>4, <3>1 DEF Lacking, Starting
  <2> QED BY <1>3, <2>1 DEF Ready
<1>5. CASE Keeping(t)
  <2>1. Lacking(t)' <=> Lacking(t)
    BY <1>2, <1>5 DEF Lacking, Keeping
  <2>2. Lacking(t) => frames'[t] = <<>>
    <3> SUFFICES ASSUME Lacking(t), frames'[t] # <<>>
                 PROVE  FALSE
      OBVIOUS
    <3>1. frames[t] = <<>> /\ ~status[t].no_db /\ code[t].stack = <<>>
      BY DEF Ready, Lacking
    <3>2. Starting(t)
      BY <3>1, EntersReady
    <3> QED BY <1>5, <3>2 DEF Starting, Keeping
  <2> QED BY <1>1, <1>3, <1>5, <2>1, <2>2 DEF Ready, Keeping
<1> QED BY <1>2, <1>4, <1>5

LEMMA SucceedReady ==
    ASSUME {"outside", "resume"} \subseteq Contract, IInv, Ready, NEW t \in Threads, Succeeds(t)
    PROVE  Ready'
<1>1. /\ Typed /\ code[t] \in Code /\ status[t] \in Status /\ UNCHANGED frames
      /\ "outside" \in Contract /\ "resume" \in Contract
  BY DEF IInv, Typed, quiet, Succeeds, Enable, PushControl, Ends, Suspend, Resume, Pops, Process
<1>2. ASSUME UNCHANGED init_done, \A u \in Threads : Lacking(u)' => Lacking(u)
      PROVE  Ready'
  BY <1>1, <1>2 DEF Ready
<1>4. ASSUME NEW control \in Controls[t], Enable(t, control) \/ PushControl(t, control)
      PROVE  Ready'
  <2>1. PICK set \in Settings, fp \in Files, given \in SUBSET Streams :
           Pushing(t, control, set, fp, given)
    BY <1>4, PushFacts
  <2>2. \A u \in Threads \ {t} : ~Lacking(u)
    BY <1>1, <1>4 DEF Enable, PushControl, OthersStarted, Lacking
  <2>3. code'[t].stack # <<>>
    <3>1. code'[t].stack = <<set>> \o code[t].stack /\ code[t].stack \in Seq(Settings)
      BY <1>1, <2>1 DEF Pushing, Code
    <3> QED BY <3>1, PushedIsThere
  <2>4. \A u \in Threads : ~Lacking(u)'
    BY <2>1, <2>2, <2>3 DEF Lacking, Pushing
  <2> QED BY <2>4 DEF Ready
<1>5. CASE Ends(t)
  <2>1. DbEnd(t) /\ UNCHANGED init_done
    BY <1>5 DEF Ends
  <2>2. FreshStatus.no_db
    BY DEF FreshStatus
  <2>3. /\ status'[t] = FreshStatus
        /\ \A u \in Threads \ {t} : code'[u] = code[u] /\ status'[u] = status[u]
    BY <1>1, <2>1 DEF DbEnd, Typed
  <2>4. \A u \in Threads : Lacking(u)' => Lacking(u)
    BY <2>2, <2>3 DEF Lacking
  <2> QED BY <1>2, <2>1, <2>4
<1>6. CASE Suspend(t)
  <2>1. /\ status' = [status EXCEPT ![t] = [status[t] EXCEPT !.no_db = TRUE, !.db_on = FALSE]]
        /\ UNCHANGED <<code, init_done>>
    BY <1>1, <1>6 DEF Suspend, Typed
  <2>2. [status[t] EXCEPT !.no_db = TRUE, !.db_on = FALSE].no_db
    BY <1>1 DEF Status
  <2>3. status'[t].no_db /\ \A u \in Threads \ {t} : status'[u] = status[u]
    BY <1>1, <2>1, <2>2 DEF Typed
  <2> QED BY <1>2, <2>1, <2>3 DEF Lacking
<1>7. CASE Resume(t)
  <2>1. \A u \in Threads \ {t} : ~Lacking(u)
    BY <1>1, <1>7 DEF Resume, OthersStarted, Lacking
  <2>2. frames[t] = <<>> /\ (code[t].stack # <<>> \/ ~init_done) /\ UNCHANGED <<code, init_done>>
    BY <1>1, <1>7 DEF Resume, MayChange, MayResume
  <2>3. \A u \in Threads \ {t} : status'[u] = status[u]
    BY <1>1, <1>7 DEF Resume, DEBUGGER_ON, Typed
  <2>4. \A u \in Threads \ {t} : ~Lacking(u)'
    BY <2>1, <2>2, <2>3 DEF Lacking
  <2>5. Lacking(t)' => frames'[t] = <<>> /\ ~init_done'
    BY <1>1, <2>2 DEF Lacking
  <2> QED BY <2>4, <2>5 DEF Ready
<1>8. ASSUME NEW name \in Names, Process(t, name)
      PROVE  Ready'
  <2>1. /\ status' = [status EXCEPT ![t] = [status[t] EXCEPT !.process = name]]
        /\ UNCHANGED <<code, init_done>>
    BY <1>1, <1>8 DEF Process, Typed
  <2>2. [status[t] EXCEPT !.process = name].no_db = status[t].no_db
    BY <1>1 DEF Status
  <2>3. \A u \in Threads : status'[u].no_db = status[u].no_db
    BY <1>1, <2>1, <2>2 DEF Typed
  <2> QED BY <1>2, <2>1, <2>3 DEF Lacking
<1>9. CASE Pops(t)
  <2> DEFINE stack == code[t].stack
             c  == [code[t] EXCEPT !.stack = Tail(stack)]
             on == status[t].db_on /\ "DEBUG_ON" \in stack[2].flags
             st == [status[t] EXCEPT !.db_fp = stack[2].out_file, !.db_on = on]
             off == [status[t] EXCEPT !.db_on = FALSE]
  <2>1. UNCHANGED init_done
    BY <1>9 DEF Pops
  <2>2. CASE Len(stack) > 1
    <3>1. code' = [code EXCEPT ![t] = c] /\ status' = [status EXCEPT ![t] = st]
      BY <1>1, <1>9, <2>2 DEF Pops, DbPop, Typed
    <3>2. c.stack = Tail(stack) /\ Tail(stack) # <<>>
      <4>1. c.stack = Tail(stack) /\ stack \in Seq(Settings)
        BY <1>1 DEF Code
      <4> QED BY <2>2, <4>1, TailLeft
    <3> HIDE DEF c, st
    <3>3. /\ code'[t].stack # <<>>
          /\ \A u \in Threads \ {t} : code'[u] = code[u] /\ status'[u] = status[u]
      BY <1>1, <3>1, <3>2 DEF Typed
    <3> QED BY <1>2, <2>1, <3>3 DEF Lacking
  <2>3. CASE ~(Len(stack) > 1)
    <3>1. UNCHANGED code /\ status' = [status EXCEPT ![t] = off]
      BY <1>1, <1>9, <2>3 DEF Pops, DbPop, Typed
    <3>2. off.no_db = status[t].no_db
      BY <1>1 DEF Status
    <3> HIDE DEF off
    <3>3. \A u \in Threads : status'[u].no_db = status[u].no_db
      BY <1>1, <3>1, <3>2 DEF Typed
    <3> QED BY <1>2, <2>1, <3>1, <3>3 DEF Lacking
  <2> QED BY <2>2, <2>3
<1> QED BY <1>4, <1>5, <1>6, <1>7, <1>8, <1>9 DEF Succeeds

(* A thread for which fclose fails had settings, and still has.              *)
LEMMA FailReady ==
    ASSUME IInv, Ready, NEW t \in Threads, Fails(t)
    PROVE  Ready'
<1>1. Typed /\ UNCHANGED <<frames, init_done>>
  BY DEF IInv, Fails
<1>2. PICK c, st :
         code' = [code EXCEPT ![t] = c] /\ status' = [status EXCEPT ![t] = st] /\ c.stack # <<>>
  BY DEF Fails, Loses
<1>3. /\ code'[t].stack # <<>>
      /\ \A u \in Threads \ {t} : code'[u] = code[u] /\ status'[u] = status[u]
  BY <1>1, <1>2 DEF Typed
<1>4. \A u \in Threads : Lacking(u)' => Lacking(u)
  BY <1>3 DEF Lacking
<1> QED BY <1>1, <1>4 DEF Ready

(* What it is to go: the one thread that goes was in no call that counts.    *)
LEMMA Going ==
    ASSUME IInv, NEW t \in Threads, Fails(t) \/ ReportClose(t)
    PROVE  /\ pc[t] \in {"run", "unclosed"} /\ pc'[t] \in {"unclosed", "crashed"}
           /\ job'[t].op = "close"
           /\ \A u \in Threads \ {t} : pc'[u] = pc[u] /\ job'[u] = job[u]
           /\ UNCHANGED <<mstat, live>>
<1>1. Typed /\ Bounded(t)
  BY DEF IInv
<1>2. CASE Fails(t)
  <2>1. /\ pc[t] = "run" /\ pc' = [pc EXCEPT ![t] = "unclosed"]
        /\ job' = [job EXCEPT ![t] = [op |-> "close", text |-> TRUE]]
        /\ UNCHANGED <<mstat, live>>
    BY <1>2 DEF Fails, Idle
  <2> QED BY <1>1, <2>1 DEF Typed
<1>3. CASE ReportClose(t)
  <2>1. /\ pc[t] = "unclosed" /\ pc' = [pc EXCEPT ![t] = "crashed"]
        /\ UNCHANGED <<mstat, live, job>>
    BY <1>3 DEF ReportClose
  <2> QED BY <1>1, <2>1 DEF Typed, Bounded
<1> QED BY <1>2, <1>3

(* A line begins on a stream that is open, and a call finds what it needs.   *)
LEMMA NoCrash ==
    ASSUME IInv, NEW t \in Threads, Nested(t), Streamed(t), Ready,
           Working(t) \/ Writing(t)
    PROVE  pc'[t] # "crashed"
<1>1. /\ Typed /\ code[t] \in Code /\ status[t] \in Status
      /\ frames[t] \in Seq(Frames \cup {NULL})
  BY DEF IInv, Typed
<1>2. frames[t] # <<>> /\ ~status[t].no_db => code[t].stack # <<>> /\ init_done
  BY DEF Ready, Lacking, IInv
<1>4. ASSUME NEW f \in Functions, Enter(t, f)
      PROVE  pc'[t] # "crashed"
  <2> DEFINE s == Started(t)
             c == [s.code EXCEPT !.func = f, !.level = @ + 1]
  <2>1. CASE status[t].no_db
    BY <1>4, <2>1 DEF Enter, Idle
  <2>2. CASE ~status[t].no_db
    <3>1. c.stack # <<>>
      <4>1. s.code \in Code
        BY <1>1, StartedTypes
      <4>2. c.stack = s.code.stack
        <5> HIDE DEF s
        <5> QED BY <4>1 DEF Code
      <4>3. CASE init_done
        <5>1. s.code = code[t]
          BY <4>3 DEF Started
        <5>2. code[t].stack # <<>>
          BY <2>2, <4>3 DEF Ready, Lacking
        <5> QED BY <4>2, <5>1, <5>2
      <4>4. CASE ~init_done
        BY <4>2, <4>4, StartedIsThere
      <4> QED BY <4>3, <4>4
    <3>2. UNCHANGED pc \/ Begin(t, "enter", TRUE)
      BY <1>4, <2>2, <3>1 DEF Enter
    <3> QED BY <1>1, <1>4, <3>2 DEF Enter, Idle, Begin, Typed
  <2> QED BY <2>1, <2>2
<1>5. CASE Return(t)
  <2>1. CASE status[t].no_db
    BY <1>5, <2>1 DEF Return, Idle
  <2>2. CASE ~status[t].no_db
    <3>1. code[t].stack # <<>> /\ frames[t] # <<>>
      BY <1>2, <1>5, <2>2 DEF Return
    <3>2. Head(frames[t]) # NULL
      BY <1>1, <2>2, <3>1, WrittenTail DEF Nested
    <3>3. UNCHANGED pc \/ \E text \in BOOLEAN : Begin(t, "return", text)
      BY <1>5, <2>2, <3>1, <3>2 DEF Return
    <3> QED BY <1>1, <1>5, <3>3 DEF Return, Idle, Begin, Typed
  <2> QED BY <2>1, <2>2
<1>6. CASE ReturnSilently(t) \/ LockFile(t) \/ UnlockFile(t)
  BY <1>6 DEF ReturnSilently, LockFile, UnlockFile, Idle
<1>7. ASSUME NEW k \in Keywords, Doprnt(t, k) \/ Dump(t, k)
      PROVE  pc'[t] # "crashed"
  <2>1. PICK op \in {"print", "dump"} : Selected(t, k, op)
    BY <1>7 DEF Doprnt, Dump
  <2>2. code[t].stack # <<>>
    BY <1>2, <2>1 DEF Selected, Nested
  <2>3. Begin(t, op, TRUE)
    BY <2>1, <2>2 DEF Selected
  <2> QED BY <1>1, <2>3 DEF Begin, Typed
<1>8. CASE Alloc(t)
  <2> DEFINE s == Started(t)
             c == [s.code EXCEPT !.level = @ + 1]
  <2>1. frames[t] # <<>> /\ pc[t] = "run"
    BY <1>8 DEF Alloc, Idle
  <2>2. CASE status[t].no_db \/ ~s.status.db_on
    BY <1>8, <2>1, <2>2 DEF Alloc, NoDbAlloc
  <2>3. CASE ~(status[t].no_db \/ ~s.status.db_on)
    <3>1. code[t].stack # <<>> /\ s.code = code[t]
      BY <1>2, <2>1, <2>3 DEF Started
    <3>2. c.stack = code[t].stack
      <4> HIDE DEF s
      <4> QED BY <1>1, <3>1 DEF Code
    <3>3. UNCHANGED pc \/ Begin(t, "alloc", TRUE)
      BY <1>8, <2>3, <3>1, <3>2 DEF Alloc
    <3> QED BY <1>1, <2>1, <3>3 DEF Begin, Typed
  <2> QED BY <2>2, <2>3
<1>9. CASE Free(t)
  <2> DEFINE c == [code[t] EXCEPT !.level = @ + 1]
  <2>1. frames[t] # <<>> /\ pc[t] = "run" /\ c.stack = code[t].stack
    BY <1>1, <1>9 DEF Free, Idle, Code
  <2>2. CASE status[t].no_db \/ ~init_done \/ ~status[t].db_on
    BY <1>9, <2>1, <2>2 DEF Free, NoDbFree, vars
  <2>3. CASE ~(status[t].no_db \/ ~init_done \/ ~status[t].db_on)
    <3>1. c.stack # <<>>
      BY <1>2, <2>1, <2>3
    <3>2. UNCHANGED pc \/ Begin(t, "free", TRUE)
      BY <1>9, <2>3, <3>1 DEF Free
    <3> QED BY <1>1, <2>1, <3>2 DEF Begin, Typed
  <2> QED BY <2>2, <2>3
<1>10. CASE MemoryCleaned(t) \/ Compare(t)
  BY <1>1, <1>10 DEF MemoryCleaned, Compare, Typed
<1>11. CASE Acquire(t) \/ Text(t)
  BY <1>1, <1>11, TextCases DEF Acquire, Typed
<1>12. CASE DoPrefix(t)
  <2>1. code[t].stack # <<>>
    BY <1>2, <1>12 DEF DoPrefix, Nested, InLine
  <2>2. Usable(status[t].db_fp)
    <3>1. status[t].db_fp \in Files
      BY <1>1, <2>1 DEF Streamed, Status
    <3> QED BY <3>1 DEF Streamed, Usable, Files
  <2>3. pc' = [pc EXCEPT ![t] = "text"]
    BY <1>12, <2>2 DEF DoPrefix
  <2> QED BY <1>1, <2>3 DEF Typed
<1> QED BY <1>4, <1>5, <1>6, <1>7, <1>8, <1>9, <1>10, <1>11, <1>12 DEF Working, Writing

(* What is shown of all threads together.                                    *)
Healthy == (\A t \in Threads : Nested(t)) /\ Streaming /\ Ready /\ OnlyCloseFaults

LEMMA InitHealthy == Init => Healthy
<1>1. Init => Ready /\ OnlyCloseFaults
  BY DEF Init, Ready, Lacking, FreshStatus, OnlyCloseFaults
<1> QED BY <1>1, InitNested, InitStreaming DEF Healthy

(* No call of a thread that is healthy crashes.                              *)
LEMMA HealthyCall ==
    ASSUME IInv, Healthy, NEW t \in Threads, Working(t) \/ Writing(t)
    PROVE  pc'[t] # "crashed"
<1>1. Streamed(t)
  BY Present DEF Healthy, Streaming
<1> QED BY <1>1, NoCrash DEF Healthy

LEMMA HealthyStep ==
    ASSUME {"outside", "resume", "leave"} \subseteq Contract, IInv, Healthy, [Next]_vars
    PROVE  Healthy'
<1>1. /\ \A t \in Threads : Nested(t)'
      /\ Streaming'
  BY NextNested, StreamingStep DEF Healthy
<1>2. CASE UNCHANGED vars
  BY <1>1, <1>2 DEF Healthy, vars, Ready, Lacking, OnlyCloseFaults
<1>3. ASSUME NEW t \in Threads, Succeeds(t)
      PROVE  Ready' /\ OnlyCloseFaults'
  <2>1. UNCHANGED <<pc, job>>
    BY <1>3 DEF quiet, Succeeds, Enable, PushControl, Ends, Suspend, Resume, Pops, Process
  <2> QED BY <1>3, <2>1, SucceedReady DEF Healthy, OnlyCloseFaults
<1>4. ASSUME NEW t \in Threads, Working(t) \/ Writing(t)
      PROVE  Ready' /\ OnlyCloseFaults'
  <2>1. pc'[t] # "crashed"
    BY <1>4, HealthyCall
  <2>2. \A u \in Threads \ {t} : pc'[u] = pc[u] /\ job'[u] = job[u]
    BY <1>4, Local DEF IInv, OnlyThread
  <2> QED BY <1>4, <2>1, <2>2, WorkingReady DEF Healthy, OnlyCloseFaults
<1>5. ASSUME NEW t \in Threads, Fails(t) \/ ReportClose(t)
      PROVE  Ready' /\ OnlyCloseFaults'
  <2>1. OnlyCloseFaults'
    BY <1>5, Going DEF Healthy, OnlyCloseFaults
  <2>2. ReportClose(t) => Ready'
    BY DEF Healthy, Ready, Lacking, ReportClose
  <2> QED BY <1>5, <2>1, <2>2, FailReady DEF Healthy
<1> QED BY <1>1, <1>2, <1>3, <1>4, <1>5, VerbosityCases DEF Next, Healthy

LEMMA StayHealthy ==
    ASSUME {"outside", "resume", "leave"} \subseteq Contract
    PROVE  Spec => []Healthy
<1>1. IInv /\ Healthy /\ [Next]_vars => Healthy'
  BY HealthyStep
<1> QED BY <1>1, InitHealthy, Invariance, PTL DEF Spec

(* No thread reads settings that are not there, writes to a stream that was  *)
(* closed, or returns to a state that was never written, but in the report   *)
(* of a failed fclose: for all programs that change their verbosity outside  *)
(* of the functions, resume what there is, and whose outermost function does *)
(* not skip DBUG_LEAVE.  No thread is brought to fault by the failed fclose  *)
(* of another.                                                               *)
THEOREM Faultless ==
    ASSUME {"outside", "resume", "leave"} \subseteq Contract
    PROVE  Spec => []OnlyCloseFaults
<1>1. Healthy => OnlyCloseFaults
  BY DEF Healthy
<1> QED BY <1>1, StayHealthy, PTL

-----------------------------------------------------------------------------
(* Memory.  A block is counted a step after it is allocated, and freed a     *)
(* step or two after it is counted.                                          *)
UnevenAt(t) ==
    \/ pc[t] = "want" /\ job[t].op = "alloc"
    \/ pc[t] \in {"prefix", "text"} /\ job[t].op = "free"

Uneven == {u \in Threads : UnevenAt(u)}

Excess == live + mstat.freed_count - mstat.alloc_count

(* What MySKLmemoryCleaned has read is still so when it compares.            *)
Asking(t) ==
    pc[t] = "compare" => /\ job[t].alloc_count = mstat.alloc_count
                         /\ \A u \in Threads : ~Allocating(u)

Balanced == Excess = Cardinality(Uneven) /\ \A t \in Threads : Asking(t)

(* A step of one thread keeps the balance if it changes it by what the       *)
(* thread itself owes.                                                       *)
Even(t) ==
    \/ (UnevenAt(t)' <=> UnevenAt(t)) /\ Excess' = Excess
    \/ ~UnevenAt(t) /\ UnevenAt(t)' /\ Excess' = Excess + 1
    \/ UnevenAt(t) /\ ~UnevenAt(t)' /\ Excess' = Excess - 1

(* Nothing is counted while somebody asks.                                   *)
Unasked(t) ==
    (\E u \in Threads : pc[u] = "compare") /\ ~Allocating(t)
        => mstat' = mstat /\ ~Allocating(t)'

LEMMA EvenStep ==
    ASSUME Typed, Excess = Cardinality(Uneven), NEW t \in Threads, OnlyThread(t), Even(t)
    PROVE  Excess' = Cardinality(Uneven)'
<1>1. IsFiniteSet(Uneven) /\ IsFiniteSet(Uneven')
      /\ Cardinality(Uneven) \in Nat /\ Cardinality(Uneven') \in Nat
  BY DbugAssumption, FS_Subset, FS_CardinalityType DEF Uneven
<1>2. \A u \in Threads \ {t} : UnevenAt(u)' <=> UnevenAt(u)
  BY DEF OnlyThread, UnevenAt
<1>3. CASE (UnevenAt(t)' <=> UnevenAt(t)) /\ Excess' = Excess
  <2>1. Uneven' = Uneven
    BY <1>2, <1>3 DEF Uneven
  <2> QED BY <1>3, <2>1
<1>4. CASE ~UnevenAt(t) /\ UnevenAt(t)' /\ Excess' = Excess + 1
  <2>1. Uneven' = Uneven \cup {t} /\ t \notin Uneven
    BY <1>2, <1>4 DEF Uneven
  <2>2. Cardinality(Uneven') = Cardinality(Uneven) + 1
    BY <1>1, <2>1, FS_AddElement
  <2> QED BY <1>4, <2>2
<1>5. CASE UnevenAt(t) /\ ~UnevenAt(t)' /\ Excess' = Excess - 1
  <2>1. Uneven' = Uneven \ {t} /\ t \in Uneven
    BY <1>2, <1>5 DEF Uneven
  <2>2. Cardinality(Uneven') = Cardinality(Uneven) - 1
    BY <1>1, <2>1, FS_RemoveElement
  <2> QED BY <1>5, <2>2
<1> QED BY <1>3, <1>4, <1>5 DEF Even

(* A step that counts nothing and begins no allocation.                      *)
LEMMA EvenBegin ==
    ASSUME IInv, NEW t \in Threads, Idle(t), UNCHANGED <<mstat, live>>,
           \/ UNCHANGED <<pc, job>>
           \/ \E op \in Ops \ {"alloc"}, text \in BOOLEAN : Begin(t, op, text)
    PROVE  Even(t) /\ (Allocating(t)' => job'[t].op = "free")
<1>1. Excess' = Excess /\ ~UnevenAt(t) /\ ~Allocating(t)
  BY DEF Excess, UnevenAt, Allocating, Idle
<1>2. CASE UNCHANGED <<pc, job>>
  BY <1>1, <1>2 DEF Even, UnevenAt, Allocating
<1>3. ASSUME NEW op \in Ops \ {"alloc"}, NEW text \in BOOLEAN, Begin(t, op, text)
      PROVE  Even(t) /\ (Allocating(t)' => job'[t].op = "free")
  <2>1. pc'[t] = "want" /\ job'[t].op = op
    BY <1>3, BeginFacts DEF IInv
  <2> QED BY <1>1, <1>3, <2>1 DEF Even, UnevenAt, Allocating
<1> QED BY <1>2, <1>3

LEMMA AllocEven ==
    ASSUME {"trace", "alone"} \subseteq Contract, IInv, Healthy, NEW t \in Threads,
           Alloc(t) \/ Free(t)
    PROVE  Even(t) /\ \A u \in Threads : pc[u] # "compare"
<1>1. /\ Typed /\ code[t] \in Code /\ live \in Nat /\ pc[t] = "run" /\ Idle(t)
      /\ mstat \in [alloc_count : Nat, freed_count : Nat]
      /\ mstat.alloc_count \in Nat /\ mstat.freed_count \in Nat
      /\ frames[t] # <<>> /\ MayAllocate(t)
  BY DEF Alloc, Free, IInv, Typed, Idle
<1>2. \A u \in Threads : pc[u] # "compare"
  BY DEF Alloc, Free, NobodyAsks
<1> SUFFICES Even(t)
  BY <1>2
<1>3. ~status[t].no_db => code[t].stack # <<>> /\ init_done
  BY <1>1 DEF Healthy, Ready, Lacking, IInv
<1>4. ASSUME UNCHANGED <<pc, job>>,
             \/ live' = live + 1 /\ mstat' = Counted("alloc")
             \/ live' = live - 1 /\ mstat' = Counted("free")
      PROVE  Even(t)
  <2>1. /\ UnevenAt(t)' <=> UnevenAt(t)
        /\ "alloc" # "free"
    BY <1>4 DEF UnevenAt
  <2>2. Excess' = Excess
    <3>1. CASE live' = live + 1 /\ mstat' = Counted("alloc")
      <4>1. /\ mstat'.alloc_count = mstat.alloc_count + 1
            /\ mstat'.freed_count = mstat.freed_count
        BY <1>1, <3>1, CountedFacts
      <4> QED BY <1>1, <3>1, <4>1 DEF Excess
    <3>2. CASE live' = live - 1 /\ mstat' = Counted("free")
      <4>1. /\ mstat'.alloc_count = mstat.alloc_count
            /\ mstat'.freed_count = mstat.freed_count + 1
        BY <1>1, <3>2, CountedFacts
      <4> QED BY <1>1, <3>2, <4>1 DEF Excess
    <3> QED BY <1>4, <3>1, <3>2
  <2> QED BY <2>1, <2>2 DEF Even
<1> DEFINE d == [code[t] EXCEPT !.level = @ + 1]
<1>5. status[t].db_on /\ code[t].stack # <<>> => DoTrace(d, status[t])
  BY <1>1 DEF MayAllocate
<1>6. d.stack = code[t].stack
  BY <1>1 DEF Code
<1>7. CASE Alloc(t)
  <2> DEFINE s == Started(t)
             c == [s.code EXCEPT !.level = @ + 1]
  <2>1. CASE status[t].no_db \/ ~s.status.db_on
    BY <1>4, <1>7, <2>1 DEF Alloc, NoDbAlloc
  <2>2. CASE ~(status[t].no_db \/ ~s.status.db_on)
    <3>1. s = [code |-> code[t], status |-> status[t]] /\ code[t].stack # <<>>
      BY <1>3, <2>2 DEF Started
    <3>2. c = d /\ s.status = status[t]
      BY <3>1
    <3>3. DoTrace(c, s.status) /\ c.stack # <<>>
      <4> HIDE DEF c, s, d
      <4> QED BY <1>5, <1>6, <2>2, <3>1, <3>2
    <3>4. live' = live + 1 /\ Begin(t, "alloc", TRUE) /\ UNCHANGED mstat
      BY <1>7, <2>2, <3>3 DEF Alloc
    <3>5. pc'[t] = "want" /\ job'[t].op = "alloc"
      <4>1. "alloc" \in Ops /\ TRUE \in BOOLEAN
        BY DEF Ops
      <4> QED BY <1>1, <3>4, <4>1, BeginFacts
    <3>6. Excess' = Excess + 1
      BY <1>1, <3>4 DEF Excess
    <3> QED BY <1>1, <3>5, <3>6 DEF Even, UnevenAt
  <2> QED BY <2>1, <2>2
<1>8. CASE Free(t)
  <2>1. CASE status[t].no_db \/ ~init_done \/ ~status[t].db_on
    <3>1. CASE UNCHANGED vars
      BY <3>1 DEF vars, Even, UnevenAt, Excess
    <3>2. CASE NoDbFree(t)
      BY <1>4, <3>2 DEF NoDbFree
    <3> QED BY <1>8, <2>1, <3>1, <3>2 DEF Free
  <2>2. CASE ~(status[t].no_db \/ ~init_done \/ ~status[t].db_on)
    <3>1. DoTrace(d, status[t]) /\ d.stack # <<>>
      BY <1>3, <1>5, <1>6, <2>2
    <3>2. Begin(t, "free", TRUE) /\ UNCHANGED <<mstat, live>>
      <4> HIDE DEF d
      <4>1. Begin(t, "free", TRUE) /\ UNCHANGED lines
        BY <1>8, <2>2, <3>1 DEF Free, d
      <4> QED BY <4>1 DEF lines
    <3>3. "free" \in Ops \ {"alloc"} /\ TRUE \in BOOLEAN
      BY DEF Ops
    <3> QED BY <1>1, <3>2, <3>3, EvenBegin
  <2> QED BY <2>1, <2>2
<1> QED BY <1>7, <1>8

LEMMA WorkingEven ==
    ASSUME {"trace", "alone"} \subseteq Contract, IInv, Healthy, NEW t \in Threads, Working(t)
    PROVE  Even(t) /\ Unasked(t)
<1>1. /\ Typed /\ live \in Nat /\ "enter" \in Ops \ {"alloc"} /\ "return" \in Ops \ {"alloc"}
      /\ {"print", "dump"} \subseteq Ops \ {"alloc"} /\ TRUE \in BOOLEAN
  BY DEF IInv, Typed, Ops
<1>2. ASSUME Idle(t), UNCHANGED <<mstat, live>>, NEW op \in Ops \ {"alloc", "free"},
             UNCHANGED <<pc, job>> \/ \E text \in BOOLEAN : Begin(t, op, text)
      PROVE  Even(t) /\ Unasked(t)
  <2>1. Even(t)
    BY <1>2, EvenBegin
  <2>2. CASE UNCHANGED <<pc, job>>
    BY <1>2, <2>1, <2>2 DEF Unasked, Allocating
  <2>3. ASSUME NEW text \in BOOLEAN, Begin(t, op, text)
        PROVE  Unasked(t)
    <3>1. job'[t].op = op
      BY <1>1, <2>3, BeginFacts
    <3> QED BY <1>2, <3>1 DEF Unasked, Allocating
  <2> QED BY <1>2, <2>1, <2>2, <2>3
<1>3. ~Crash(t)
  <2>1. pc'[t] # "crashed"
    BY HealthyCall
  <2> QED BY <1>1, <2>1 DEF Crash, Typed
<1>4. ASSUME NEW f \in Functions, Enter(t, f)
      PROVE  Even(t) /\ Unasked(t)
  <2>1. /\ UNCHANGED <<mstat, live>> /\ Idle(t)
        /\ UNCHANGED <<pc, job>> \/ Begin(t, "enter", TRUE)
    BY <1>3, <1>4 DEF Enter, lines
  <2>2. "enter" \in Ops \ {"alloc", "free"}
    BY DEF Ops
  <2> QED BY <1>1, <1>2, <2>1, <2>2
<1>5. CASE Return(t) \/ ReturnSilently(t)
  <2>1. /\ UNCHANGED <<mstat, live>> /\ Idle(t)
        /\ UNCHANGED <<pc, job>> \/ \E text \in BOOLEAN : Begin(t, "return", text)
    BY <1>3, <1>5 DEF Return, ReturnSilently, lines
  <2>2. "return" \in Ops \ {"alloc", "free"}
    BY DEF Ops
  <2> QED BY <1>1, <1>2, <2>1, <2>2
<1>6. ASSUME NEW k \in Keywords, Doprnt(t, k) \/ Dump(t, k)
      PROVE  Even(t) /\ Unasked(t)
  <2>1. PICK op \in {"print", "dump"} : Selected(t, k, op)
    BY <1>6 DEF Doprnt, Dump
  <2>2. UNCHANGED <<mstat, live>> /\ Idle(t) /\ Begin(t, op, TRUE)
    BY <1>3, <2>1 DEF Selected, lines
  <2>3. op \in Ops \ {"alloc", "free"}
    BY DEF Ops
  <2> QED BY <1>1, <1>2, <2>2, <2>3
<1>7. CASE LockFile(t) \/ UnlockFile(t)
  <2>1. /\ UNCHANGED <<mstat, live>> /\ Idle(t) /\ UNCHANGED <<pc, job>>
    BY <1>7 DEF LockFile, UnlockFile
  <2>2. "none" \in Ops \ {"alloc", "free"}
    BY DEF Ops
  <2> QED BY <1>1, <1>2, <2>1, <2>2
<1>8. CASE Alloc(t) \/ Free(t)
  BY <1>8, AllocEven DEF Unasked
<1>9. CASE MemoryCleaned(t) \/ Compare(t)
  <2>1. UNCHANGED <<mstat, live>> /\ pc[t] \in {"run", "compare"} /\ pc'[t] \in {"run", "compare"}
    BY <1>1, <1>9 DEF MemoryCleaned, Compare, Idle, Typed, lines
  <2>2. job'[t].op \notin {"alloc", "free"}
    <3>1. CASE MemoryCleaned(t)
      BY <1>1, <3>1 DEF MemoryCleaned, Typed
    <3>2. CASE Compare(t)
      BY <1>1, <3>2 DEF Compare, Typed
    <3> QED BY <1>9, <3>1, <3>2
  <2>3. ~UnevenAt(t) /\ ~UnevenAt(t)' /\ Excess' = Excess
    BY <2>1 DEF UnevenAt, Excess
  <2> QED BY <2>1, <2>2, <2>3 DEF Even, Unasked, Allocating
<1> QED BY <1>4, <1>5, <1>6, <1>7, <1>8, <1>9 DEF Working

LEMMA WritingEven ==
    ASSUME IInv, Healthy, NEW t \in Threads, Writing(t)
    PROVE  Even(t) /\ Unasked(t)
<1>1. /\ Typed /\ live \in Nat
      /\ mstat \in [alloc_count : Nat, freed_count : Nat]
      /\ mstat.alloc_count \in Nat /\ mstat.freed_count \in Nat
  BY DEF IInv, Typed
<1>2. CASE Acquire(t)
  <2>1. /\ pc[t] = "want" /\ mstat' = Counted(job[t].op) /\ UNCHANGED <<job, live>>
        /\ pc'[t] \in {"prefix", "text"}
    BY <1>1, <1>2 DEF Acquire, Typed
  <2>2. /\ mstat'.alloc_count = mstat.alloc_count + (IF job[t].op = "alloc" THEN 1 ELSE 0)
        /\ mstat'.freed_count = mstat.freed_count + (IF job[t].op = "free" THEN 1 ELSE 0)
    BY <1>1, <2>1, CountedFacts
  <2>3. Even(t)
    <3>1. CASE job[t].op = "alloc"
      BY <1>1, <2>1, <2>2, <3>1 DEF Even, UnevenAt, Excess
    <3>2. CASE job[t].op = "free"
      BY <1>1, <2>1, <2>2, <3>2 DEF Even, UnevenAt, Excess
    <3>3. CASE job[t].op \notin {"alloc", "free"}
      BY <1>1, <2>1, <2>2, <3>3 DEF Even, UnevenAt, Excess
    <3> QED BY <3>1, <3>2, <3>3
  <2>4. Unasked(t)
    <3>1. job[t].op # "alloc" /\ job[t].op # "free" => Counted(job[t].op) = mstat
      BY Zenon DEF Counted
    <3> QED BY <2>1, <3>1 DEF Unasked, Allocating
  <2> QED BY <2>3, <2>4
<1>3. CASE DoPrefix(t)
  <2>1. ~Crash(t)
    <3>1. pc'[t] # "crashed"
      BY <1>3, HealthyCall DEF Writing
    <3> QED BY <1>1, <3>1 DEF Crash, Typed
  <2>2. pc[t] = "prefix" /\ pc'[t] = "text" /\ UNCHANGED <<mstat, job, live>>
    BY <1>1, <1>3, <2>1 DEF DoPrefix, Typed
  <2> QED BY <2>2 DEF Even, Unasked, UnevenAt, Excess, Allocating
<1>4. CASE Text(t)
  <2>1. /\ pc[t] = "text" /\ pc'[t] = "run" /\ UNCHANGED mstat
        /\ IF job[t].op = "free" THEN live' = live - 1 ELSE UNCHANGED live
    BY <1>1, <1>4, TextCases DEF Typed
  <2>2. Even(t)
    BY <1>1, <2>1 DEF Even, UnevenAt, Excess
  <2> QED BY <2>1, <2>2 DEF Unasked, Allocating
<1> QED BY <1>2, <1>3, <1>4 DEF Writing

LEMMA GoingBalanced ==
    ASSUME IInv, Balanced, NEW t \in Threads, Fails(t) \/ ReportClose(t)
    PROVE  Balanced'
<1>1. ASSUME NEW u \in Threads
      PROVE  /\ UnevenAt(u)' <=> UnevenAt(u)
             /\ Allocating(u)' => Allocating(u)
             /\ pc'[u] = "compare" => pc[u] = "compare" /\ job'[u] = job[u]
  BY Going DEF UnevenAt, Allocating
<1>2. Uneven' = Uneven /\ Excess' = Excess /\ mstat' = mstat
  BY <1>1, Going DEF Uneven, Excess
<1>3. \A u \in Threads : Asking(u)'
  BY <1>1, <1>2 DEF Balanced, Asking
<1> QED BY <1>2, <1>3 DEF Balanced

LEMMA BalancedStep ==
    ASSUME {"outside", "resume", "leave", "trace", "alone"} \subseteq Contract,
           IInv, Healthy, Balanced, [Next]_vars
    PROVE  Balanced'
<1>1. ASSUME UNCHANGED <<mstat, live, pc, job>>
      PROVE  Balanced'
  BY <1>1 DEF Balanced, Excess, Uneven, UnevenAt, Asking, Allocating
<1>2. CASE UNCHANGED vars
  BY <1>1, <1>2 DEF vars
<1>3. ASSUME NEW t \in Threads, Succeeds(t)
      PROVE  Balanced'
  BY <1>1, <1>3 DEF quiet, Succeeds, Enable, PushControl, Ends, Suspend, Resume, Pops, Process
<1>4. ASSUME NEW t \in Threads, Working(t) \/ Writing(t)
      PROVE  Balanced'
  <2>1. OnlyThread(t) /\ Typed
    BY <1>4, Local DEF IInv
  <2>2. Even(t) /\ Unasked(t)
    BY <1>4, WorkingEven, WritingEven
  <2>3. Excess' = Cardinality(Uneven)'
    BY <2>1, <2>2, EvenStep DEF Balanced
  <2>4. ASSUME NEW u \in Threads, pc'[u] = "compare"
        PROVE  /\ job'[u].alloc_count = mstat'.alloc_count
               /\ \A v \in Threads : ~Allocating(v)'
    <3>1. CASE pc[u] = "compare"
      <4>1. job'[u] = job[u]
        <5>1. u # t
          <6> SUFFICES ASSUME u = t
                       PROVE  FALSE
            OBVIOUS
          <6>1. ~Writing(t)
            BY <3>1 DEF Writing, Acquire, DoPrefix, Text
          <6>2. Working(t) => Compare(t)
            BY <3>1 DEF Working, Enter, Return, ReturnSilently, Doprnt, Dump, Selected, LockFile,
                        UnlockFile, Alloc, Free, MemoryCleaned, Idle
          <6> QED BY <1>4, <2>1, <2>4, <6>1, <6>2 DEF Compare, Typed
        <5> QED BY <2>1, <5>1 DEF OnlyThread
      <4>2. /\ job[u].alloc_count = mstat.alloc_count
            /\ \A v \in Threads : ~Allocating(v)
        BY <3>1 DEF Balanced, Asking
      <4>3. mstat' = mstat /\ ~Allocating(t)'
        BY <2>2, <3>1, <4>2 DEF Unasked
      <4> QED BY <2>1, <4>1, <4>2, <4>3 DEF OnlyThread, Allocating
    <3>2. CASE pc[u] # "compare"
      <4>1. u = t
        BY <2>1, <2>4, <3>2 DEF OnlyThread
      <4>2. MemoryCleaned(t)
        <5>1. ~Writing(t)
          BY <2>1, <2>4, <4>1, TextCases DEF Writing, Acquire, DoPrefix, Crash, Typed
        <5>2. ~UNCHANGED pc /\ \A op, text : ~Begin(t, op, text)
          BY <2>1, <2>4, <3>2, <4>1 DEF Begin, Typed
        <5>3. ~Crash(t) /\ ~Compare(t)
          BY <2>1, <2>4, <4>1 DEF Crash, Compare, Typed
        <5>4. \A f \in Functions : ~Enter(t, f)
          BY <5>2, <5>3 DEF Enter
        <5>5. ~Return(t) /\ ~ReturnSilently(t) /\ ~LockFile(t) /\ ~UnlockFile(t)
          BY <5>2, <5>3 DEF Return, ReturnSilently, LockFile, UnlockFile
        <5>6. \A k \in Keywords : ~Doprnt(t, k) /\ ~Dump(t, k)
          BY <5>2, <5>3 DEF Doprnt, Dump, Selected
        <5>7. ~Alloc(t) /\ ~Free(t)
          BY <5>2, <5>3 DEF Alloc, Free, NoDbAlloc, NoDbFree, vars
        <5> QED BY <1>4, <5>1, <5>3, <5>4, <5>5, <5>6, <5>7 DEF Working
      <4>3. /\ \A v \in Threads : ~Allocating(v)
            /\ mstat' = mstat
            /\ job'[t] = [op |-> "cleaned", text |-> FALSE, alloc_count |-> mstat.alloc_count]
        BY <2>1, <4>2 DEF MemoryCleaned, NobodyAllocates, lines, Typed
      <4>4. job'[t].alloc_count = mstat.alloc_count /\ ~Allocating(t)'
        BY <4>3 DEF Allocating
      <4> QED BY <2>1, <4>1, <4>3, <4>4 DEF OnlyThread, Allocating
    <3> QED BY <3>1, <3>2
  <2> QED BY <2>3, <2>4 DEF Balanced, Asking
<1>5. ASSUME NEW t \in Threads, Fails(t) \/ ReportClose(t)
      PROVE  Balanced'
  BY <1>5, GoingBalanced DEF Healthy
<1> QED BY <1>2, <1>3, <1>4, <1>5, VerbosityCases DEF Next

(* MySKLmemoryCleaned answers TRUE exactly when no block is left, in         *)
(* whichever states of verbosity the blocks were allocated and freed: for    *)
(* all programs that keep to the contract, where "trace" says that a block   *)
(* comes and goes where it is traced or the debugger is off, and "alone"     *)
(* that nobody allocates or frees while somebody asks.                       *)
THEOREM Cleaned ==
    ASSUME {"outside", "resume", "leave", "trace", "alone"} \subseteq Contract
    PROVE  Spec => CleanedIsTrue
<1> DEFINE Answer == \A t \in Threads : pc[t] = "compare" /\ pc'[t] = "run" =>
                        (job'[t].op = "cleaned" <=> live = 0)
<1>1. Init => Balanced
  <2> SUFFICES ASSUME Init
               PROVE  Balanced
    OBVIOUS
  <2>1. Uneven = {}
    BY DEF Init, Uneven, UnevenAt
  <2> QED BY <2>1, FS_EmptySet DEF Init, Balanced, Excess, Asking
<1>2. IInv /\ Healthy /\ Balanced /\ [Next]_vars => Balanced'
  BY BalancedStep
<1>3. IInv /\ Healthy /\ Balanced /\ [Next]_vars => [Answer]_vars
  <2> SUFFICES ASSUME IInv, Balanced, Next, NEW t \in Threads,
                      pc[t] = "compare", pc'[t] = "run"
               PROVE  job'[t].op = "cleaned" <=> live = 0
    OBVIOUS
  <2>1. Typed
    BY DEF IInv
  <2>2. Compare(t)
    <3>1. PICK u \in Threads :
             Succeeds(u) \/ Fails(u) \/ Working(u) \/ Writing(u) \/ ReportClose(u)
      BY VerbosityCases DEF Next
    <3>2. ~(Succeeds(u) \/ Fails(u) \/ ReportClose(u))
      <4>1. ~Succeeds(u)
        BY Present
      <4>2. ~(Fails(u) \/ ReportClose(u))
        BY Going
      <4> QED BY <4>1, <4>2
    <3>3. u = t
      BY <2>1, <3>1, <3>2, Local DEF OnlyThread
    <3>4. ~Writing(t)
      BY DEF Writing, Acquire, DoPrefix, Text
    <3>5. Working(t) => Compare(t)
      BY DEF Working, Enter, Return, ReturnSilently, Doprnt, Dump, Selected, LockFile,
             UnlockFile, Alloc, Free, MemoryCleaned, Idle
    <3> QED BY <3>1, <3>2, <3>3, <3>4, <3>5
  <2>3. /\ job[t].alloc_count = mstat.alloc_count
        /\ \A v \in Threads : ~Allocating(v)
    BY DEF Balanced, Asking
  <2>4. Uneven = {}
    BY <2>3 DEF Uneven, UnevenAt, Allocating
  <2>5. live + mstat.freed_count - mstat.alloc_count = 0
    BY <2>4, FS_EmptySet DEF Balanced, Excess
  <2>6. live = 0 <=> mstat.alloc_count = mstat.freed_count
    <3>1. live \in Nat /\ mstat.alloc_count \in Nat /\ mstat.freed_count \in Nat
      BY <2>1 DEF Typed
    <3>2. live = mstat.alloc_count - mstat.freed_count
      BY <2>5, <3>1
    <3> QED BY <3>1, <3>2
  <2>7. job'[t] = [op |-> IF job[t].alloc_count = mstat.freed_count
                          THEN "cleaned" ELSE "not cleaned", text |-> FALSE]
    BY <2>1, <2>2 DEF Compare, Typed
  <2>8. job'[t].op = IF job[t].alloc_count = mstat.freed_count
                     THEN "cleaned" ELSE "not cleaned"
    <3> DEFINE word == IF job[t].alloc_count = mstat.freed_count THEN "cleaned" ELSE "not cleaned"
    <3>1. job'[t] = [op |-> word, text |-> FALSE]
      BY <2>7
    <3> HIDE DEF word
    <3>2. job'[t].op = word
      BY <3>1
    <3> QED BY <3>2 DEF word
  <2> QED BY <2>3, <2>6, <2>8
<1>4. Spec => []Healthy
  BY StayHealthy
<1>5. Spec => [][Answer]_vars
  <2> HIDE DEF Answer
  <2> QED BY <1>1, <1>2, <1>3, <1>4, Invariance, PTL DEF Spec
<1> QED BY <1>5 DEF CleanedIsTrue
=============================================================================
