-------------------------- MODULE ListLocksProofs --------------------------
(***************************************************************************)
(* Theorems about ListLocks for any finite set of threads, any lists and   *)
(* any calls on them: what every execution keeps, and what it keeps when   *)
(* the program numbers its lists and names them in order.                  *)
(***************************************************************************)
EXTENDS ListLocks, TLAPS, FiniteSetTheorems, WellFoundedInduction

USE LocksAssumption DEF LocksAssumption

-----------------------------------------------------------------------------
(* What is left of a call.  No call has more than six lock operations.      *)
Rest(s, k) == [i \in 1 .. Len(s) - k |-> s[i + k]]

At(s, k, x, i) == IF k < i /\ i <= Len(s) /\ s[i] = x THEN 1 ELSE 0

(* How often operation x comes among those after the first k.               *)
Left(s, k, x) == At(s, k, x, 1) + At(s, k, x, 2) + At(s, k, x, 3)
                   + At(s, k, x, 4) + At(s, k, x, 5) + At(s, k, x, 6)

(* What the operations before have locked and those after will give back.   *)
Reads(s, k, l)  == Left(s, k, r(l)) - Left(s, k, R(l))
Writes(s, k, l) == Left(s, k, w(l)) - Left(s, k, W(l))

(* A call whose check fails keeps its lock; no other does.                  *)
NoCheckFails == \A c \in Calls : c.op # "bad"

(* Thread t is in call c, after k operations, and has the locks it should.  *)
InCall(t, c, k) ==
    LET s == Steps(c)
    IN  /\ k \in 0 .. Len(s)
        /\ todo[t] = Rest(s, k)
        /\ \A l \in Lists : readers[l][t] >= Reads(s, k, l)
        /\ \A l \in Lists : t \in writers[l] <=> Writes(s, k, l) = 1
        /\ NoCheckFails => \A l \in Lists : readers[l][t] = Reads(s, k, l)

(* Thread t has made no call yet.                                           *)
Outside(t) ==
    /\ todo[t] = <<>>
    /\ \A l \in Lists : readers[l][t] = 0 /\ t \notin writers[l]

Somewhere(t) == Outside(t) \/ \E c \in Calls : \E k \in Nat : InCall(t, c, k)

Follows == \A t \in Threads : Somewhere(t)

(* The inductive invariant: every thread is somewhere in a call, with the   *)
(* locks of that place, and no list has two writers.                        *)
IInv ==
    /\ readers \in [Lists -> [Threads -> Nat]]
    /\ writers \in [Lists -> SUBSET Threads]
    /\ DOMAIN todo = Threads
    /\ \A t \in waiting : /\ t \in Threads /\ todo[t] # <<>>
                          /\ Head(todo[t]).do \in {"READER_ENTER", "WRITER_ENTER"}
    /\ \A l \in Lists : \A t, u \in writers[l] : t = u
    /\ Follows

-----------------------------------------------------------------------------
Ops == [do : {"READER_ENTER", "READER_EXIT", "WRITER_ENTER", "WRITER_EXIT"}, list : Lists]

(* The seven shapes of a call.                                              *)
LEMMA StepsAre ==
    ASSUME NEW c \in Calls
    PROVE  \/ c.op = "read" /\ c.list \in Lists /\ Steps(c) = Reading(c.list)
           \/ c.op = "write" /\ c.list \in Lists /\ Steps(c) = Writing(c.list)
           \/ c.op = "bad" /\ c.list \in Lists /\ Steps(c) = CheckFails(c.list)
           \/ /\ c.op \in {"copy", "joinAD"} /\ c.source \in Lists /\ c.target \in Lists
              /\ Steps(c) = Copy(c.source, c.target)
           \/ /\ c.op = "joinND" /\ c.source \in Lists /\ c.target \in Lists
              /\ Steps(c) = JoinND(c.target, c.source)
           \/ /\ c.op = "intersect"
              /\ c.source1 \in Lists /\ c.source2 \in Lists /\ c.target \in Lists
              /\ Steps(c) = Intersect(c.source1, c.source2, c.target)
<1>1. CASE c.op = "read"
  BY <1>1 DEF Steps
<1>2. CASE c.op = "write"
  BY <1>2 DEF Steps
<1>3. CASE c.op = "bad"
  BY <1>3 DEF Steps
<1>4. CASE c.op = "copy"
  BY <1>4 DEF Steps
<1>5. CASE c.op = "joinAD"
  BY <1>5 DEF Steps, JoinAD, Copy
<1>6. CASE c.op = "joinND"
  BY <1>6 DEF Steps
<1>7. CASE c.op = "intersect"
  BY <1>7 DEF Steps
<1> QED BY <1>1, <1>2, <1>3, <1>4, <1>5, <1>6, <1>7

(* No call has more than six operations.                                    *)
LEMMA StepsLength ==
    ASSUME NEW c \in Calls
    PROVE  Len(Steps(c)) \in 1 .. 6
BY StepsAre DEF Reading, Writing, CheckFails, Copy, JoinND, Intersect

(* Every operation is on a list.                                            *)
LEMMA StepsOnLists ==
    ASSUME NEW c \in Calls, NEW i \in 1 .. Len(Steps(c))
    PROVE  \E l \in Lists : Steps(c)[i] \in {R(l), r(l), W(l), w(l)}
<1>1. CASE Steps(c) = Reading(c.list) /\ c.list \in Lists
  BY <1>1 DEF Reading
<1>2. CASE Steps(c) = Writing(c.list) /\ c.list \in Lists
  BY <1>2 DEF Writing
<1>3. CASE Steps(c) = CheckFails(c.list) /\ c.list \in Lists
  BY <1>3 DEF CheckFails
<1>4. CASE Steps(c) = Copy(c.source, c.target) /\ c.source \in Lists /\ c.target \in Lists
  BY <1>4 DEF Copy
<1>5. CASE Steps(c) = JoinND(c.target, c.source) /\ c.source \in Lists /\ c.target \in Lists
  BY <1>5 DEF JoinND
<1>6. CASE /\ Steps(c) = Intersect(c.source1, c.source2, c.target)
           /\ c.source1 \in Lists /\ c.source2 \in Lists /\ c.target \in Lists
  BY <1>6 DEF Intersect
<1> QED BY StepsAre, <1>1, <1>2, <1>3, <1>4, <1>5, <1>6

(* A call owes nothing before its first operation, gives back what it has   *)
(* locked, and has what it is about to give back.                           *)
LEMMA StepsBalance ==
    ASSUME NEW c \in Calls, NEW l \in Lists
    PROVE  LET s == Steps(c)
           IN  /\ Reads(s, 0, l) <= 0 /\ Writes(s, 0, l) = 0
               /\ c.op # "bad" => Reads(s, 0, l) = 0
               /\ \A k \in 0 .. Len(s) - 1 :
                     /\ s[k + 1] = r(l) => Reads(s, k, l) >= 1
                     /\ s[k + 1] = w(l) => Writes(s, k, l) = 1
                     /\ s[k + 1] = W(l) => Writes(s, k, l) = 0
<1> USE DEF R, r, W, w, Reads, Writes, Left, At
<1>1. CASE Steps(c) = Reading(c.list) /\ c.list \in Lists
  BY <1>1 DEF Reading
<1>2. CASE Steps(c) = Writing(c.list) /\ c.list \in Lists
  BY <1>2 DEF Writing
<1>3. CASE Steps(c) = CheckFails(c.list) /\ c.list \in Lists /\ c.op = "bad"
  BY <1>3 DEF CheckFails
<1>4. CASE Steps(c) = Copy(c.source, c.target) /\ c.source \in Lists /\ c.target \in Lists
  BY <1>4 DEF Copy
<1>5. CASE Steps(c) = JoinND(c.target, c.source) /\ c.source \in Lists /\ c.target \in Lists
  BY <1>5 DEF JoinND
<1>6. CASE /\ Steps(c) = Intersect(c.source1, c.source2, c.target)
           /\ c.source1 \in Lists /\ c.source2 \in Lists /\ c.target \in Lists
  BY <1>6 DEF Intersect
<1> QED BY StepsAre, <1>1, <1>2, <1>3, <1>4, <1>5, <1>6

-----------------------------------------------------------------------------
(* Where a thread is.                                                       *)

(* One operation on: the head of what is left is done, its tail remains.    *)
LEMMA RestMoves ==
    ASSUME NEW c \in Calls, NEW k \in Nat, NEW t \in Threads,
           InCall(t, c, k), todo[t] # <<>>
    PROVE  LET s == Steps(c)
           IN  /\ k + 1 \in 1 .. Len(s)
               /\ Head(todo[t]) = s[k + 1]
               /\ Tail(todo[t]) = Rest(s, k + 1)
               /\ \A x : Left(s, k, x) = Left(s, k + 1, x) + (IF s[k + 1] = x THEN 1 ELSE 0)
<1> DEFINE s == Steps(c)
<1>1. Len(s) \in 1 .. 6
  BY StepsLength
<1>2. k \in 0 .. Len(s) /\ todo[t] = Rest(s, k)
  BY DEF InCall
<1>3. k < Len(s)
  BY <1>1, <1>2 DEF Rest
<1>4. Head(todo[t]) = s[k + 1] /\ Tail(todo[t]) = Rest(s, k + 1)
  BY <1>1, <1>2, <1>3, SMTT(30) DEF Rest
<1>5. ASSUME NEW x
      PROVE  Left(s, k, x) = Left(s, k + 1, x) + (IF s[k + 1] = x THEN 1 ELSE 0)
  BY <1>1, <1>2, <1>3 DEF Left, At
<1> QED BY <1>2, <1>3, <1>4, <1>5

(* Nothing is left to give back when nothing is left to do.                 *)
LEMMA RestEnds ==
    ASSUME NEW c \in Calls, NEW k \in Nat, NEW t \in Threads, NEW l \in Lists,
           InCall(t, c, k), todo[t] = <<>>
    PROVE  Reads(Steps(c), k, l) = 0 /\ Writes(Steps(c), k, l) = 0
<1> DEFINE s == Steps(c)
<1>1. Len(s) \in 1 .. 6 /\ k \in 0 .. Len(s) /\ todo[t] = Rest(s, k)
  BY StepsLength DEF InCall
<1>2. k = Len(s)
  BY <1>1 DEF Rest
<1> QED BY <1>1, <1>2 DEF Reads, Writes, Left, At

(* A thread stays where it is while the others move.                        *)
LEMMA OthersStay ==
    ASSUME IInv, NEW t \in Threads,
           \A u \in Threads \ {t} :
              /\ todo'[u] = todo[u]
              /\ \A l \in Lists : /\ readers'[l][u] = readers[l][u]
                                  /\ u \in writers'[l] <=> u \in writers[l],
           Somewhere(t)'
    PROVE  Follows'
<1>1. ASSUME NEW u \in Threads \ {t}, Outside(u) PROVE Somewhere(u)'
  BY <1>1 DEF Somewhere, Outside
<1>2. ASSUME NEW u \in Threads \ {t}, NEW c \in Calls, NEW k \in Nat, InCall(u, c, k)
      PROVE  Somewhere(u)'
  <2>1. InCall(u, c, k)'
    BY <1>2 DEF InCall, NoCheckFails
  <2> QED BY <2>1 DEF Somewhere
<1>3. \A u \in Threads : Somewhere(u)'
  BY <1>1, <1>2 DEF IInv, Follows, Somewhere
<1> QED BY <1>3 DEF Follows

LEMMA InitIInv == Init => IInv
BY DEF Init, IInv, Follows, Somewhere, Outside

(* A call begins with nothing locked that it does not give back, except by  *)
(* a check that failed before.                                              *)
LEMMA BeginKeeps ==
    ASSUME IInv, NEW t \in Threads, NEW c \in Calls, Begin(t, c)
    PROVE  IInv'
<1> DEFINE s == Steps(c)
<1>1. todo[t] = <<>> /\ todo' = [todo EXCEPT ![t] = s]
      /\ readers' = readers /\ writers' = writers /\ waiting' = waiting
  BY DEF Begin
<1>2. /\ \A l \in Lists : t \notin writers[l]
      /\ NoCheckFails => \A l \in Lists : readers[l][t] = 0
  <2>1. CASE Outside(t)
    BY <2>1 DEF Outside
  <2>2. ASSUME NEW d \in Calls, NEW j \in Nat, InCall(t, d, j)
        PROVE  /\ \A l \in Lists : t \notin writers[l]
               /\ NoCheckFails => \A l \in Lists : readers[l][t] = 0
    BY <1>1, <2>2, RestEnds DEF InCall
  <2> QED BY <2>1, <2>2 DEF IInv, Follows, Somewhere
<1>3. todo'[t] = Rest(s, 0)
  BY <1>1, StepsAre DEF IInv, Rest, Reading, Writing, CheckFails, Copy, JoinND, Intersect
<1>4. InCall(t, c, 0)'
  <2>1. \A l \in Lists : Reads(s, 0, l) <= 0 /\ Writes(s, 0, l) = 0
    BY StepsBalance
  <2>2. NoCheckFails => \A l \in Lists : Reads(s, 0, l) = 0
    BY StepsBalance DEF NoCheckFails
  <2>3. \A l \in Lists : Reads(s, 0, l) \in Int
    BY DEF Reads, Left, At
  <2>4. \A l \in Lists : readers'[l][t] \in Nat
    BY <1>1 DEF IInv
  <2>5. \A l \in Lists : readers'[l][t] >= Reads(s, 0, l)
    BY <2>1, <2>3, <2>4
  <2>6. \A l \in Lists : t \in writers'[l] <=> Writes(s, 0, l) = 1
    BY <1>1, <1>2, <2>1
  <2>7. NoCheckFails => \A l \in Lists : readers'[l][t] = Reads(s, 0, l)
    BY <1>1, <1>2, <2>2
  <2>8. 0 \in 0 .. Len(s)
    BY StepsLength
  <2> QED BY <1>3, <2>5, <2>6, <2>7, <2>8 DEF InCall, NoCheckFails
<1>5. Follows'
  <2>1. Somewhere(t)'
    BY <1>4 DEF Somewhere
  <2> QED BY <1>1, <2>1, OthersStay DEF IInv
<1>6. \A u \in waiting : /\ u \in Threads /\ todo'[u] # <<>>
                          /\ Head(todo'[u]).do \in {"READER_ENTER", "WRITER_ENTER"}
  <2>1. t \notin waiting
    BY <1>1 DEF IInv
  <2> QED BY <1>1, <2>1 DEF IInv
<1> QED BY <1>1, <1>5, <1>6 DEF IInv

(* Whom a thread has to wait for, operation by operation.                   *)
LEMMA BlockersAre ==
    ASSUME NEW t, NEW l
    PROVE  /\ Head(todo[t]) = R(l) =>
                 Blockers(t) = writers[l] \cup (IF WritersFirst THEN WriteWaiters(l) ELSE {})
           /\ Head(todo[t]) = W(l) => Blockers(t) = writers[l] \cup Readers(l)
<1>1. R(l).list = l /\ W(l).list = l /\ R(l) # W(l)
  BY DEF R, W
<1>2. CASE Head(todo[t]) = R(l)
  BY <1>1, <1>2 DEF Blockers
<1>3. CASE Head(todo[t]) = W(l)
  BY <1>1, <1>3 DEF Blockers
<1> QED BY <1>1, <1>2, <1>3

Bit(b) == IF b THEN 1 ELSE 0

(* An operation that does to the locks what it says moves its thread on.    *)
LEMMA AdvanceMoves ==
    ASSUME IInv, NEW t \in Threads, NEW c \in Calls, NEW k \in Nat, InCall(t, c, k),
           todo[t] # <<>>, Advance(t),
           \A l \in Lists : readers'[l][t] = readers[l][t] + Bit(Head(todo[t]) = R(l))
                                                          - Bit(Head(todo[t]) = r(l)),
           \A l \in Lists : Head(todo[t]) = W(l) => t \in writers'[l],
           \A l \in Lists : Head(todo[t]) = w(l) => t \notin writers'[l],
           \A l \in Lists : Head(todo[t]) \notin {W(l), w(l)} =>
                              (t \in writers'[l] <=> t \in writers[l])
    PROVE  Somewhere(t)'
<1> DEFINE s == Steps(c)
           op == s[k + 1]
<1>1. /\ k + 1 \in 1 .. Len(s) /\ k \in 0 .. Len(s) - 1
      /\ Head(todo[t]) = op
      /\ Tail(todo[t]) = Rest(s, k + 1)
      /\ \A x : Left(s, k, x) = Left(s, k + 1, x) + Bit(op = x)
  BY RestMoves, StepsLength DEF Bit
<1>2. \A x : Left(s, k, x) \in Int /\ Left(s, k + 1, x) \in Int
  BY DEF Left, At
<1>3. todo'[t] = Rest(s, k + 1)
  BY <1>1 DEF Advance, IInv
<1>4. ASSUME NEW l \in Lists
      PROVE  /\ Reads(s, k + 1, l) = Reads(s, k, l) + Bit(op = R(l)) - Bit(op = r(l))
             /\ Writes(s, k + 1, l) = Writes(s, k, l) + Bit(op = W(l)) - Bit(op = w(l))
             /\ Reads(s, k, l) \in Int /\ Writes(s, k, l) \in Int
  <2>1. /\ Left(s, k, R(l)) = Left(s, k + 1, R(l)) + Bit(op = R(l))
        /\ Left(s, k, r(l)) = Left(s, k + 1, r(l)) + Bit(op = r(l))
        /\ Left(s, k, W(l)) = Left(s, k + 1, W(l)) + Bit(op = W(l))
        /\ Left(s, k, w(l)) = Left(s, k + 1, w(l)) + Bit(op = w(l))
    BY <1>1
  <2>2. /\ Left(s, k, R(l)) \in Int /\ Left(s, k + 1, R(l)) \in Int
        /\ Left(s, k, r(l)) \in Int /\ Left(s, k + 1, r(l)) \in Int
    BY <1>2
  <2>3. /\ Left(s, k, W(l)) \in Int /\ Left(s, k + 1, W(l)) \in Int
        /\ Left(s, k, w(l)) \in Int /\ Left(s, k + 1, w(l)) \in Int
    BY <1>2
  <2>4. Bit(op = R(l)) \in Int /\ Bit(op = r(l)) \in Int /\ Bit(op = W(l)) \in Int /\ Bit(op = w(l)) \in Int
    BY DEF Bit
  <2>5. /\ Reads(s, k + 1, l) = Reads(s, k, l) + Bit(op = R(l)) - Bit(op = r(l))
        /\ Reads(s, k, l) \in Int
    BY <2>1, <2>2, <2>4 DEF Reads
  <2>6. /\ Writes(s, k + 1, l) = Writes(s, k, l) + Bit(op = W(l)) - Bit(op = w(l))
        /\ Writes(s, k, l) \in Int
    BY <2>1, <2>3, <2>4 DEF Writes
  <2> QED BY <2>5, <2>6
<1>5. \A l \in Lists : readers'[l][t] >= Reads(s, k + 1, l)
  <2> SUFFICES ASSUME NEW l \in Lists PROVE readers'[l][t] >= Reads(s, k + 1, l)
    OBVIOUS
  <2>1. readers[l][t] \in Nat /\ readers[l][t] >= Reads(s, k, l)
    BY DEF IInv, InCall
  <2>2. readers'[l][t] = readers[l][t] + Bit(op = R(l)) - Bit(op = r(l))
    BY <1>1
  <2>3. Bit(op = R(l)) \in Int /\ Bit(op = r(l)) \in Int
    BY DEF Bit
  <2> QED BY <1>4, <2>1, <2>2, <2>3
<1>6. NoCheckFails => \A l \in Lists : readers'[l][t] = Reads(s, k + 1, l)
  <2> SUFFICES ASSUME NoCheckFails, NEW l \in Lists
               PROVE  readers'[l][t] = Reads(s, k + 1, l)
    OBVIOUS
  <2>1. readers[l][t] = Reads(s, k, l)
    BY DEF InCall
  <2>2. readers'[l][t] = readers[l][t] + Bit(op = R(l)) - Bit(op = r(l))
    BY <1>1
  <2> QED BY <1>4, <2>1, <2>2
<1>7. \A l \in Lists : t \in writers'[l] <=> Writes(s, k + 1, l) = 1
  <2> SUFFICES ASSUME NEW l \in Lists PROVE t \in writers'[l] <=> Writes(s, k + 1, l) = 1
    OBVIOUS
  <2>1. t \in writers[l] <=> Writes(s, k, l) = 1
    BY DEF InCall
  <2>2. W(l) # w(l) /\ (op = W(l) => Writes(s, k, l) = 0) /\ (op = w(l) => Writes(s, k, l) = 1)
    BY <1>1, StepsBalance DEF W, w
  <2>3. CASE op = W(l)
    <3>1. Bit(op = W(l)) = 1 /\ Bit(op = w(l)) = 0
      BY <2>2, <2>3 DEF Bit
    <3>2. t \in writers'[l]
      BY <1>1, <2>3
    <3> QED BY <1>4, <2>2, <2>3, <3>1, <3>2
  <2>4. CASE op = w(l)
    <3>1. Bit(op = W(l)) = 0 /\ Bit(op = w(l)) = 1
      BY <2>2, <2>4 DEF Bit
    <3>2. t \notin writers'[l]
      BY <1>1, <2>4
    <3> QED BY <1>4, <2>2, <2>4, <3>1, <3>2
  <2>5. CASE op \notin {W(l), w(l)}
    <3>1. Bit(op = W(l)) = 0 /\ Bit(op = w(l)) = 0
      BY <2>5 DEF Bit
    <3>2. t \in writers'[l] <=> t \in writers[l]
      BY <1>1, <2>5
    <3> QED BY <1>4, <2>1, <3>1, <3>2
  <2> QED BY <2>3, <2>4, <2>5
<1>8. InCall(t, c, k + 1)'
  <2>1. k + 1 \in 0 .. Len(s)
    BY <1>1
  <2> QED BY <1>3, <1>5, <1>6, <1>7, <2>1 DEF InCall, NoCheckFails
<1> QED BY <1>8 DEF Somewhere

(* The four operations keep the invariant where the lock may be taken, or   *)
(* is there to be given back.                                               *)
LEMMA OperationKeeps ==
    ASSUME IInv, NEW t \in Threads, NEW l \in Lists,
           todo[t] # <<>>, Advance(t), waiting' = waiting \ {t},
           \/ /\ Head(todo[t]) = R(l)
              /\ readers' = [readers EXCEPT ![l][t] = @ + 1] /\ writers' = writers
           \/ /\ Head(todo[t]) = r(l) /\ readers[l][t] >= 1
              /\ readers' = [readers EXCEPT ![l][t] = @ - 1] /\ writers' = writers
           \/ /\ Head(todo[t]) = W(l) /\ writers[l] = {}
              /\ writers' = [writers EXCEPT ![l] = {t}] /\ readers' = readers
           \/ /\ Head(todo[t]) = w(l) /\ t \in writers[l]
              /\ writers' = [writers EXCEPT ![l] = {}] /\ readers' = readers
    PROVE  IInv'
<1> DEFINE h == Head(todo[t])
<1>1. PICK c \in Calls, k \in Nat : InCall(t, c, k)
  BY DEF IInv, Follows, Somewhere, Outside
<1>2. /\ readers' \in [Lists -> [Threads -> Nat]]
      /\ \A m \in Lists, u \in Threads : u # t => readers'[m][u] = readers[m][u]
      /\ \A m \in Lists : readers'[m][t] = readers[m][t] + Bit(h = R(m)) - Bit(h = r(m))
  <2>1. CASE h = R(l) /\ readers' = [readers EXCEPT ![l][t] = @ + 1]
    <3>1. \A m \in Lists : (h = R(m) <=> m = l) /\ h # r(m)
      BY <2>1 DEF R, r
    <3> QED BY <2>1, <3>1 DEF IInv, Bit
  <2>2. CASE h = r(l) /\ readers[l][t] >= 1 /\ readers' = [readers EXCEPT ![l][t] = @ - 1]
    <3>1. \A m \in Lists : (h = r(m) <=> m = l) /\ h # R(m)
      BY <2>2 DEF R, r
    <3>2. readers[l][t] - 1 \in Nat
      BY <2>2 DEF IInv
    <3>3. readers' \in [Lists -> [Threads -> Nat]]
      BY <2>2, <3>2 DEF IInv
    <3>4. \A m \in Lists, u \in Threads : u # t => readers'[m][u] = readers[m][u]
      BY <2>2 DEF IInv
    <3>5. \A m \in Lists : readers'[m][t] = readers[m][t] - (IF m = l THEN 1 ELSE 0)
      BY <2>2 DEF IInv
    <3>6. \A m \in Lists : Bit(h = R(m)) = 0 /\ Bit(h = r(m)) = IF m = l THEN 1 ELSE 0
      BY <3>1 DEF Bit
    <3>7. ASSUME NEW m \in Lists
          PROVE  readers'[m][t] = readers[m][t] + Bit(h = R(m)) - Bit(h = r(m))
      BY <3>5, <3>6 DEF IInv
    <3> QED BY <3>3, <3>4, <3>7
  <2>3. CASE h \in {W(l), w(l)} /\ readers' = readers
    <3>1. \A m \in Lists : h # r(m) /\ h # R(m)
      BY <2>3 DEF R, r, W, w
    <3> QED BY <2>3, <3>1 DEF IInv, Bit
  <2> QED BY <2>1, <2>2, <2>3
<1>3. /\ writers' \in [Lists -> SUBSET Threads]
      /\ \A m \in Lists : \A u, v \in writers'[m] : u = v
      /\ \A m \in Lists : \A u \in Threads : u # t => (u \in writers'[m] <=> u \in writers[m])
  <2>1. CASE writers' = writers
    BY <2>1 DEF IInv
  <2>2. CASE writers[l] = {} /\ writers' = [writers EXCEPT ![l] = {t}]
    BY <2>2 DEF IInv
  <2>3. CASE t \in writers[l] /\ writers' = [writers EXCEPT ![l] = {}]
    BY <2>3 DEF IInv
  <2> QED BY <2>1, <2>2, <2>3
<1>4. \A m \in Lists : h = W(m) => t \in writers'[m]
  BY DEF IInv, R, r, W, w
<1>5. \A m \in Lists : h = w(m) => t \notin writers'[m]
  <2>1. CASE h = w(l) /\ writers' = [writers EXCEPT ![l] = {}]
    <3>1. \A m \in Lists : h = w(m) => m = l
      BY <2>1 DEF w
    <3> QED BY <2>1, <3>1 DEF IInv
  <2>2. CASE h \in {R(l), r(l), W(l)}
    BY <2>2 DEF R, r, W, w
  <2> QED BY <2>1, <2>2
<1>6. \A m \in Lists : h \notin {W(m), w(m)} => (t \in writers'[m] <=> t \in writers[m])
  <2>1. CASE writers' = writers
    BY <2>1
  <2>2. CASE h \in {W(l), w(l)} /\ \A m \in Lists \ {l} : writers'[m] = writers[m]
    BY <2>2
  <2> QED BY <2>1, <2>2 DEF IInv
<1>7. Somewhere(t)'
  BY <1>1, <1>2, <1>4, <1>5, <1>6, AdvanceMoves
<1>8. DOMAIN todo' = Threads /\ \A u \in Threads \ {t} : todo'[u] = todo[u]
  BY DEF Advance, IInv
<1>9. Follows'
  BY <1>2, <1>3, <1>7, <1>8, OthersStay
<1> QED BY <1>2, <1>3, <1>8, <1>9 DEF IInv

(* READER_ENTER and WRITER_ENTER find the lock free.                        *)
LEMMA EnterKeeps ==
    ASSUME IInv, NEW t \in Threads, Enter(t)
    PROVE  IInv'
<1>1. \A l \in Lists : Head(todo[t]) = W(l) => writers[l] = {}
  BY BlockersAre, ZenonT(40) DEF Enter
<1> QED BY <1>1, OperationKeeps DEF Enter

(* READER_EXIT and WRITER_EXIT find the lock taken by their thread.         *)
LEMMA ExitKeeps ==
    ASSUME IInv, NEW t \in Threads, Exit(t)
    PROVE  IInv'
<1>1. PICK c \in Calls, k \in Nat : InCall(t, c, k)
  BY DEF IInv, Follows, Somewhere, Outside, Exit
<1> DEFINE s == Steps(c)
<1>2. k \in 0 .. Len(s) - 1 /\ Head(todo[t]) = s[k + 1]
  BY <1>1, RestMoves, StepsLength DEF Exit
<1>3. \A l \in Lists : Head(todo[t]) = r(l) => readers[l][t] >= 1
  <2> SUFFICES ASSUME NEW l \in Lists, Head(todo[t]) = r(l) PROVE readers[l][t] >= 1
    OBVIOUS
  <2>1. readers[l][t] \in Nat /\ readers[l][t] >= Reads(s, k, l) /\ Reads(s, k, l) \in Int
    BY <1>1 DEF IInv, InCall, Reads, Left, At
  <2>2. Reads(s, k, l) >= 1
    BY <1>2, StepsBalance
  <2> QED BY <2>1, <2>2
<1>4. \A l \in Lists : Head(todo[t]) = w(l) => t \in writers[l]
  BY <1>1, <1>2, StepsBalance DEF InCall
<1>5. waiting = waiting \ {t}
  <2>1. Head(todo[t]).do \in {"READER_EXIT", "WRITER_EXIT"}
    BY DEF Exit, r, w
  <2>2. t \notin waiting
    BY <2>1 DEF IInv
  <2> QED BY <2>2
<1> QED BY <1>3, <1>4, <1>5, OperationKeeps DEF Exit

(* A thread that has to wait waits for a lock it wants to take.             *)
LEMMA WaitKeeps ==
    ASSUME IInv, NEW t \in Threads, Wait(t)
    PROVE  IInv'
<1>1. todo[t] # <<>> /\ Blockers(t) # {} /\ waiting' = waiting \cup {t}
  BY DEF Wait
<1>2. Head(todo[t]).do \in {"READER_ENTER", "WRITER_ENTER"}
  BY <1>1 DEF Blockers, R, W
<1>3. Follows'
  <2>1. ASSUME NEW u \in Threads, Outside(u) PROVE Outside(u)'
    BY <2>1 DEF Wait, Outside
  <2>2. ASSUME NEW u \in Threads, NEW c \in Calls, NEW k \in Nat, InCall(u, c, k)
        PROVE  InCall(u, c, k)'
    BY <2>2 DEF Wait, InCall, NoCheckFails
  <2>3. \A u \in Threads : Somewhere(u)'
    BY <2>1, <2>2 DEF IInv, Follows, Somewhere
  <2> QED BY <2>3 DEF Follows
<1> QED BY <1>1, <1>2, <1>3 DEF Wait, IInv

(* IInv is inductive, so it holds at every point of every execution.        *)
THEOREM Invariance == Spec => []IInv
<1>1. IInv /\ [Next]_vars => IInv'
  <2> SUFFICES ASSUME IInv, [Next]_vars PROVE IInv'
    OBVIOUS
  <2>1. ASSUME NEW t \in Threads, NEW c \in Calls, Begin(t, c) PROVE IInv'
    BY <2>1, BeginKeeps
  <2>2. ASSUME NEW t \in Threads, Wait(t) PROVE IInv'
    BY <2>2, WaitKeeps
  <2>3. ASSUME NEW t \in Threads, Enter(t) PROVE IInv'
    BY <2>3, EnterKeeps
  <2>4. ASSUME NEW t \in Threads, Exit(t) PROVE IInv'
    BY <2>4, ExitKeeps
  <2>5. CASE UNCHANGED vars
    <3>1. \A t \in Threads : Somewhere(t)'
      <4>1. ASSUME NEW t \in Threads, Outside(t) PROVE Outside(t)'
        BY <2>5, <4>1 DEF vars, Outside
      <4>2. ASSUME NEW t \in Threads, NEW c \in Calls, NEW k \in Nat, InCall(t, c, k)
            PROVE  InCall(t, c, k)'
        BY <2>5, <4>2 DEF vars, InCall, NoCheckFails
      <4> QED BY <4>1, <4>2 DEF IInv, Follows, Somewhere
    <3> QED BY <2>5, <3>1 DEF vars, IInv, Follows
  <2> QED BY <2>1, <2>2, <2>3, <2>4, <2>5 DEF Next
<1> QED BY InitIInv, <1>1, PTL DEF Spec

-----------------------------------------------------------------------------
(* No call gives back a lock it does not have, and every thread asleep is in *)
(* a call: whatever the calls, and even when their checks fail.              *)
THEOREM Typing == Spec => []TypeOK
<1>1. IInv => TypeOK
  BY DEF IInv, TypeOK
<1> QED BY Invariance, <1>1, PTL

(* A call that has returned has left nothing locked, provided that no check  *)
(* fails between READER_ENTER and the work (MySKLsearchALL and others return *)
(* there without READER_EXIT).                                               *)
THEOREM Balance ==
    ASSUME NoCheckFails
    PROVE  Spec => []IdleHoldsNothing
<1>1. IInv => IdleHoldsNothing
  <2> SUFFICES ASSUME IInv, NEW t \in Threads, todo[t] = <<>>, NEW l \in Lists
               PROVE  readers[l][t] = 0 /\ t \notin writers[l]
    BY DEF IdleHoldsNothing
  <2>1. CASE Outside(t)
    BY <2>1 DEF Outside
  <2>2. ASSUME NEW c \in Calls, NEW k \in Nat, InCall(t, c, k)
        PROVE  readers[l][t] = 0 /\ t \notin writers[l]
    BY <2>2, RestEnds DEF InCall
  <2> QED BY <2>1, <2>2 DEF IInv, Follows, Somewhere
<1> QED BY <1>1, Invariance, PTL

-----------------------------------------------------------------------------
(* Deadlock.  A program orders its lists if it numbers them so that every    *)
(* call locks them in ascending order.                                      *)
Ordered ==
    /\ Lists \subseteq Int
    /\ \A c \in Calls :
          /\ c.op \in {"copy", "joinAD", "joinND"} => c.source < c.target
          /\ c.op = "intersect" => c.source1 < c.source2 /\ c.source2 < c.target

(* A thread that wants a lock has only locks of lists before it.            *)
LEMMA CallsClimb ==
    ASSUME Ordered, NEW c \in Calls, NEW k \in 0 .. Len(Steps(c)) - 1,
           NEW l \in Lists, NEW m \in Lists, Steps(c)[k + 1] \in {R(l), W(l)},
           Reads(Steps(c), k, m) > 0 \/ Writes(Steps(c), k, m) = 1
    PROVE  m < l
<1> USE DEF Ordered, R, r, W, w, Reads, Writes, Left, At
<1>1. CASE Steps(c) = Reading(c.list) /\ c.list \in Lists
  BY <1>1 DEF Reading
<1>2. CASE Steps(c) = Writing(c.list) /\ c.list \in Lists
  BY <1>2 DEF Writing
<1>3. CASE Steps(c) = CheckFails(c.list) /\ c.list \in Lists
  BY <1>3 DEF CheckFails
<1>4. CASE /\ Steps(c) = Copy(c.source, c.target) /\ c.op \in {"copy", "joinAD"}
           /\ c.source \in Lists /\ c.target \in Lists
  BY <1>4 DEF Copy
<1>5. CASE /\ Steps(c) = JoinND(c.target, c.source) /\ c.op = "joinND"
           /\ c.source \in Lists /\ c.target \in Lists
  BY <1>5 DEF JoinND
<1>6. CASE /\ Steps(c) = Intersect(c.source1, c.source2, c.target) /\ c.op = "intersect"
           /\ c.source1 \in Lists /\ c.source2 \in Lists /\ c.target \in Lists
  <2>1. CASE k = 0
    BY <1>6, <2>1 DEF Intersect
  <2>2. CASE k = 1
    BY <1>6, <2>2 DEF Intersect
  <2>3. CASE k = 2
    <3>1. l = c.target
      BY <1>6, <2>3 DEF Intersect
    <3>2. Reads(Steps(c), 2, m) > 0 => m \in {c.source1, c.source2}
      BY <1>6 DEF Intersect
    <3>3. Writes(Steps(c), 2, m) # 1
      BY <1>6 DEF Intersect
    <3>4. c.source1 < l /\ c.source2 < l
      <4>1. /\ c.source1 \in Int /\ c.source2 \in Int /\ c.target \in Int
            /\ c.source1 < c.source2 /\ c.source2 < c.target
        BY <1>6
      <4>2. \A a, b, d \in Int : a < b /\ b < d => a < d
        OBVIOUS
      <4> QED BY <3>1, <4>1, <4>2
    <3> HIDE DEF Reads, Writes
    <3> QED BY <2>3, <3>2, <3>3, <3>4
  <2>4. CASE k \in 3 .. 5
    BY <1>6, <2>4 DEF Intersect
  <2>5. Len(Steps(c)) = 6
    BY <1>6 DEF Intersect
  <2> QED BY <2>1, <2>2, <2>3, <2>4, <2>5
<1> QED BY StepsAre, <1>1, <1>2, <1>3, <1>4, <1>5, <1>6

(* The list of the operation that comes next.                               *)
Target(t) == Head(todo[t]).list

Entering(t) == todo[t] # <<>> /\ Head(todo[t]) \in {R(Target(t)), W(Target(t))}

(* A thread that has a list is on the way to one after it.                  *)
LEMMA OwnersClimb ==
    ASSUME IInv, Ordered, NoCheckFails, NEW t \in Threads, Entering(t)
    PROVE  /\ Target(t) \in Lists /\ Target(t) \in Int
           /\ \A l \in Lists : readers[l][t] > 0 \/ t \in writers[l] => l < Target(t)
<1>1. PICK c \in Calls, k \in Nat : InCall(t, c, k)
  BY DEF IInv, Follows, Somewhere, Outside, Entering
<1> DEFINE s == Steps(c)
<1>2. k \in 0 .. Len(s) - 1 /\ Head(todo[t]) = s[k + 1]
  BY <1>1, RestMoves, StepsLength DEF Entering
<1>3. PICK m \in Lists : s[k + 1] \in {R(m), W(m)}
  BY <1>2, StepsOnLists DEF Entering, R, r, W, w
<1>4. Target(t) = m
  BY <1>2, <1>3 DEF Target, R, W
<1>5. ASSUME NEW l \in Lists, readers[l][t] > 0 \/ t \in writers[l] PROVE l < m
  <2>1. Reads(s, k, l) > 0 \/ Writes(s, k, l) = 1
    BY <1>1, <1>5 DEF InCall
  <2> QED BY <1>2, <1>3, <2>1, CallsClimb
<1> QED BY <1>4, <1>5 DEF Ordered

(* A blocker has the list, or waits to have it for writing.                 *)
LEMMA BlockersClimb ==
    ASSUME IInv, Ordered, NoCheckFails, NEW t \in Threads, Entering(t),
           NEW u \in Blockers(t)
    PROVE  /\ u \in Threads
           /\ \/ Entering(u) => Target(u) \in Int /\ Target(t) < Target(u)
              \/ Head(todo[t]) = R(Target(t)) /\ Head(todo[u]) = W(Target(t))
<1> DEFINE l == Target(t)
<1>1. l \in Lists
  BY OwnersClimb
<1>2. ASSUME u \in Threads, readers[l][u] > 0 \/ u \in writers[l], Entering(u)
      PROVE  Target(u) \in Int /\ l < Target(u)
  BY <1>1, <1>2, OwnersClimb
<1>3. CASE Head(todo[t]) = R(l)
  <2>1. u \in writers[l] \cup WriteWaiters(l)
    BY <1>3, BlockersAre
  <2>2. CASE u \in writers[l]
    BY <1>1, <1>2, <2>2 DEF IInv
  <2>3. CASE u \in WriteWaiters(l)
    BY <1>3, <2>3 DEF WriteWaiters, IInv
  <2> QED BY <2>1, <2>2, <2>3
<1>4. CASE Head(todo[t]) = W(l)
  <2>1. u \in writers[l] \cup Readers(l)
    BY <1>4, BlockersAre
  <2> QED BY <1>1, <1>2, <2>1 DEF IInv, Readers
<1> QED BY <1>3, <1>4 DEF Entering

(* Of some threads that all want a list, one wants a list that none of the  *)
(* others goes beyond.                                                      *)
LEMMA FurthestUp ==
    ASSUME NEW S \in SUBSET Threads, S # {}, \A t \in S : Target(t) \in Int
    PROVE  \E t \in S : \A u \in S : ~(Target(t) < Target(u))
<1> DEFINE Above(t) == {u \in S : Target(t) < Target(u)}
           aboves == {Above(t) : t \in S}
<1>1. IsFiniteSet(S)
  BY FS_Subset
<1>2. aboves \subseteq FiniteSubsetsOf(S) /\ aboves # {}
  <2>1. aboves \subseteq SUBSET S /\ aboves # {}
    <3>1. \A t \in S : Above(t) \in SUBSET S /\ Above(t) \in aboves
      OBVIOUS
    <3>2. \A A \in aboves : \E t \in S : A = Above(t)
      OBVIOUS
    <3> HIDE DEF aboves, Above
    <3> QED BY <3>1, <3>2
  <2>2. FiniteSubsetsOf(S) = SUBSET S
    BY <1>1, FS_FiniteSubsetsOfFinite
  <2> HIDE DEF aboves
  <2> QED BY <2>1, <2>2
<1>3. PICK A \in aboves : \A B \in aboves : <<B, A>> \notin StrictSubsetOrdering(S)
  BY <1>2, FS_StrictSubsetOrderingWellFounded, WFMin
<1>4. PICK t \in S : A = Above(t)
  OBVIOUS
<1>5. ASSUME NEW u \in S, Target(t) < Target(u)
      PROVE  FALSE
  <2>1. Above(u) \subseteq Above(t) /\ u \in Above(t) /\ u \notin Above(u)
    BY <1>5
  <2>2. <<Above(u), Above(t)>> \in StrictSubsetOrdering(S)
    BY <2>1 DEF StrictSubsetOrdering
  <2> QED BY <1>3, <1>4, <2>2
<1> QED BY <1>5

(* A program that orders its lists has no deadlock, with as many threads and *)
(* lists as it likes, with rwlock.c and with the macros, for any of the      *)
(* calls that lock two or three lists.                                       *)
THEOREM DeadlockFree ==
    ASSUME Ordered, NoCheckFails
    PROVE  Spec => []NoDeadlock
<1>1. IInv => NoDeadlock
  <2> SUFFICES ASSUME IInv, NEW S \in SUBSET Threads, S # {},
                      \A t \in S : todo[t] # <<>> /\ Blockers(t) # {} /\ Blockers(t) \subseteq S
               PROVE  FALSE
    BY DEF NoDeadlock
  <2>1. \A t \in S : Entering(t)
    BY DEF Entering, Target, Blockers
  <2>2. \A t \in S : Target(t) \in Int
    BY <2>1, OwnersClimb
  <2>3. PICK t \in S : \A u \in S : ~(Target(t) < Target(u))
    BY <2>2, FurthestUp
  <2>4. PICK u \in Blockers(t) : u \in S /\ Head(todo[u]) = W(Target(t))
    BY <2>1, <2>3, BlockersClimb
  <2>5. Target(u) = Target(t)
    BY <2>4 DEF Target, W
  (* That writer has not got the list either, so somebody has.              *)
  <2>6. PICK v \in Blockers(u) : v \in S
    BY <2>4
  <2>7. Head(todo[u]) # R(Target(u))
    BY <2>4, <2>5 DEF R, W
  <2> QED BY <2>1, <2>3, <2>4, <2>5, <2>6, <2>7, BlockersClimb
<1> QED BY <1>1, Invariance, PTL
=============================================================================
