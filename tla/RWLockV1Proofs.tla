--------------------------- MODULE RWLockV1Proofs ---------------------------
(***************************************************************************)
(* Theorems about RWLockV1 for any finite set of threads and any number of *)
(* calls.                                                                  *)
(***************************************************************************)
EXTENDS RWLockV1, TLAPS, FiniteSetTheorems

(* The inductive invariant, in three parts.                                 *)
(* Where the threads are: whoever sleeps on a condition variable is in the  *)
(* loop of the call that waits on it.                                       *)
Placed ==
    /\ pc \in [Threads -> PC]
    /\ calls \in [Threads -> 0..MaxCalls]
    /\ valid \in BOOLEAN
    /\ \A t \in read : t \in Threads /\ pc[t] = "rwait"
    /\ \A t \in write : t \in Threads /\ pc[t] = "wwait"

(* What the counters count.  They stay natural numbers only because they    *)
(* count threads, and a writer excludes the readers.                        *)
Counted ==
    /\ r_active \in Nat /\ w_active \in {0, 1} /\ r_wait \in Nat /\ w_wait \in Nat
    /\ CountsMatch
    /\ r_active = 0 \/ w_active = 0

IInv == Placed /\ Counted /\ DestroyedIsUnused

USE ConstAssumption DEF ConstAssumption

-----------------------------------------------------------------------------
(* Moving one thread changes the number of threads in the states L by what  *)
(* it brings to L less what it takes away from L.                           *)
Bit(b) == IF b THEN 1 ELSE 0

LEMMA CountMoves ==
    ASSUME pc \in [Threads -> PC], NEW t \in Threads, NEW l, Goto(t, l), NEW L
    PROVE  /\ Cardinality(In(L)) \in Nat /\ Cardinality(In(L)') \in Nat
           /\ Cardinality(In(L)') = Cardinality(In(L)) + Bit(l \in L) - Bit(pc[t] \in L)
<1>1. IsFiniteSet(In(L)) /\ In(L) \subseteq Threads
  BY FS_Subset DEF In
<1>2. Cardinality(In(L)) \in Nat /\ Cardinality(In(L)') \in Nat
  <2>1. IsFiniteSet(In(L)')
    BY FS_Subset DEF In
  <2> QED BY <1>1, <2>1, FS_CardinalityType
<1>3. CASE l \in L /\ pc[t] \notin L
  <2>1. In(L)' = In(L) \cup {t} /\ t \notin In(L)
    BY <1>3 DEF In, Goto
  <2>2. Cardinality(In(L) \cup {t}) = Cardinality(In(L)) + 1
    BY <1>1, <2>1, FS_AddElement
  <2> QED BY <1>2, <1>3, <2>1, <2>2 DEF Bit
<1>4. CASE l \notin L /\ pc[t] \in L
  <2>1. In(L)' = In(L) \ {t} /\ t \in In(L)
    BY <1>4 DEF In, Goto
  <2>2. Cardinality(In(L) \ {t}) = Cardinality(In(L)) - 1
    BY <1>1, <2>1, FS_RemoveElement
  <2> QED BY <1>2, <1>4, <2>1, <2>2 DEF Bit
<1>5. CASE (l \in L) = (pc[t] \in L)
  <2>1. In(L)' = In(L)
    BY <1>5 DEF In, Goto
  <2> QED BY <1>2, <1>5, <2>1 DEF Bit
<1> QED BY <1>3, <1>4, <1>5

(* The same for the four sets the counters stand for.                       *)
Counters(R, W, RW, WW) ==
    /\ R \in Nat /\ W \in Nat /\ RW \in Nat /\ WW \in Nat
    /\ Cardinality(In({"reading"})') = R
    /\ Cardinality(In({"writing"})') = W
    /\ Cardinality(In({"rwait", "rcancel"})') = RW
    /\ Cardinality(In({"wwait", "wcancel"})') = WW

LEMMA CountersMove ==
    ASSUME Placed, Counted, NEW t \in Threads, NEW l, Goto(t, l)
    PROVE  Counters(r_active + Bit(l = "reading") - Bit(pc[t] = "reading"),
                    w_active + Bit(l = "writing") - Bit(pc[t] = "writing"),
                    r_wait + Bit(l \in {"rwait", "rcancel"})
                           - Bit(pc[t] \in {"rwait", "rcancel"}),
                    w_wait + Bit(l \in {"wwait", "wcancel"})
                           - Bit(pc[t] \in {"wwait", "wcancel"}))
<1> pc \in [Threads -> PC]
  BY DEF Placed
<1> DEFINE Moves(n, L) == /\ Cardinality(In(L)') \in Nat
                          /\ Cardinality(In(L)') = n + Bit(l \in L) - Bit(pc[t] \in L)
<1>1. Moves(r_active, {"reading"})
  BY CountMoves DEF Counted, CountsMatch
<1>2. Moves(w_active, {"writing"})
  BY CountMoves DEF Counted, CountsMatch
<1>3. Moves(r_wait, {"rwait", "rcancel"})
  BY CountMoves DEF Counted, CountsMatch
<1>4. Moves(w_wait, {"wwait", "wcancel"})
  BY CountMoves DEF Counted, CountsMatch
<1> QED BY <1>1, <1>2, <1>3, <1>4 DEF Counters, Bit

(* A counter that is zero counts nobody, and one that is not counts someone. *)
LEMMA CountZero ==
    ASSUME NEW L
    PROVE  /\ Cardinality(In(L)) = 0 <=> In(L) = {}
           /\ Cardinality(In(L)) = 1 => \A t, u \in In(L) : t = u
<1>1. IsFiniteSet(In(L))
  BY FS_Subset DEF In
<1>2. Cardinality(In(L)) = 0 <=> In(L) = {}
  BY <1>1, FS_EmptySet
<1>3. ASSUME Cardinality(In(L)) = 1 PROVE \A t, u \in In(L) : t = u
  BY <1>1, <1>3, FS_Singleton
<1> QED BY <1>2, <1>3

-----------------------------------------------------------------------------
(* An initialised lock satisfies the invariant: nobody is inside, and every *)
(* counter is zero.                                                         *)
LEMMA InitIInv == Init => IInv
<1> SUFFICES ASSUME Init PROVE IInv
  OBVIOUS
<1>1. \A L : "idle" \notin L => In(L) = {}
  BY DEF Init, In
<1>2. CountsMatch
  BY <1>1, FS_EmptySet DEF CountsMatch, Init
<1> QED BY <1>2 DEF IInv, Placed, Counted, Init, PC, DestroyedIsUnused

(* The places of the threads do not depend on the counters.                 *)
LEMMA NextPlaced == Placed /\ [Next]_vars => Placed'
<1> SUFFICES ASSUME Placed, [Next]_vars PROVE Placed'
  OBVIOUS
<1> USE DEF Placed, Goto, PC, Entering
<1>1. ASSUME NEW t \in Threads, NEW op \in Entering, Call(t, op) PROVE Placed'
  <2>1. pc[t] = "idle" /\ pc' \in [Threads -> PC]
    BY <1>1 DEF Call
  <2>2. calls' \in [Threads -> 0..MaxCalls]
    BY <1>1 DEF Call
  <2>3. valid' = valid /\ read' = read /\ write' = write
    BY <1>1 DEF Call, rwl
  <2> QED BY <1>1, <2>1, <2>2, <2>3 DEF Call
<1>2. ASSUME NEW t \in Threads, ReadLock(t) PROVE Placed'
  BY <1>2 DEF ReadLock, OwnRead
<1>3. ASSUME NEW t \in Threads, ReadWake(t) PROVE Placed'
  BY <1>3 DEF ReadWake, OwnRead
<1>4. ASSUME NEW t \in Threads, ReadTryLock(t) PROVE Placed'
  BY <1>4 DEF ReadTryLock, OwnRead
<1>5. ASSUME NEW t \in Threads, ReadUnlock(t) PROVE Placed'
  BY <1>5 DEF ReadUnlock, SignalWrite
<1>6. ASSUME NEW t \in Threads, WriteLock(t) PROVE Placed'
  BY <1>6 DEF WriteLock, OwnWrite
<1>7. ASSUME NEW t \in Threads, WriteWake(t) PROVE Placed'
  BY <1>7 DEF WriteWake, OwnWrite
<1>8. ASSUME NEW t \in Threads, WriteTryLock(t) PROVE Placed'
  BY <1>8 DEF WriteTryLock, OwnWrite
<1>9. ASSUME NEW t \in Threads, WriteUnlock(t) PROVE Placed'
  BY <1>9 DEF WriteUnlock, SignalWrite
<1>10. ASSUME NEW t \in Threads, SpuriousWake(t) PROVE Placed'
  BY <1>10 DEF SpuriousWake
<1>11. ASSUME NEW t \in Threads, Cancel(t) PROVE Placed'
  BY <1>11 DEF Cancel
<1>12. ASSUME NEW t \in Threads, ReadCleanup(t) PROVE Placed'
  BY <1>12 DEF ReadCleanup
<1>13. ASSUME NEW t \in Threads, WriteCleanup(t) PROVE Placed'
  BY <1>13 DEF WriteCleanup
<1>14. ASSUME NEW t \in Threads, Destroy(t) PROVE Placed'
  BY <1>14 DEF Destroy
<1>15. CASE UNCHANGED vars
  BY <1>15 DEF vars
<1> QED
  BY <1>1, <1>2, <1>3, <1>4, <1>5, <1>6, <1>7, <1>8, <1>9, <1>10, <1>11, <1>12,
     <1>13, <1>14, <1>15 DEF Next, Proceed, Finished

(* A step that moves one thread keeps the counters right, if it changes     *)
(* them by what the move changes.                                           *)
LEMMA MoveKeepsCounted ==
    ASSUME Counters(r_active', w_active', r_wait', w_wait'),
           w_active' \in {0, 1}, r_active' = 0 \/ w_active' = 0
    PROVE  Counted'
BY DEF Counters, Counted, CountsMatch

(* Every function and cleanup handler changes the counters by what it does  *)
(* to the places of its thread.                                             *)
LEMMA NextCounted == Placed /\ Counted /\ [Next]_vars => Counted'
<1> SUFFICES ASSUME Placed, Counted, [Next]_vars PROVE Counted'
  OBVIOUS
<1>1. ASSUME UNCHANGED <<r_active, w_active, r_wait, w_wait, pc>> PROVE Counted'
  BY <1>1 DEF Counted, CountsMatch, In
<1>2. ASSUME NEW t \in Threads, NEW op \in Entering, Call(t, op) PROVE Counted'
  <2>1. CASE Goto(t, op)
    <3>1. Counters(r_active', w_active', r_wait', w_wait')
      BY <1>2, <2>1, CountersMove DEF Call, rwl, Entering, Counted, Bit
    <3> QED BY <1>2, <3>1, MoveKeepsCounted DEF Call, rwl, Counted
  <2>2. CASE UNCHANGED pc
    BY <1>1, <1>2, <2>2 DEF Call, rwl
  <2> QED BY <1>2, <2>1, <2>2 DEF Call
<1>3. ASSUME NEW t \in Threads, ReadLock(t) PROVE Counted'
  <2>1. CASE Goto(t, "reading")
    <3>1. Counters(r_active', w_active', r_wait', w_wait')
      BY <1>3, <2>1, CountersMove DEF ReadLock, OwnRead, Counted, Bit
    <3> QED BY <1>3, <2>1, <3>1, MoveKeepsCounted DEF ReadLock, OwnRead, Counted
  <2>2. CASE Goto(t, "rwait")
    <3>1. Counters(r_active', w_active', r_wait', w_wait')
      BY <1>3, <2>2, CountersMove DEF ReadLock, OwnRead, Counted, Bit
    <3> QED BY <1>3, <2>2, <3>1, MoveKeepsCounted DEF ReadLock, OwnRead, Counted
  <2> QED BY <1>3, <2>1, <2>2 DEF ReadLock, OwnRead
<1>4. ASSUME NEW t \in Threads, ReadWake(t) PROVE Counted'
  <2>1. CASE OwnRead(t)
    <3>1. Counters(r_active', w_active', r_wait', w_wait')
      BY <1>4, <2>1, CountersMove DEF ReadWake, OwnRead, Placed, Counted, Bit
    <3> QED BY <1>4, <2>1, <3>1, MoveKeepsCounted
            DEF ReadWake, OwnRead, Placed, Counted
  <2>2. CASE UNCHANGED pc
    BY <1>1, <1>4, <2>2 DEF ReadWake, OwnRead, Goto, Placed
  <2> QED BY <1>4, <2>1, <2>2 DEF ReadWake, OwnRead
<1>5. ASSUME NEW t \in Threads, ReadTryLock(t) PROVE Counted'
  <2>1. CASE Goto(t, "reading")
    <3>1. Counters(r_active', w_active', r_wait', w_wait')
      BY <1>5, <2>1, CountersMove DEF ReadTryLock, OwnRead, Counted, Bit
    <3> QED BY <1>5, <2>1, <3>1, MoveKeepsCounted DEF ReadTryLock, OwnRead, Counted
  <2>2. CASE Goto(t, "idle")
    <3>1. Counters(r_active', w_active', r_wait', w_wait')
      BY <1>5, <2>2, CountersMove DEF ReadTryLock, OwnRead, Counted, Bit
    <3> QED BY <1>5, <2>2, <3>1, MoveKeepsCounted DEF ReadTryLock, OwnRead, Counted
  <2> QED BY <1>5, <2>1, <2>2 DEF ReadTryLock, OwnRead
<1>6. ASSUME NEW t \in Threads, ReadUnlock(t) PROVE Counted'
  <2>1. Counters(r_active', w_active', r_wait', w_wait')
    BY <1>6, CountersMove DEF ReadUnlock, Counted, Bit
  <2>2. w_active' \in {0, 1} /\ (r_active' = 0 \/ w_active' = 0)
    BY <1>6, <2>1 DEF ReadUnlock, Counted, Counters
  <2> QED BY <2>1, <2>2, MoveKeepsCounted
<1>7. ASSUME NEW t \in Threads, WriteLock(t) PROVE Counted'
  <2>1. CASE Goto(t, "writing")
    <3>1. Counters(r_active', w_active', r_wait', w_wait')
      BY <1>7, <2>1, CountersMove DEF WriteLock, OwnWrite, Busy, Counted, Bit
    <3> QED BY <1>7, <2>1, <3>1, MoveKeepsCounted
            DEF WriteLock, OwnWrite, Busy, Counted
  <2>2. CASE Goto(t, "wwait")
    <3>1. Counters(r_active', w_active', r_wait', w_wait')
      BY <1>7, <2>2, CountersMove DEF WriteLock, OwnWrite, Busy, Counted, Bit
    <3> QED BY <1>7, <2>2, <3>1, MoveKeepsCounted
            DEF WriteLock, OwnWrite, Busy, Counted
  <2> QED BY <1>7, <2>1, <2>2 DEF WriteLock, OwnWrite, Busy
<1>8. ASSUME NEW t \in Threads, WriteWake(t) PROVE Counted'
  <2>1. CASE OwnWrite(t)
    <3>1. Counters(r_active', w_active', r_wait', w_wait')
      BY <1>8, <2>1, CountersMove DEF WriteWake, OwnWrite, Busy, Placed, Counted, Bit
    <3> QED BY <1>8, <2>1, <3>1, MoveKeepsCounted
            DEF WriteWake, OwnWrite, Busy, Placed, Counted
  <2>2. CASE UNCHANGED pc
    BY <1>1, <1>8, <2>2 DEF WriteWake, OwnWrite, Busy, Goto, Placed
  <2> QED BY <1>8, <2>1, <2>2 DEF WriteWake, OwnWrite, Busy
<1>9. ASSUME NEW t \in Threads, WriteTryLock(t) PROVE Counted'
  <2>1. CASE Goto(t, "writing")
    <3>1. Counters(r_active', w_active', r_wait', w_wait')
      BY <1>9, <2>1, CountersMove DEF WriteTryLock, OwnWrite, Busy, Counted, Bit
    <3> QED BY <1>9, <2>1, <3>1, MoveKeepsCounted
            DEF WriteTryLock, OwnWrite, Busy, Counted
  <2>2. CASE Goto(t, "idle")
    <3>1. Counters(r_active', w_active', r_wait', w_wait')
      BY <1>9, <2>2, CountersMove DEF WriteTryLock, OwnWrite, Busy, Counted, Bit
    <3> QED BY <1>9, <2>2, <3>1, MoveKeepsCounted
            DEF WriteTryLock, OwnWrite, Busy, Counted
  <2> QED BY <1>9, <2>1, <2>2 DEF WriteTryLock, OwnWrite, Busy
<1>10. ASSUME NEW t \in Threads, WriteUnlock(t) PROVE Counted'
  <2>1. Counters(r_active', w_active', r_wait', w_wait')
    <3>1. Counters(r_active, w_active - 1, r_wait, w_wait)
      BY <1>10, CountersMove DEF WriteUnlock, Counted, Bit
    <3>2. w_active - 1 = 0
      BY <3>1 DEF Counters, Counted
    <3> QED BY <1>10, <3>1, <3>2 DEF WriteUnlock
  <2>2. w_active' \in {0, 1} /\ (r_active' = 0 \/ w_active' = 0)
    BY <1>10, <2>1 DEF WriteUnlock, Counted, Counters
  <2> QED BY <2>1, <2>2, MoveKeepsCounted
<1>11. ASSUME NEW t \in Threads, SpuriousWake(t) PROVE Counted'
  BY <1>1, <1>11 DEF SpuriousWake
<1>12. ASSUME NEW t \in Threads, Cancel(t) PROVE Counted'
  <2>1. Counters(r_active', w_active', r_wait', w_wait')
    <3>1. CASE t \in read /\ Goto(t, "rcancel")
      BY <1>12, <3>1, CountersMove DEF Cancel, Placed, Counted, Bit
    <3>2. CASE t \in write /\ Goto(t, "wcancel")
      BY <1>12, <3>2, CountersMove DEF Cancel, Placed, Counted, Bit
    <3> QED BY <1>12, <3>1, <3>2 DEF Cancel
  <2> QED BY <1>12, <2>1, MoveKeepsCounted DEF Cancel, Counted
<1>13. ASSUME NEW t \in Threads, ReadCleanup(t) PROVE Counted'
  <2>1. Counters(r_active', w_active', r_wait', w_wait')
    BY <1>13, CountersMove DEF ReadCleanup, Counted, Bit
  <2> QED BY <1>13, <2>1, MoveKeepsCounted DEF ReadCleanup, Counted
<1>14. ASSUME NEW t \in Threads, WriteCleanup(t) PROVE Counted'
  <2>1. Counters(r_active', w_active', r_wait', w_wait')
    BY <1>14, CountersMove DEF WriteCleanup, Counted, Bit
  <2> QED BY <1>14, <2>1, MoveKeepsCounted DEF WriteCleanup, Counted
<1>15. ASSUME NEW t \in Threads, Destroy(t) PROVE Counted'
  <2>1. Counters(r_active', w_active', r_wait', w_wait')
    BY <1>15, CountersMove DEF Destroy, Counted, Bit
  <2> QED BY <1>15, <2>1, MoveKeepsCounted DEF Destroy, Counted
<1> QED
  BY <1>1, <1>2, <1>3, <1>4, <1>5, <1>6, <1>7, <1>8, <1>9, <1>10, <1>11, <1>12, <1>13,
     <1>14, <1>15 DEF Next, Proceed, Finished, vars

-----------------------------------------------------------------------------
(* The counters are right, so rwl_destroy's tests find every owner, every   *)
(* waiter and every thread with a cleanup handler still to run.             *)
LEMMA CountsFind ==
    ASSUME Placed, Counted, NEW t \in Threads
    PROVE  /\ pc[t] = "reading" => r_active > 0
           /\ pc[t] = "writing" => w_active = 1
           /\ pc[t] \in {"rwait", "rcancel"} => r_wait > 0
           /\ pc[t] \in {"wwait", "wcancel"} => w_wait > 0
<1>1. \A L : pc[t] \in L => Cardinality(In(L)) # 0
  BY CountZero DEF In
<1>2. /\ pc[t] = "reading" => Cardinality(In({"reading"})) # 0
      /\ pc[t] = "writing" => Cardinality(In({"writing"})) # 0
      /\ pc[t] \in {"rwait", "rcancel"} => Cardinality(In({"rwait", "rcancel"})) # 0
      /\ pc[t] \in {"wwait", "wcancel"} => Cardinality(In({"wwait", "wcancel"})) # 0
  BY <1>1
<1> QED BY <1>2 DEF Counted, CountsMatch

(* rwl_destroy succeeds only when nobody is inside, and afterwards nobody   *)
(* gets in.                                                                 *)
LEMMA NextDestroyed ==
    Placed /\ Counted /\ DestroyedIsUnused /\ [Next]_vars => DestroyedIsUnused'
<1> SUFFICES ASSUME Placed, Counted, DestroyedIsUnused, [Next]_vars
             PROVE  DestroyedIsUnused'
  OBVIOUS
<1>1. CASE ~valid
  (* Nobody is anywhere but outside, and Call finds the lock not valid.     *)
  <2>1. \A t \in Threads : pc[t] \in {"idle", "dead"}
    BY <1>1 DEF DestroyedIsUnused
  <2>2. read = {} /\ write = {}
    BY <2>1 DEF Placed
  <2>3. UNCHANGED pc
    BY <1>1, <2>1, <2>2 DEF Next, Proceed, Finished, vars, Call, ReadLock, ReadWake,
       ReadTryLock, ReadUnlock, WriteLock, WriteWake, WriteTryLock, WriteUnlock,
       SpuriousWake, Cancel, ReadCleanup, WriteCleanup, Destroy
  <2> QED BY <2>1, <2>3 DEF DestroyedIsUnused
<1>2. CASE valid
  <2>1. ASSUME NEW t \in Threads, Destroy(t), ~valid' PROVE DestroyedIsUnused'
    <3>1. ~Busy /\ r_wait = 0 /\ w_wait = 0 /\ Quiesced(t)
      BY <1>2, <2>1 DEF Destroy
    <3>2. r_active = 0 /\ w_active = 0
      BY <3>1 DEF Busy, Counted
    <3>3. \A u \in Threads \ {t} : pc[u] \in {"idle", "dead"}
      BY <3>1, <3>2, CountsFind DEF Quiesced, Placed, PC
    <3>4. pc' = [pc EXCEPT ![t] = "idle"]
      BY <2>1 DEF Destroy, Goto
    <3> QED BY <3>3, <3>4 DEF DestroyedIsUnused, Placed
  <2>2. ASSUME ~\E t \in Threads : Destroy(t) PROVE valid'
    BY <1>2, <2>2 DEF Next, Proceed, Finished, vars, rwl, Call, ReadLock, ReadWake,
       ReadTryLock, ReadUnlock, WriteLock, WriteWake, WriteTryLock, WriteUnlock,
       SpuriousWake, Cancel, ReadCleanup, WriteCleanup
  <2> QED BY <2>1, <2>2 DEF DestroyedIsUnused
<1> QED BY <1>1, <1>2

(* IInv is inductive, so it holds at every point of every execution.        *)
THEOREM Invariance == Spec => []IInv
<1>1. IInv /\ [Next]_vars => IInv'
  BY NextPlaced, NextCounted, NextDestroyed DEF IInv
<1> QED BY InitIInv, <1>1, PTL DEF Spec

-----------------------------------------------------------------------------
(* Every field keeps its type; in particular no counter of rwlock.c ever     *)
(* goes below zero, whatever is cancelled and in whatever order.             *)
THEOREM Typing == Spec => []TypeOK
<1>1. IInv => TypeOK
  BY DEF IInv, Placed, Counted, TypeOK
<1> QED BY Invariance, <1>1, PTL

(* The counters of rwlock.c count the threads they stand for.                *)
THEOREM Counting == Spec => []CountsMatch
<1>1. IInv => CountsMatch
  BY DEF IInv, Counted
<1> QED BY Invariance, <1>1, PTL

(* A lock that rwl_destroy has destroyed has no owner and no waiter.         *)
THEOREM SafeDestroy == Spec => []DestroyedIsUnused
<1>1. IInv => DestroyedIsUnused
  BY DEF IInv
<1> QED BY Invariance, <1>1, PTL

-----------------------------------------------------------------------------
(* Refinement.  The owners are the threads at "reading" and at "writing";    *)
(* taking and giving up the lock are the steps that move a thread there and  *)
(* away, and the others stutter.                                             *)
Readers == In({"reading"})
Writers == In({"writing"})

(* Whom the tests of rwl_readlock and rwl_writelock find.                   *)
LEMMA Owners ==
    ASSUME Placed, Counted
    PROVE  /\ r_active = 0 => Readers = {}
           /\ w_active = 0 => Writers = {}
           /\ \A t, u \in Writers : t = u
<1>1. /\ r_active = 0 => Readers = {}
      /\ w_active = 0 => Writers = {}
  BY CountZero DEF Counted, CountsMatch, Readers, Writers
<1>2. CASE w_active = 1
  BY <1>1, <1>2, CountZero DEF Counted, CountsMatch, Writers
<1> QED BY <1>1, <1>2 DEF Counted

(* A move between two places outside the lock is a stutter of RWLock.       *)
LEMMA Stutters ==
    ASSUME Placed, NEW t \in Threads, NEW l, Goto(t, l),
           l \notin {"reading", "writing"}, pc[t] \notin {"reading", "writing"}
    PROVE  UNCHANGED <<Readers, Writers>>
BY DEF Placed, Goto, In, Readers, Writers

(* Taking and giving back the lock are the steps of RWLock.                 *)
LEMMA OwnReadBegins ==
    ASSUME Placed, Counted, NEW t \in Threads, OwnRead(t),
           pc[t] \notin {"reading", "writing"}
    PROVE  Lock!BeginRead(t)
<1>1. Writers = {} /\ t \notin Readers
  BY Owners DEF OwnRead, Readers, In
<1>2. Readers' = Readers \cup {t} /\ Writers' = Writers
  BY DEF OwnRead, Goto, Placed, Readers, Writers, In
<1> QED BY <1>1, <1>2 DEF Lock!BeginRead, Readers, Writers

LEMMA OwnWriteBegins ==
    ASSUME Placed, Counted, NEW t \in Threads, OwnWrite(t),
           pc[t] \notin {"reading", "writing"}
    PROVE  Lock!BeginWrite(t)
<1>1. Readers = {} /\ Writers = {}
  BY Owners DEF OwnWrite, Busy, Counted
<1>2. Readers' = Readers /\ Writers' = {t}
  BY <1>1 DEF OwnWrite, Goto, Placed, Readers, Writers, In
<1> QED BY <1>1, <1>2 DEF Lock!BeginWrite, Readers, Writers

LEMMA ReadUnlockEnds ==
    ASSUME Placed, NEW t \in Threads, ReadUnlock(t)
    PROVE  Lock!EndRead(t)
BY DEF Placed, ReadUnlock, Goto, In, Lock!EndRead

LEMMA WriteUnlockEnds ==
    ASSUME Placed, Counted, NEW t \in Threads, WriteUnlock(t)
    PROVE  Lock!EndWrite(t)
<1>1. t \in Writers
  BY DEF WriteUnlock, Writers, In
<1>2. Writers' = {} /\ Readers' = Readers
  BY <1>1, Owners DEF Placed, WriteUnlock, Goto, In, Writers, Readers
<1> QED BY <1>1, <1>2 DEF Lock!EndWrite, Readers, Writers

(* Every step of rwlock.c is a step of RWLock, or changes no owner.         *)
LEMMA NextRefines ==
    Placed /\ Counted /\ [Next]_vars => [Lock!Next]_(Lock!lockVars)
<1> SUFFICES ASSUME Placed, Counted, [Next]_vars
             PROVE  [Lock!Next]_<<Readers, Writers>>
  BY DEF Lock!lockVars, Readers, Writers
<1> DEFINE Goal == [Lock!Next]_<<Readers, Writers>>
<1> USE DEF Lock!Next
<1>1. ASSUME UNCHANGED pc PROVE Goal
  BY <1>1 DEF Readers, Writers, In
<1>2. ASSUME NEW t \in Threads, NEW op \in Entering, Call(t, op) PROVE Goal
  BY <1>1, <1>2, Stutters DEF Call, Entering
<1>3. ASSUME NEW t \in Threads, ReadLock(t) \/ ReadWake(t) \/ ReadTryLock(t) PROVE Goal
  BY <1>1, <1>3, Stutters, OwnReadBegins DEF ReadLock, ReadWake, ReadTryLock
<1>4. ASSUME NEW t \in Threads, WriteLock(t) \/ WriteWake(t) \/ WriteTryLock(t) PROVE Goal
  BY <1>1, <1>4, Stutters, OwnWriteBegins DEF WriteLock, WriteWake, WriteTryLock
<1>5. ASSUME NEW t \in Threads, ReadUnlock(t) PROVE Goal
  BY <1>5, ReadUnlockEnds
<1>6. ASSUME NEW t \in Threads, WriteUnlock(t) PROVE Goal
  BY <1>6, WriteUnlockEnds
<1>7. ASSUME NEW t \in Threads, SpuriousWake(t) PROVE Goal
  BY <1>1, <1>7 DEF SpuriousWake
<1>8. ASSUME NEW t \in Threads, Cancel(t) PROVE Goal
  BY <1>8, Stutters DEF Cancel, Placed
<1>9. ASSUME NEW t \in Threads, ReadCleanup(t) \/ WriteCleanup(t) \/ Destroy(t) PROVE Goal
  BY <1>9, Stutters DEF ReadCleanup, WriteCleanup, Destroy
<1>10. CASE UNCHANGED vars
  BY <1>1, <1>10 DEF vars
<1> QED
  BY <1>2, <1>3, <1>4, <1>5, <1>6, <1>7, <1>8, <1>9, <1>10 DEF Next, Proceed, Finished

(* rwlock.c implements the readers/writers lock: shared read access or       *)
(* exclusive write access, through waiting, trying, cancelling, destroying.  *)
THEOREM Refinement == Spec => ImplementsLock
<1>1. Init => Lock!Init
  BY DEF Init, Lock!Init, In
<1>2. IInv /\ [Next]_vars => [Lock!Next]_(Lock!lockVars)
  BY NextRefines DEF IInv
<1> QED BY <1>1, <1>2, Invariance, PTL DEF Spec, ImplementsLock, Lock!Spec

-----------------------------------------------------------------------------
(* The wake-ups.  With the waits of readers not cancellable, nobody counted  *)
(* by r_wait is anywhere but in the loop of rwl_readlock.                    *)
WakeInv ==
    /\ \A t \in Threads : pc[t] # "rcancel"
    /\ NoLostWakeup

(* Somebody was woken and is on the way to the mutex.                       *)
SomeoneComes == \E u \in Threads : /\ pc[u] \in {"rwait", "wwait"}
                                   /\ u \notin read \cup write

(* The unlocking thread passes the lock on, and whoever takes it in between *)
(* will pass it on in turn.                                                 *)
LEMMA NextWakeInv ==
    "read" \notin Cancellable /\ IInv /\ WakeInv /\ [Next]_vars => WakeInv'
<1> SUFFICES ASSUME "read" \notin Cancellable, Placed, Counted, WakeInv, [Next]_vars
             PROVE  WakeInv'
  BY DEF IInv
<1>1. \A t \in Threads : pc'[t] # "rcancel"
  BY DEF WakeInv, Placed, Next, Proceed, Finished, vars, rwl, Goto, Entering, Call, ReadLock,
     OwnRead, ReadWake, ReadTryLock, ReadUnlock, WriteLock, OwnWrite, WriteWake, WriteTryLock,
     WriteUnlock, SpuriousWake, Cancel, ReadCleanup, WriteCleanup, Destroy
<1> SUFFICES NoLostWakeup'
  BY <1>1 DEF WakeInv
<1> USE DEF NoLostWakeup, SomeoneComes, WakeInv, Busy, Goto, Placed
<1>2. ASSUME NEW t \in Threads, NEW op \in Entering, Call(t, op) PROVE NoLostWakeup'
  BY <1>2 DEF Call, rwl
<1>3. ASSUME NEW t \in Threads, ReadLock(t) \/ ReadTryLock(t) PROVE NoLostWakeup'
  BY <1>3 DEF ReadLock, ReadTryLock, OwnRead, Counted
<1>4. ASSUME NEW t \in Threads, ReadWake(t) PROVE NoLostWakeup'
  BY <1>4 DEF ReadWake, OwnRead, Counted
<1>5. ASSUME NEW t \in Threads, WriteLock(t) \/ WriteTryLock(t) PROVE NoLostWakeup'
  BY <1>5 DEF WriteLock, WriteTryLock, OwnWrite, Counted
<1>6. ASSUME NEW t \in Threads, WriteWake(t) PROVE NoLostWakeup'
  BY <1>6 DEF WriteWake, OwnWrite, Counted
<1>7. ASSUME NEW t \in Threads, ReadUnlock(t) PROVE NoLostWakeup'
  <2>1. w_active = 0 /\ read = {}
    BY <1>7, CountsFind DEF ReadUnlock, Counted
  <2>2. ASSUME r_active' = 0, write' # {}
        PROVE  SomeoneComes'
    (* A sleeping writer is counted by w_wait, so one of them was signalled. *)
    <3>1. write # {} /\ w_wait > 0
      BY <1>7, <2>2, CountsFind DEF ReadUnlock, SignalWrite
    <3>2. PICK u \in write : write' = write \ {u}
      BY <1>7, <2>2, <3>1 DEF ReadUnlock, SignalWrite
    <3> QED BY <1>7, <2>1, <3>2 DEF ReadUnlock
  <2> QED BY <1>7, <2>1, <2>2 DEF ReadUnlock, Counted
<1>8. ASSUME NEW t \in Threads, WriteUnlock(t) PROVE NoLostWakeup'
  <2>1. CASE r_wait > 0
    (* Some reader is in its loop, and the broadcast leaves no reader asleep. *)
    <3>1. PICK u \in Threads : pc[u] = "rwait"
      BY <2>1, CountZero, SMTT(30) DEF Counted, CountsMatch, In
    <3> QED BY <1>8, <2>1, <3>1 DEF WriteUnlock
  <2>2. CASE r_wait = 0
    <3>1. read = {}
      BY <2>2, CountsFind
    <3>2. ASSUME write' # {}
          PROVE  SomeoneComes'
      <4>1. write # {} /\ w_wait > 0
        BY <1>8, <2>2, <3>2, CountsFind DEF WriteUnlock, SignalWrite
      <4>2. PICK u \in write : write' = write \ {u}
        BY <1>8, <2>2, <3>2, <4>1 DEF WriteUnlock, SignalWrite
      <4> QED BY <1>8, <2>2, <3>1, <4>1, <4>2 DEF WriteUnlock
    <3> QED BY <1>8, <2>2, <3>1, <3>2 DEF WriteUnlock
  <2> QED BY <2>1, <2>2 DEF Counted
<1>9. ASSUME NEW t \in Threads, SpuriousWake(t) PROVE NoLostWakeup'
  BY <1>9 DEF SpuriousWake
<1>10. ASSUME NEW t \in Threads, Cancel(t) PROVE NoLostWakeup'
  BY <1>10 DEF Cancel
<1>11. ASSUME NEW t \in Threads, ReadCleanup(t) \/ WriteCleanup(t) \/ Destroy(t)
       PROVE  NoLostWakeup'
  BY <1>11 DEF ReadCleanup, WriteCleanup, Destroy
<1>12. CASE UNCHANGED vars
  BY <1>12 DEF vars
<1> QED
  BY <1>2, <1>3, <1>4, <1>5, <1>6, <1>7, <1>8, <1>9, <1>10, <1>11, <1>12
  DEF Next, Proceed, Finished

(* As long as no reader is cancelled while it waits, no wake-up is lost: a   *)
(* free lock that writers sleep on always has a woken thread coming for it.  *)
(* The hypothesis is needed: see the run v1_cancel.                          *)
THEOREM Wakeups ==
    ASSUME "read" \notin Cancellable
    PROVE  Spec => []NoLostWakeup
<1>1. Init => WakeInv
  BY DEF Init, WakeInv, NoLostWakeup
<1>2. IInv /\ WakeInv /\ [Next]_vars => WakeInv'
  BY NextWakeInv
<1>3. WakeInv => NoLostWakeup
  BY DEF WakeInv
<1> QED BY <1>1, <1>2, <1>3, Invariance, PTL DEF Spec
=============================================================================
