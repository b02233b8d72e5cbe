--------------------------- MODULE RWLockV2Proofs ---------------------------
(***************************************************************************)
(* Theorems about RWLockV2 for any finite set of threads and any number of *)
(* calls of writers.                                                       *)
(***************************************************************************)
EXTENDS RWLockV2, TLAPS, FiniteSetTheorems

(* The inductive invariant, in two parts.                                   *)
(* Whoever sleeps on a condition variable is in the loop that waits on it.  *)
Placed ==
    /\ pc \in [Threads -> PC]
    /\ writes \in [Threads -> 0..MaxWrites]
    /\ \A t \in read : t \in Threads /\ pc[t] = "rwait"
    /\ \A t \in write : t \in Threads /\ pc[t] = "wwait"

(* What the fields of the list count, and that a writer excludes readers:   *)
(* without it WRITER_EXIT's "writers = 0" could forget a second writer.     *)
Counted ==
    /\ readers \in Nat /\ writers \in {0, 1}
    /\ read_waiters \in Nat /\ write_waiters \in Nat
    /\ CountsMatch
    /\ readers = 0 \/ writers = 0

IInv == Placed /\ Counted

USE V2Assumption DEF V2Assumption

-----------------------------------------------------------------------------
(* Moving one thread changes the number of threads at L by what it brings   *)
(* there less what it takes away.                                           *)
Bit(b) == IF b THEN 1 ELSE 0

LEMMA CountMoves ==
    ASSUME pc \in [Threads -> PC], NEW t \in Threads, NEW l, Goto(t, l), NEW L
    PROVE  /\ Cardinality(In(L)) \in Nat /\ Cardinality(In(L)') \in Nat
           /\ Cardinality(In(L)') = Cardinality(In(L)) + Bit(l = L) - Bit(pc[t] = L)
<1>1. IsFiniteSet(In(L)) /\ IsFiniteSet(In(L)')
  BY FS_Subset DEF In
<1>2. Cardinality(In(L)) \in Nat /\ Cardinality(In(L)') \in Nat
  BY <1>1, FS_CardinalityType
<1>3. CASE l = L /\ pc[t] # L
  <2>1. In(L)' = In(L) \cup {t} /\ t \notin In(L)
    BY <1>3 DEF In, Goto
  <2>2. Cardinality(In(L) \cup {t}) = Cardinality(In(L)) + 1
    BY <1>1, <2>1, FS_AddElement
  <2> QED BY <1>2, <1>3, <2>1, <2>2 DEF Bit
<1>4. CASE l # L /\ pc[t] = L
  <2>1. In(L)' = In(L) \ {t} /\ t \in In(L)
    BY <1>4 DEF In, Goto
  <2>2. Cardinality(In(L) \ {t}) = Cardinality(In(L)) - 1
    BY <1>1, <2>1, FS_RemoveElement
  <2> QED BY <1>2, <1>4, <2>1, <2>2 DEF Bit
<1>5. CASE (l = L) = (pc[t] = L)
  <2>1. In(L)' = In(L)
    BY <1>5 DEF In, Goto
  <2> QED BY <1>2, <1>5, <2>1 DEF Bit
<1> QED BY <1>3, <1>4, <1>5

(* The same for the four fields.                                            *)
Fields(R, W, RW, WW) ==
    /\ R \in Nat /\ W \in Nat /\ RW \in Nat /\ WW \in Nat
    /\ Cardinality(In("reading")') = R
    /\ Cardinality(In("writing")') = W
    /\ Cardinality(In("rwait")') = RW
    /\ Cardinality(In("wwait")') = WW

LEMMA FieldsMove ==
    ASSUME IInv, NEW t \in Threads, NEW l, Goto(t, l)
    PROVE  Fields(readers + Bit(l = "reading") - Bit(pc[t] = "reading"),
                  writers + Bit(l = "writing") - Bit(pc[t] = "writing"),
                  read_waiters + Bit(l = "rwait") - Bit(pc[t] = "rwait"),
                  write_waiters + Bit(l = "wwait") - Bit(pc[t] = "wwait"))
<1> pc \in [Threads -> PC]
  BY DEF IInv, Placed
<1> DEFINE Moves(n, L) == /\ Cardinality(In(L)') \in Nat
                          /\ Cardinality(In(L)') = n + Bit(l = L) - Bit(pc[t] = L)
<1>1. Moves(readers, "reading")
  BY CountMoves DEF IInv, Counted, CountsMatch
<1>2. Moves(writers, "writing")
  BY CountMoves DEF IInv, Counted, CountsMatch
<1>3. Moves(read_waiters, "rwait")
  BY CountMoves DEF IInv, Counted, CountsMatch
<1>4. Moves(write_waiters, "wwait")
  BY CountMoves DEF IInv, Counted, CountsMatch
<1> QED BY <1>1, <1>2, <1>3, <1>4 DEF Fields

(* A step that moves one thread keeps the fields right, if it changes them  *)
(* by what the move changes.                                                *)
LEMMA MoveKeepsCounted ==
    ASSUME Fields(readers', writers', read_waiters', write_waiters'),
           writers' \in {0, 1}, readers' = 0 \/ writers' = 0
    PROVE  Counted'
BY DEF Fields, Counted, CountsMatch

(* A field that is zero counts nobody, and one that is one a single thread. *)
LEMMA CountZero ==
    ASSUME NEW L
    PROVE  /\ Cardinality(In(L)) = 0 <=> In(L) = {}
           /\ Cardinality(In(L)) = 1 => \A t, u \in In(L) : t = u
<1>1. IsFiniteSet(In(L))
  BY FS_Subset DEF In
<1>2. Cardinality(In(L)) = 0 <=> In(L) = {}
  BY <1>1, FS_EmptySet
<1>3. ASSUME Cardinality(In(L)) = 1 PROVE \A t, u \in In(L) : t = u
  BY <1>1, <1>3, FS_Singleton
<1> QED BY <1>2, <1>3

(* The tests of the macros find whoever is there.                           *)
LEMMA FieldsFind ==
    ASSUME IInv
    PROVE  /\ readers = 0 <=> In("reading") = {}
           /\ writers = 0 <=> In("writing") = {}
           /\ read_waiters = 0 <=> In("rwait") = {}
           /\ write_waiters = 0 <=> In("wwait") = {}
           /\ \A t, u \in In("writing") : t = u
<1>1. /\ readers = 0 <=> In("reading") = {}
      /\ writers = 0 <=> In("writing") = {}
      /\ read_waiters = 0 <=> In("rwait") = {}
      /\ write_waiters = 0 <=> In("wwait") = {}
  BY CountZero DEF IInv, Counted, CountsMatch
<1>2. CASE writers = 1
  BY <1>1, <1>2, CountZero DEF IInv, Counted, CountsMatch
<1>3. CASE writers = 0
  BY <1>1, <1>3
<1> QED BY <1>1, <1>2, <1>3 DEF IInv, Counted

-----------------------------------------------------------------------------
(* RW_INIT establishes the invariant.                                       *)
LEMMA InitIInv == Init => IInv
<1> SUFFICES ASSUME Init PROVE IInv
  OBVIOUS
<1>1. \A l : l # "idle" => In(l) = {}
  BY DEF Init, In
<1>2. CountsMatch
  BY <1>1, FS_EmptySet DEF CountsMatch, Init
<1> QED BY <1>2 DEF IInv, Placed, Counted, Init, PC

(* The places of the threads do not depend on the fields.                   *)
LEMMA NextPlaced == Placed /\ [Next]_vars => Placed'
<1> SUFFICES ASSUME Placed, [Next]_vars PROVE Placed'
  OBVIOUS
<1> USE DEF Placed, Goto, PC
<1>1. ASSUME NEW t \in Threads, ReaderEnter(t) PROVE Placed'
  BY <1>1 DEF ReaderEnter, StartReading
<1>2. ASSUME NEW t \in Threads, ReaderWake(t) PROVE Placed'
  BY <1>2 DEF ReaderWake, StartReading
<1>3. ASSUME NEW t \in Threads, ReaderExit(t) PROVE Placed'
  BY <1>3 DEF ReaderExit, SignalWrite
<1>4. ASSUME NEW t \in Threads, WriterEnter(t) PROVE Placed'
  BY <1>4 DEF WriterEnter, StartWriting
<1>5. ASSUME NEW t \in Threads, WriterWake(t) PROVE Placed'
  BY <1>5 DEF WriterWake, StartWriting
<1>6. ASSUME NEW t \in Threads, WriterExit(t) PROVE Placed'
  BY <1>6 DEF WriterExit, PassOn, WakeReaders, WakeWriter, SignalWrite
<1>7. ASSUME NEW t \in Threads, SpuriousWake(t) PROVE Placed'
  BY <1>7 DEF SpuriousWake
<1>8. CASE UNCHANGED vars
  BY <1>8 DEF vars
<1> QED BY <1>1, <1>2, <1>3, <1>4, <1>5, <1>6, <1>7, <1>8 DEF Next, Proceed

(* Every macro changes the fields by what it does to the place of its       *)
(* thread.                                                                  *)
LEMMA NextCounted == IInv /\ [Next]_vars => Counted'
<1> SUFFICES ASSUME IInv, [Next]_vars PROVE Counted'
  OBVIOUS
<1> USE DEF IInv, Counted, Placed, Bit
<1>1. ASSUME UNCHANGED <<readers, writers, read_waiters, write_waiters, pc>>
      PROVE  Counted'
  BY <1>1 DEF CountsMatch, In
<1>2. ASSUME NEW t \in Threads, ReaderEnter(t) PROVE Counted'
  <2>1. CASE StartReading(t)
    <3>1. Fields(readers', writers', read_waiters', write_waiters')
      BY <1>2, <2>1, FieldsMove DEF ReaderEnter, StartReading, ReaderHasToWait
    <3> QED BY <1>2, <2>1, <3>1, MoveKeepsCounted
            DEF ReaderEnter, StartReading, ReaderHasToWait
  <2>2. CASE Goto(t, "rwait")
    <3>1. Fields(readers', writers', read_waiters', write_waiters')
      BY <1>2, <2>2, FieldsMove DEF ReaderEnter, StartReading, ReaderHasToWait
    <3> QED BY <1>2, <2>2, <3>1, MoveKeepsCounted
            DEF ReaderEnter, StartReading, ReaderHasToWait
  <2> QED BY <1>2, <2>1, <2>2 DEF ReaderEnter
<1>3. ASSUME NEW t \in Threads, ReaderWake(t) PROVE Counted'
  <2>1. CASE StartReading(t)
    <3>1. Fields(readers', writers', read_waiters', write_waiters')
      BY <1>3, <2>1, FieldsMove DEF ReaderWake, StartReading, ReaderHasToWait
    <3> QED BY <1>3, <2>1, <3>1, MoveKeepsCounted
            DEF ReaderWake, StartReading, ReaderHasToWait
  <2> QED BY <1>1, <1>3, <2>1 DEF ReaderWake
<1>4. ASSUME NEW t \in Threads, ReaderExit(t) PROVE Counted'
  <2>1. Fields(readers', writers', read_waiters', write_waiters')
    BY <1>4, FieldsMove DEF ReaderExit
  <2>2. writers' = 0
    BY <1>4, FieldsFind DEF ReaderExit, In
  <2> QED BY <2>1, <2>2, MoveKeepsCounted
<1>5. ASSUME NEW t \in Threads, WriterEnter(t) PROVE Counted'
  <2>1. CASE StartWriting(t)
    <3>1. Fields(readers', writers', read_waiters', write_waiters')
      BY <1>5, <2>1, FieldsMove DEF WriterEnter, StartWriting, Busy
    <3> QED BY <1>5, <2>1, <3>1, MoveKeepsCounted DEF WriterEnter, StartWriting, Busy
  <2>2. CASE Goto(t, "wwait")
    <3>1. Fields(readers', writers', read_waiters', write_waiters')
      BY <1>5, <2>2, FieldsMove DEF WriterEnter, StartWriting, Busy
    <3> QED BY <1>5, <2>2, <3>1, MoveKeepsCounted DEF WriterEnter, StartWriting, Busy
  <2> QED BY <1>5, <2>1, <2>2 DEF WriterEnter
<1>6. ASSUME NEW t \in Threads, WriterWake(t) PROVE Counted'
  <2>1. CASE StartWriting(t)
    <3>1. Fields(readers', writers', read_waiters', write_waiters')
      BY <1>6, <2>1, FieldsMove DEF WriterWake, StartWriting, Busy
    <3> QED BY <1>6, <2>1, <3>1, MoveKeepsCounted DEF WriterWake, StartWriting, Busy
  <2> QED BY <1>1, <1>6, <2>1 DEF WriterWake
<1>7. ASSUME NEW t \in Threads, WriterExit(t) PROVE Counted'
  <2>1. Fields(readers, writers - 1, read_waiters, write_waiters)
    BY <1>7, FieldsMove DEF WriterExit
  <2>2. writers = 1 /\ readers = 0
    BY <1>7, FieldsFind DEF WriterExit, In
  <2> QED BY <1>7, <2>1, <2>2, MoveKeepsCounted DEF WriterExit
<1>8. ASSUME NEW t \in Threads, SpuriousWake(t) PROVE Counted'
  BY <1>1, <1>8 DEF SpuriousWake
<1>9. CASE UNCHANGED vars
  BY <1>1, <1>9 DEF vars
<1> QED BY <1>2, <1>3, <1>4, <1>5, <1>6, <1>7, <1>8, <1>9 DEF Next, Proceed

(* IInv is inductive, so it holds at every point of every execution.        *)
THEOREM Invariance == Spec => []IInv
<1>1. IInv /\ [Next]_vars => IInv'
  BY NextPlaced, NextCounted DEF IInv
<1> QED BY InitIInv, <1>1, PTL DEF Spec

-----------------------------------------------------------------------------
(* The fields keep their types: no waiting count drops below zero, and       *)
(* (l)->writers, which WRITER_ENTER and WRITER_EXIT assign, stays a flag.    *)
THEOREM Typing == Spec => []TypeOK
<1>1. IInv => TypeOK
  BY DEF IInv, Placed, Counted, TypeOK
<1> QED BY Invariance, <1>1, PTL

(* The fields of the list count the threads they stand for.                  *)
THEOREM Counting == Spec => []CountsMatch
<1>1. IInv => CountsMatch
  BY DEF IInv, Counted
<1> QED BY Invariance, <1>1, PTL

-----------------------------------------------------------------------------
(* The wake-ups of READER_EXIT and WRITER_EXIT.                             *)
(* A signal to a writer that is counted leaves one awake in its loop.       *)
LEMMA SignalWakesOne ==
    ASSUME Placed, SignalWrite, write' # {}
    PROVE  \E t \in write : write' = write \ {t} /\ pc[t] = "wwait" /\ t \in Threads
BY DEF SignalWrite, Placed

LEMMA NextWakeups == IInv /\ NoLostWakeup /\ [Next]_vars => NoLostWakeup'
<1> SUFFICES ASSUME IInv, NoLostWakeup, [Next]_vars PROVE NoLostWakeup'
  OBVIOUS
<1> USE DEF IInv, Counted, Placed, NoLostWakeup, ReaderHasToWait, Busy, Goto, In
<1>1. ASSUME NEW t \in Threads, ReaderEnter(t) PROVE NoLostWakeup'
  BY <1>1 DEF ReaderEnter, StartReading
<1>2. ASSUME NEW t \in Threads, ReaderWake(t) PROVE NoLostWakeup'
  BY <1>2 DEF ReaderWake, StartReading
<1>3. ASSUME NEW t \in Threads, ReaderExit(t) PROVE NoLostWakeup'
  <2>1. read' # {} => ReaderHasToWait'
    BY <1>3 DEF ReaderExit
  <2>2. ASSUME write' # {} PROVE \E u \in In("wwait")' : u \notin write'
    (* A writer that sleeps is counted, so READER_EXIT signalled.           *)
    <3>1. write_waiters > 0 /\ SignalWrite
      BY <1>3, <2>2, FieldsFind DEF ReaderExit, SignalWrite
    <3> QED BY <1>3, <2>2, <3>1, SignalWakesOne DEF ReaderExit
  <2> QED BY <2>1, <2>2
<1>4. ASSUME NEW t \in Threads, WriterEnter(t) PROVE NoLostWakeup'
  BY <1>4 DEF WriterEnter, StartWriting
<1>5. ASSUME NEW t \in Threads, WriterWake(t) PROVE NoLostWakeup'
  BY <1>5 DEF WriterWake, StartWriting
<1>6. ASSUME NEW t \in Threads, WriterExit(t) PROVE NoLostWakeup'
  <2>1. CASE WakeWriter
    <3>1. write' # {} => \E u \in In("wwait")' : u \notin write'
      BY <1>6, <2>1, SignalWakesOne DEF WriterExit, WakeWriter
    <3> QED BY <1>6, <2>1, <3>1 DEF WriterExit, WakeWriter
  <2>2. CASE write_waiters = 0
    (* Nobody is in a writer's loop; the broadcast leaves no reader asleep. *)
    <3>1. write = {} /\ (read_waiters = 0 => read = {})
      BY <2>2, FieldsFind
    <3> QED BY <1>6, <2>2, <3>1 DEF WriterExit, PassOn, WakeWriter, WakeReaders
  <2> QED BY <1>6, <2>1, <2>2 DEF WriterExit, PassOn
<1>7. ASSUME NEW t \in Threads, SpuriousWake(t) PROVE NoLostWakeup'
  BY <1>7 DEF SpuriousWake
<1>8. CASE UNCHANGED vars
  BY <1>8 DEF vars
<1> QED BY <1>1, <1>2, <1>3, <1>4, <1>5, <1>6, <1>7, <1>8 DEF Next, Proceed

(* No wake-up is lost, with no hypothesis on the callers: a free list that   *)
(* writers sleep on always has a woken writer coming for it, and a reader    *)
(* sleeps only behind a writer.                                              *)
THEOREM Wakeups == Spec => []NoLostWakeup
<1>1. Init => NoLostWakeup
  BY DEF Init, NoLostWakeup
<1> QED BY <1>1, NextWakeups, Invariance, PTL DEF Spec

-----------------------------------------------------------------------------
(* Refinement.  The owners are the threads between an ENTER and its EXIT.   *)
Readers == In("reading")
Writers == In("writing")

(* Taking the lock and giving it back are the steps of RWLock.              *)
LEMMA StartReadingBegins ==
    ASSUME IInv, NEW t \in Threads, StartReading(t), pc[t] \notin {"reading", "writing"}
    PROVE  Lock!BeginRead(t)
<1>1. Writers = {} /\ t \notin Readers
  BY FieldsFind DEF StartReading, ReaderHasToWait, Readers, Writers, In
<1>2. Readers' = Readers \cup {t} /\ Writers' = Writers
  BY DEF StartReading, Goto, IInv, Placed, Readers, Writers, In
<1> QED BY <1>1, <1>2 DEF Lock!BeginRead, Readers, Writers

LEMMA StartWritingBegins ==
    ASSUME IInv, NEW t \in Threads, StartWriting(t), pc[t] \notin {"reading", "writing"}
    PROVE  Lock!BeginWrite(t)
<1>1. Readers = {} /\ Writers = {}
  BY FieldsFind DEF StartWriting, Busy, Readers, Writers
<1>2. Readers' = Readers /\ Writers' = {t}
  BY <1>1 DEF StartWriting, Goto, IInv, Placed, Readers, Writers, In
<1> QED BY <1>1, <1>2 DEF Lock!BeginWrite, Readers, Writers

LEMMA ReaderExitEnds ==
    ASSUME IInv, NEW t \in Threads, ReaderExit(t)
    PROVE  Lock!EndRead(t)
BY DEF IInv, Placed, ReaderExit, Goto, In, Lock!EndRead

LEMMA WriterExitEnds ==
    ASSUME IInv, NEW t \in Threads, WriterExit(t)
    PROVE  Lock!EndWrite(t)
<1>1. t \in Writers
  BY DEF WriterExit, Writers, In
<1>2. Writers' = {} /\ Readers' = Readers
  BY <1>1, FieldsFind DEF IInv, Placed, WriterExit, Goto, In, Writers, Readers
<1> QED BY <1>1, <1>2 DEF Lock!EndWrite, Readers, Writers

(* Every step of the macros is a step of RWLock, or changes no owner.       *)
LEMMA NextRefines == IInv /\ [Next]_vars => [Lock!Next]_(Lock!lockVars)
<1> SUFFICES ASSUME IInv, [Next]_vars PROVE [Lock!Next]_<<Readers, Writers>>
  BY DEF Lock!lockVars, Readers, Writers
<1> DEFINE Goal == [Lock!Next]_<<Readers, Writers>>
<1> USE DEF Lock!Next
<1>1. ASSUME UNCHANGED pc PROVE Goal
  BY <1>1 DEF Readers, Writers, In
<1>2. ASSUME NEW t \in Threads, NEW l \in {"rwait", "wwait"}, Goto(t, l), pc[t] = "idle"
      PROVE  Goal
  BY <1>2 DEF IInv, Placed, Goto, In, Readers, Writers
<1>3. ASSUME NEW t \in Threads, ReaderEnter(t) \/ ReaderWake(t) PROVE Goal
  BY <1>1, <1>2, <1>3, StartReadingBegins DEF ReaderEnter, ReaderWake
<1>4. ASSUME NEW t \in Threads, WriterEnter(t) \/ WriterWake(t) PROVE Goal
  BY <1>1, <1>2, <1>4, StartWritingBegins DEF WriterEnter, WriterWake
<1>5. ASSUME NEW t \in Threads, ReaderExit(t) PROVE Goal
  BY <1>5, ReaderExitEnds
<1>6. ASSUME NEW t \in Threads, WriterExit(t) PROVE Goal
  BY <1>6, WriterExitEnds
<1>7. ASSUME NEW t \in Threads, SpuriousWake(t) PROVE Goal
  BY <1>1, <1>7 DEF SpuriousWake
<1>8. CASE UNCHANGED vars
  BY <1>1, <1>8 DEF vars
<1> QED BY <1>3, <1>4, <1>5, <1>6, <1>7, <1>8 DEF Next, Proceed

(* The macros implement the readers/writers lock: shared read access or      *)
(* exclusive write access, although a reader waits for writers that wait.    *)
THEOREM Refinement == Spec => ImplementsLock
<1>1. Init => Lock!Init
  BY DEF Init, Lock!Init, In
<1> QED BY <1>1, NextRefines, Invariance, PTL DEF Spec, ImplementsLock, Lock!Spec
=============================================================================
