------------------------------ MODULE RWLockV2 ------------------------------
(***************************************************************************)
(* The other lock of the library: the macros that skl_threads.h defines    *)
(* with THREAD_READERS_WRITERS_V2, as a monitor.                           *)
(*                                                                         *)
(* Each macro is one critical section of (l)->lock, cut in two where it    *)
(* waits, so a macro is one action and the rest of its loop another.  A    *)
(* reader waits for a writer that waits: "a horde of writers can starve    *)
(* readers indefinitely", which is why the calls of writers are bounded    *)
(* and those of readers are not.                                           *)
(***************************************************************************)
EXTENDS Integers, FiniteSets

CONSTANTS Threads,       \* the threads that share the list
          MaxWrites      \* how often each thread calls WRITER_ENTER

ASSUME V2Assumption ==
    /\ IsFiniteSet(Threads)
    /\ MaxWrites \in Nat

VARIABLES readers, writers, read_waiters, write_waiters,  \* the fields of the list
          read, write,  \* the threads asleep on each condition variable
          pc,           \* where each thread is
          writes        \* how often each thread has called WRITER_ENTER

vars == <<readers, writers, read_waiters, write_waiters, read, write, pc, writes>>

PC == {"idle", "rwait", "reading", "wwait", "writing"}

In(l) == {t \in Threads : pc[t] = l}

Goto(t, l) == pc' = [pc EXCEPT ![t] = l]

(* RW_INIT.                                                                 *)
Init ==
    /\ readers = 0 /\ writers = 0
    /\ read_waiters = 0 /\ write_waiters = 0
    /\ read = {} /\ write = {}
    /\ pc = [t \in Threads |-> "idle"]
    /\ writes = [t \in Threads |-> 0]

(* cond_signal( (l)->write ): some thread asleep, if there is one.          *)
SignalWrite ==
    \/ write = {} /\ write' = {}
    \/ \E t \in write : write' = write \ {t}

-----------------------------------------------------------------------------
(* READER_ENTER, READER_EXIT                                                *)

ReaderHasToWait == writers # 0 \/ write_waiters # 0

StartReading(t) ==
    /\ ~ReaderHasToWait
    /\ readers' = readers + 1
    /\ Goto(t, "reading")

ReaderEnter(t) ==
    /\ pc[t] = "idle"
    /\ \/ StartReading(t) /\ UNCHANGED <<read_waiters, read>>
       \/ /\ ReaderHasToWait
          /\ read_waiters' = read_waiters + 1
          /\ read' = read \cup {t}
          /\ Goto(t, "rwait")
          /\ UNCHANGED readers
    /\ UNCHANGED <<writers, write_waiters, write, writes>>

(* A bug: read_waiters is decremented inside the loop.                      *)
ReaderWakeCountsRounds(t) ==
    /\ pc[t] = "rwait" /\ t \notin read
    /\ read_waiters' = read_waiters - 1
    /\ \/ StartReading(t) /\ UNCHANGED read
       \/ ReaderHasToWait /\ read' = read \cup {t} /\ UNCHANGED <<readers, pc>>
    /\ UNCHANGED <<writers, write_waiters, write, writes>>

(* Back from cond_wait with the lock.                                       *)
ReaderWake(t) ==
    /\ pc[t] = "rwait" /\ t \notin read
    /\ \/ /\ StartReading(t)
          /\ read_waiters' = read_waiters - 1
          /\ UNCHANGED read
       \/ /\ ReaderHasToWait
          /\ read' = read \cup {t}
          /\ UNCHANGED <<readers, read_waiters, pc>>
    /\ UNCHANGED <<writers, write_waiters, write, writes>>

(* A bug: only the first reader in signals when it leaves.                  *)
ReaderExitKeepsSilent(t) ==
    /\ pc[t] = "reading"
    /\ readers' = readers - 1
    /\ IF readers' > 0 /\ write_waiters > 0 THEN SignalWrite ELSE UNCHANGED write
    /\ Goto(t, "idle")
    /\ UNCHANGED <<writers, read_waiters, write_waiters, read, writes>>

ReaderExit(t) ==
    /\ pc[t] = "reading"
    /\ readers' = readers - 1
    /\ IF write_waiters > 0 THEN SignalWrite ELSE UNCHANGED write
    /\ Goto(t, "idle")
    /\ UNCHANGED <<writers, read_waiters, write_waiters, read, writes>>

-----------------------------------------------------------------------------
(* WRITER_ENTER, WRITER_EXIT                                                *)

Busy == readers # 0 \/ writers # 0

StartWriting(t) ==
    /\ ~Busy
    /\ writers' = 1
    /\ Goto(t, "writing")

WriterEnter(t) ==
    /\ pc[t] = "idle" /\ writes[t] < MaxWrites
    /\ writes' = [writes EXCEPT ![t] = @ + 1]
    /\ \/ StartWriting(t) /\ UNCHANGED <<write_waiters, write>>
       \/ /\ Busy
          /\ write_waiters' = write_waiters + 1
          /\ write' = write \cup {t}
          /\ Goto(t, "wwait")
          /\ UNCHANGED writers
    /\ UNCHANGED <<readers, read_waiters, read>>

(* A bug: a writer that comes back from cond_wait leaves its count behind.  *)
WriterWakeStaysCounted(t) ==
    /\ pc[t] = "wwait" /\ t \notin write
    /\ \/ StartWriting(t) /\ UNCHANGED write
       \/ Busy /\ write' = write \cup {t} /\ UNCHANGED <<writers, pc>>
    /\ UNCHANGED <<readers, read_waiters, write_waiters, read, writes>>

(* A bug: "if" in place of "do ... while".                                  *)
WriterWakeUntested(t) ==
    /\ pc[t] = "wwait" /\ t \notin write
    /\ writers' = 1
    /\ write_waiters' = write_waiters - 1
    /\ Goto(t, "writing")
    /\ UNCHANGED <<readers, read_waiters, read, write, writes>>

WriterWake(t) ==
    /\ pc[t] = "wwait" /\ t \notin write
    /\ \/ /\ StartWriting(t)
          /\ write_waiters' = write_waiters - 1
          /\ UNCHANGED write
       \/ /\ Busy
          /\ write' = write \cup {t}
          /\ UNCHANGED <<writers, write_waiters, pc>>
    /\ UNCHANGED <<readers, read_waiters, read, writes>>

WakeReaders == read_waiters > 0 /\ read' = {} /\ UNCHANGED write
WakeWriter  == write_waiters > 0 /\ SignalWrite /\ UNCHANGED read

(* A bug: the if and the else exchanged.                                    *)
PassOnToReaders ==
    \/ WakeReaders
    \/ read_waiters = 0 /\ WakeWriter
    \/ read_waiters = 0 /\ write_waiters = 0 /\ UNCHANGED <<read, write>>

(* The if and else of WRITER_EXIT.                                          *)
PassOn ==
    \/ WakeWriter
    \/ write_waiters = 0 /\ WakeReaders
    \/ write_waiters = 0 /\ read_waiters = 0 /\ UNCHANGED <<read, write>>

WriterExit(t) ==
    /\ pc[t] = "writing"
    /\ writers' = 0
    /\ PassOn
    /\ Goto(t, "idle")
    /\ UNCHANGED <<readers, read_waiters, write_waiters, writes>>

-----------------------------------------------------------------------------
(* cond_wait may return although nobody signalled.                          *)
SpuriousWake(t) ==
    /\ t \in read \cup write
    /\ read' = read \ {t}
    /\ write' = write \ {t}
    /\ UNCHANGED <<readers, writers, read_waiters, write_waiters, pc, writes>>

(* What a thread does by itself once it has begun a call.                   *)
Proceed(t) == ReaderWake(t) \/ ReaderExit(t) \/ WriterWake(t) \/ WriterExit(t)

Next == \E t \in Threads :
            ReaderEnter(t) \/ WriterEnter(t) \/ Proceed(t) \/ SpuriousWake(t)

Spec == Init /\ [][Next]_vars

(* Threads that can run do run and leave the list in the end; nobody has to *)
(* call, and nothing is assumed of the order in which threads get the lock.  *)
FairSpec == Spec /\ \A t \in Threads : WF_vars(Proceed(t))

-----------------------------------------------------------------------------
TypeOK ==
    /\ readers \in Nat /\ writers \in {0, 1}
    /\ read_waiters \in Nat /\ write_waiters \in Nat
    /\ read \subseteq Threads /\ write \subseteq Threads
    /\ pc \in [Threads -> PC]
    /\ writes \in [Threads -> 0..MaxWrites]

(* Each counter is the number of threads it stands for.                     *)
CountsMatch ==
    /\ readers = Cardinality(In("reading"))
    /\ writers = Cardinality(In("writing"))
    /\ read_waiters = Cardinality(In("rwait"))
    /\ write_waiters = Cardinality(In("wwait"))

(* A reader sleeps only while a writer is active or waits, and if writers   *)
(* sleep while nobody has the lock, one that was woken is on the way to it: *)
(* the signals of READER_EXIT and WRITER_EXIT reach whom they have to.      *)
NoLostWakeup ==
    /\ read # {} => ReaderHasToWait
    /\ ~Busy /\ write # {} => \E t \in In("wwait") : t \notin write

(* Every thread that waits gets its turn, however often the readers come    *)
(* back, as long as the writers do not come back for ever.                  *)
EveryCallReturns ==
    \A t \in Threads : pc[t] \in {"rwait", "wwait"} ~> pc[t] \notin {"rwait", "wwait"}

(* The macros are a readers/writers lock.                                   *)
Lock == INSTANCE RWLock WITH readers <- In("reading"), writers <- In("writing")

ImplementsLock == Lock!Spec
=============================================================================
