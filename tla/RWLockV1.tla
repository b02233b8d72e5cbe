------------------------------ MODULE RWLockV1 ------------------------------
(***************************************************************************)
(* The default lock of the library, src/private/rwlock.c, as a monitor.    *)
(*                                                                         *)
(* Every field but "valid" is read and written only with rwl->mutex held,  *)
(* and the mutex is given up only by unlocking it or inside                *)
(* pthread_cond_wait.  So each stretch of code between two such points is  *)
(* one action, and a thread inside pthread_cond_wait is a member of the    *)
(* set of the condition variable it sleeps on.  A thread that was signalled *)
(* leaves the set and still has to get the mutex back, in any order with   *)
(* the others: that is its next action.  "valid" is tested before the      *)
(* mutex is taken, so the test is an action of its own (Call).             *)
(***************************************************************************)
EXTENDS Integers, FiniteSets

CONSTANTS Threads,      \* the threads that share the lock
          MaxCalls,     \* how many times each thread calls into rwlock.c
          Cancellable,  \* the waits a thread may be cancelled in
          Destroyers    \* the thread, if any, that may call rwl_destroy

ASSUME ConstAssumption ==
    /\ IsFiniteSet(Threads)
    /\ MaxCalls \in Nat
    /\ Cancellable \subseteq {"read", "write"}
    /\ Destroyers \subseteq Threads
    /\ \A t, u \in Destroyers : t = u

VARIABLES r_active,  \* readers active
          w_active,  \* 1 while a writer is active
          r_wait,    \* readers waiting
          w_wait,    \* writers waiting
          valid,     \* rwl->valid = RWLOCK_VALID
          read,      \* the threads asleep on the read condition variable
          write,     \* the threads asleep on the write condition variable
          pc,        \* where each thread is
          calls      \* calls each thread has begun

rwl  == <<r_active, w_active, r_wait, w_wait, valid, read, write>>
vars == <<r_active, w_active, r_wait, w_wait, valid, read, write, pc, calls>>

(* The calls that may block or fail; a thread that is in one of these       *)
(* states has passed the "valid" test and does not have the mutex yet.      *)
Entering == {"readlock", "writelock", "readtrylock", "writetrylock", "destroy"}

PC == Entering \cup
      {"idle",      \* outside rwlock.c, owning nothing
       "rwait",     \* in the while loop of rwl_readlock
       "wwait",     \* in the while loop of rwl_writelock
       "reading",   \* owns the lock for reading
       "writing",   \* owns the lock for writing
       "rcancel",   \* cancelled in rwl_readlock, cleanup not run yet
       "wcancel",   \* cancelled in rwl_writelock, cleanup not run yet
       "dead"}      \* cancelled

In(L) == {t \in Threads : pc[t] \in L}

Goto(t, l) == pc' = [pc EXCEPT ![t] = l]

Init ==
    /\ r_active = 0 /\ w_active = 0
    /\ r_wait = 0 /\ w_wait = 0
    /\ valid = TRUE
    /\ read = {} /\ write = {}
    /\ pc = [t \in Threads |-> "idle"]
    /\ calls = [t \in Threads |-> 0]

-----------------------------------------------------------------------------
(* Entry of a call: EINVAL on a lock that is not valid, otherwise on to     *)
(* pthread_mutex_lock.                                                      *)

Call(t, op) ==
    /\ pc[t] = "idle"
    /\ calls[t] < MaxCalls
    /\ op = "destroy" => t \in Destroyers
    /\ calls' = [calls EXCEPT ![t] = @ + 1]
    /\ IF valid THEN Goto(t, op) ELSE UNCHANGED pc
    /\ UNCHANGED rwl

(* pthread_cond_signal: some thread asleep on the variable, if there is one. *)
(* The read variable is only ever broadcast.                                *)
SignalWrite ==
    \/ write = {} /\ write' = {}
    \/ \E t \in write : write' = write \ {t}

-----------------------------------------------------------------------------
(* rwl_readlock, rwl_readtrylock, rwl_readunlock                            *)

(* The end of rwl_readlock with status 0: the lock is owned for reading.    *)
OwnRead(t) ==
    /\ w_active = 0
    /\ r_active' = r_active + 1
    /\ Goto(t, "reading")

ReadLock(t) ==
    /\ pc[t] = "readlock"
    /\ \/ OwnRead(t) /\ UNCHANGED <<r_wait, read>>
       \/ /\ w_active = 1
          /\ r_wait' = r_wait + 1
          /\ read' = read \cup {t}
          /\ Goto(t, "rwait")
          /\ UNCHANGED r_active
    /\ UNCHANGED <<w_active, w_wait, valid, write, calls>>

(* A bug: r_wait is decremented every time round the loop.                  *)
ReadWakeDecrementsTwice(t) ==
    /\ pc[t] = "rwait" /\ t \notin read
    /\ \/ OwnRead(t) /\ UNCHANGED read
       \/ w_active = 1 /\ read' = read \cup {t} /\ UNCHANGED <<r_active, pc>>
    /\ r_wait' = r_wait - 1
    /\ UNCHANGED <<w_active, w_wait, valid, write, calls>>

(* A reader comes out of pthread_cond_wait with the mutex.                  *)
ReadWake(t) ==
    /\ pc[t] = "rwait" /\ t \notin read
    /\ \/ OwnRead(t) /\ r_wait' = r_wait - 1 /\ UNCHANGED read
       \/ /\ w_active = 1
          /\ read' = read \cup {t}
          /\ UNCHANGED <<r_active, r_wait, pc>>
    /\ UNCHANGED <<w_active, w_wait, valid, write, calls>>

ReadTryLock(t) ==
    /\ pc[t] = "readtrylock"
    /\ \/ OwnRead(t)
       \/ w_active = 1 /\ Goto(t, "idle") /\ UNCHANGED r_active
    /\ UNCHANGED <<w_active, r_wait, w_wait, valid, read, write, calls>>

(* A bug: the last reader out does not signal.                              *)
ReadUnlockKeepsSilent(t) ==
    /\ pc[t] = "reading" /\ valid
    /\ r_active' = r_active - 1
    /\ Goto(t, "idle")
    /\ UNCHANGED <<w_active, r_wait, w_wait, valid, read, write, calls>>

ReadUnlock(t) ==
    /\ pc[t] = "reading" /\ valid
    /\ r_active' = r_active - 1
    /\ IF r_active' = 0 /\ w_wait > 0 THEN SignalWrite ELSE UNCHANGED write
    /\ Goto(t, "idle")
    /\ UNCHANGED <<w_active, r_wait, w_wait, valid, read, calls>>

-----------------------------------------------------------------------------
(* rwl_writelock, rwl_writetrylock, rwl_writeunlock                         *)

(* A bug: the test of a writer forgets the readers.                         *)
BusyIgnoresReaders == w_active = 1

Busy == w_active = 1 \/ r_active > 0

OwnWrite(t) ==
    /\ ~Busy
    /\ w_active' = 1
    /\ Goto(t, "writing")

WriteLock(t) ==
    /\ pc[t] = "writelock"
    /\ \/ OwnWrite(t) /\ UNCHANGED <<w_wait, write>>
       \/ /\ Busy
          /\ w_wait' = w_wait + 1
          /\ write' = write \cup {t}
          /\ Goto(t, "wwait")
          /\ UNCHANGED w_active
    /\ UNCHANGED <<r_active, r_wait, valid, read, calls>>

WriteWake(t) ==
    /\ pc[t] = "wwait" /\ t \notin write
    /\ \/ OwnWrite(t) /\ w_wait' = w_wait - 1 /\ UNCHANGED write
       \/ /\ Busy
          /\ write' = write \cup {t}
          /\ UNCHANGED <<w_active, w_wait, pc>>
    /\ UNCHANGED <<r_active, r_wait, valid, read, calls>>

WriteTryLock(t) ==
    /\ pc[t] = "writetrylock"
    /\ \/ OwnWrite(t)
       \/ Busy /\ Goto(t, "idle") /\ UNCHANGED w_active
    /\ UNCHANGED <<r_active, r_wait, w_wait, valid, read, write, calls>>

(* A bug: the order of the two tests is swapped, as skl_threads.h suggests   *)
(* for its own lock, where every unlock of a reader signals too.            *)
WriteUnlockPrefersWriters(t) ==
    /\ pc[t] = "writing" /\ valid
    /\ w_active' = 0
    /\ \/ w_wait > 0 /\ SignalWrite /\ UNCHANGED read
       \/ w_wait = 0 /\ r_wait > 0 /\ read' = {} /\ UNCHANGED write
       \/ r_wait = 0 /\ w_wait = 0 /\ UNCHANGED <<read, write>>
    /\ Goto(t, "idle")
    /\ UNCHANGED <<r_active, r_wait, w_wait, valid, calls>>

(* The waiting readers, if r_wait counts any, are woken before a writer is. *)
WriteUnlock(t) ==
    /\ pc[t] = "writing" /\ valid
    /\ w_active' = 0
    /\ \/ r_wait > 0 /\ read' = {} /\ UNCHANGED write
       \/ r_wait = 0 /\ w_wait > 0 /\ SignalWrite /\ UNCHANGED read
       \/ r_wait = 0 /\ w_wait = 0 /\ UNCHANGED <<read, write>>
    /\ Goto(t, "idle")
    /\ UNCHANGED <<r_active, r_wait, w_wait, valid, calls>>

-----------------------------------------------------------------------------
(* pthread_cond_wait may return although nobody signalled.                  *)
SpuriousWake(t) ==
    /\ t \in read \cup write
    /\ read' = read \ {t}
    /\ write' = write \ {t}
    /\ UNCHANGED <<r_active, w_active, r_wait, w_wait, valid, pc, calls>>

(* A thread asleep in pthread_cond_wait acts on a cancellation request: it  *)
(* leaves the condition variable and must get the mutex back before its     *)
(* cleanup handler runs.  The thread was not signalled, so it uses up no    *)
(* signal.                                                                  *)
Cancel(t) ==
    /\ \/ t \in read /\ "read" \in Cancellable /\ Goto(t, "rcancel")
       \/ t \in write /\ "write" \in Cancellable /\ Goto(t, "wcancel")
    /\ read' = read \ {t}
    /\ write' = write \ {t}
    /\ UNCHANGED <<r_active, w_active, r_wait, w_wait, valid, calls>>

(* A bug: the cleanup handler only unlocks the mutex.                       *)
ReadCleanupForgetsCount(t) ==
    /\ pc[t] = "rcancel"
    /\ Goto(t, "dead")
    /\ UNCHANGED <<rwl, calls>>

ReadCleanup(t) ==
    /\ pc[t] = "rcancel"
    /\ r_wait' = r_wait - 1
    /\ Goto(t, "dead")
    /\ UNCHANGED <<r_active, w_active, w_wait, valid, read, write, calls>>

WriteCleanup(t) ==
    /\ pc[t] = "wcancel"
    /\ w_wait' = w_wait - 1
    /\ Goto(t, "dead")
    /\ UNCHANGED <<r_active, w_active, r_wait, valid, read, write, calls>>

(* rwl_destroy.  The counters protect the owners and the waiters; only the  *)
(* caller can keep the others away from the mutex that is destroyed, and a  *)
(* program that does not has no defined behaviour from there on: Quiesced.  *)
Quiesced(t) == \A u \in Threads \ {t} : pc[u] \notin Entering

(* A bug: rwl_destroy without the test of lines 84-87.                      *)
DestroyIgnoresWaiters(t) ==
    /\ pc[t] = "destroy"
    /\ IF Busy THEN UNCHANGED valid ELSE Quiesced(t) /\ valid' = FALSE
    /\ Goto(t, "idle")
    /\ UNCHANGED <<r_active, w_active, r_wait, w_wait, read, write, calls>>

Destroy(t) ==
    /\ pc[t] = "destroy"
    /\ IF Busy \/ r_wait # 0 \/ w_wait # 0
       THEN UNCHANGED valid
       ELSE Quiesced(t) /\ valid' = FALSE
    /\ Goto(t, "idle")
    /\ UNCHANGED <<r_active, w_active, r_wait, w_wait, read, write, calls>>

-----------------------------------------------------------------------------
(* What a thread does by itself once it has begun a call.                   *)
Proceed(t) ==
    \/ ReadLock(t) \/ ReadWake(t) \/ ReadTryLock(t) \/ ReadUnlock(t)
    \/ WriteLock(t) \/ WriteWake(t) \/ WriteTryLock(t) \/ WriteUnlock(t)
    \/ ReadCleanup(t) \/ WriteCleanup(t)
    \/ Destroy(t)

(* Every thread has made its calls and has left rwlock.c.                   *)
Finished == /\ \A t \in Threads : pc[t] = "dead" \/ pc[t] = "idle"
            /\ UNCHANGED vars

Next ==
    \/ \E t \in Threads :
          \/ \E op \in Entering : Call(t, op)
          \/ Proceed(t)
          \/ SpuriousWake(t)
          \/ Cancel(t)
    \/ Finished

Spec == Init /\ [][Next]_vars

(* The scheduler runs every thread that can run, the mutex is handed out to *)
(* every thread that keeps asking for it when it is free, and the caller's  *)
(* code between lock and unlock ends.  Nothing is assumed of the order in   *)
(* which threads get the mutex, of cancellation or of spurious wake-ups.    *)
FairSpec == Spec /\ \A t \in Threads : WF_vars(Proceed(t))

-----------------------------------------------------------------------------
TypeOK ==
    /\ r_active \in Nat /\ w_active \in {0, 1}
    /\ r_wait \in Nat /\ w_wait \in Nat
    /\ valid \in BOOLEAN
    /\ read \subseteq Threads /\ write \subseteq Threads
    /\ pc \in [Threads -> PC]
    /\ calls \in [Threads -> 0..MaxCalls]

(* Each counter is the number of threads it stands for, at every point and  *)
(* through every cancellation, and the flag is set exactly while one thread *)
(* owns the lock for writing: the ++ and -- of rwlock.c, which are in       *)
(* different functions and in the cleanup handlers, always balance.         *)
CountsMatch ==
    /\ r_active = Cardinality(In({"reading"}))
    /\ w_active = Cardinality(In({"writing"}))
    /\ r_wait = Cardinality(In({"rwait", "rcancel"}))
    /\ w_wait = Cardinality(In({"wwait", "wcancel"}))

(* A lock that was destroyed has no owner, no waiter and nobody about to    *)
(* run a cleanup handler: rwl_destroy's two tests are enough for everybody  *)
(* who got past pthread_mutex_lock.                                         *)
DestroyedIsUnused ==
    ~valid => \A t \in Threads : pc[t] \in {"idle", "dead"}

(* A reader sleeps only while a writer is active; and if writers sleep while *)
(* nobody owns the lock, somebody who was woken is on the way to the mutex:  *)
(* the wake-up that rwl_readunlock and rwl_writeunlock owe is never lost.    *)
NoLostWakeup ==
    /\ w_active = 0 => read = {}
    /\ ~Busy /\ write # {} =>
          \E t \in Threads : pc[t] \in {"rwait", "wwait"} /\ t \notin read \cup write

(* Every call of rwl_readlock or rwl_writelock comes to an end: the thread   *)
(* owns the lock, or it was cancelled.                                       *)
EveryCallReturns ==
    \A t \in Threads : pc[t] \in {"rwait", "wwait"} ~> pc[t] \notin {"rwait", "wwait"}

(* rwlock.c is a readers/writers lock.                                       *)
Lock == INSTANCE RWLock WITH readers <- In({"reading"}), writers <- In({"writing"})

ImplementsLock == Lock!Spec
=============================================================================
