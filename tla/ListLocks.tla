------------------------------ MODULE ListLocks ------------------------------
(***************************************************************************)
(* The locks that the public calls take, list by list and in which order:  *)
(* READER_ENTER, WRITER_ENTER and their EXITs in skl_ins.c, skl_del.c,     *)
(* skl_search.c, skl_join.c, skl_iter.c and skl_misc.c.                    *)
(*                                                                         *)
(* A lock is what RWLock promises, plus who has to wait for whom: with     *)
(* rwlock.c (V1) a reader waits for an active writer only, with the macros *)
(* of skl_threads.h (V2) for a waiting writer as well.  A call is the      *)
(* sequence of its lock operations; what it does in between is the subject *)
(* of SkipList.                                                            *)
(***************************************************************************)
EXTENDS Integers, Sequences, FiniteSets

CONSTANTS Threads,
          Lists,
          Calls,        \* the calls the program makes, as records
          WritersFirst  \* TRUE with THREAD_READERS_WRITERS_V2

ASSUME LocksAssumption ==
    /\ IsFiniteSet(Threads)
    /\ Calls \subseteq
           [op : {"read", "write", "bad"}, list : Lists]
             \cup [op : {"copy", "joinAD", "joinND"}, source : Lists, target : Lists]
             \cup [op : {"intersect"}, source1 : Lists, source2 : Lists, target : Lists]

VARIABLES readers,    \* readers[l][t]: how often thread t has l locked for reading
          writers,    \* writers[l]: the thread that has l locked for writing
          todo,       \* what is left of the call each thread is in
          waiting     \* the threads asleep on a condition variable

vars == <<readers, writers, todo, waiting>>

R(l) == [do |-> "READER_ENTER", list |-> l]
r(l) == [do |-> "READER_EXIT",  list |-> l]
W(l) == [do |-> "WRITER_ENTER", list |-> l]
w(l) == [do |-> "WRITER_EXIT",  list |-> l]

(* MySKLsearch, MySKLgetNextNode, MySKLgetNodeNum, ...                      *)
Reading(l) == <<R(l), r(l)>>

(* A bug: read first, and upgrade the lock when there is something to do.   *)
WritingByUpgrade(l) == <<R(l), W(l), w(l), r(l)>>

(* MySKLinsertAD, ND, UPD, UPD_ALL, MySKLdeleteNF, AF.                      *)
Writing(l) == <<W(l), w(l)>>

(* A bug: one way out of the call does not unlock the target.               *)
CopyForgetsTarget(s, t) == <<R(s), W(t), r(s)>>

(* A bug: the code after the loop unlocks the source as well.               *)
CopyUnlocksTwice(s, t) == <<R(s), W(t), w(t), r(s), r(s)>>

(* Unlocked in the opposite order, on both ways out.                        *)
Copy(s, t) == <<R(s), W(t), w(t), r(s)>>

JoinAD(t, s) == <<R(s), W(t), w(t), r(s)>>

JoinND(t, s) == <<R(s), W(t), r(s), w(t)>>

Intersect(s1, s2, t) == <<R(s1), R(s2), W(t), r(s1), r(s2), w(t)>>

(* MySKLsearchALL, MySKLsetIterator and MySKLgetPrevNode lock the list and   *)
(* then check their arguments; a check that fails returns.                  *)
CheckFails(l) == <<R(l)>>

Steps(c) ==
    CASE c.op = "read"      -> Reading(c.list)
      [] c.op = "write"     -> Writing(c.list)
      [] c.op = "copy"      -> Copy(c.source, c.target)
      [] c.op = "joinAD"    -> JoinAD(c.target, c.source)
      [] c.op = "joinND"    -> JoinND(c.target, c.source)
      [] c.op = "intersect" -> Intersect(c.source1, c.source2, c.target)
      [] c.op = "bad"       -> CheckFails(c.list)

-----------------------------------------------------------------------------
Init ==
    /\ readers = [l \in Lists |-> [t \in Threads |-> 0]]
    /\ writers = [l \in Lists |-> {}]
    /\ todo = [t \in Threads |-> <<>>]
    /\ waiting = {}

Readers(l) == {t \in Threads : readers[l][t] > 0}

(* The threads asleep in WRITER_ENTER(l).                                   *)
WriteWaiters(l) == {t \in waiting : Head(todo[t]) = W(l)}

(* Whom the next lock operation of thread t has to wait for.                *)
Blockers(t) ==
    LET l == Head(todo[t]).list
    IN  CASE Head(todo[t]) = R(l) ->
               writers[l] \cup IF WritersFirst THEN WriteWaiters(l) ELSE {}
          [] Head(todo[t]) = W(l) -> writers[l] \cup Readers(l)
          [] OTHER -> {}

Begin(t, c) ==
    /\ todo[t] = <<>>
    /\ todo' = [todo EXCEPT ![t] = Steps(c)]
    /\ UNCHANGED <<readers, writers, waiting>>

Advance(t) == todo' = [todo EXCEPT ![t] = Tail(@)]

Wait(t) ==
    /\ todo[t] # <<>> /\ t \notin waiting
    /\ Blockers(t) # {}
    /\ waiting' = waiting \cup {t}
    /\ UNCHANGED <<readers, writers, todo>>

Enter(t) ==
    /\ todo[t] # <<>>
    /\ Blockers(t) = {}
    /\ \E l \in Lists :
          \/ /\ Head(todo[t]) = R(l)
             /\ readers' = [readers EXCEPT ![l][t] = @ + 1]
             /\ UNCHANGED writers
          \/ /\ Head(todo[t]) = W(l)
             /\ writers' = [writers EXCEPT ![l] = {t}]
             /\ UNCHANGED readers
    /\ waiting' = waiting \ {t}
    /\ Advance(t)

Exit(t) ==
    /\ todo[t] # <<>>
    /\ \E l \in Lists :
          \/ /\ Head(todo[t]) = r(l)
             /\ readers' = [readers EXCEPT ![l][t] = @ - 1]
             /\ UNCHANGED writers
          \/ /\ Head(todo[t]) = w(l)
             /\ writers' = [writers EXCEPT ![l] = {}]
             /\ UNCHANGED readers
    /\ Advance(t)
    /\ UNCHANGED waiting

Next == \E t \in Threads :
            (\E c \in Calls : Begin(t, c)) \/ Wait(t) \/ Enter(t) \/ Exit(t)

Spec == Init /\ [][Next]_vars

-----------------------------------------------------------------------------
TypeOK ==
    /\ readers \in [Lists -> [Threads -> Nat]]
    /\ writers \in [Lists -> SUBSET Threads]
    /\ waiting \subseteq {t \in Threads : todo[t] # <<>>}

(* No group of threads waits for one another, a thread that waits for       *)
(* itself included.                                                         *)
NoDeadlock ==
    \A S \in (SUBSET Threads) \ {{}} :
        \E t \in S : todo[t] = <<>> \/ Blockers(t) = {} \/ ~(Blockers(t) \subseteq S)

(* A call that has returned has left nothing locked.                        *)
IdleHoldsNothing ==
    \A t \in Threads : todo[t] = <<>> =>
        \A l \in Lists : readers[l][t] = 0 /\ t \notin writers[l]
=============================================================================
