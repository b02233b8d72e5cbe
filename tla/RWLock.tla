------------------------------- MODULE RWLock -------------------------------
(***************************************************************************)
(* What a readers/writers lock promises its callers, whatever protocol     *)
(* implements it: src/private/rwlock.c (V1) and the READER_ENTER ..        *)
(* WRITER_EXIT macros of skl_threads.h (V2) are both meant to implement    *)
(* this module.                                                            *)
(***************************************************************************)
CONSTANT Threads

VARIABLES readers,   \* threads that own the lock for shared read access
          writers    \* threads that own the lock for exclusive write access

lockVars == <<readers, writers>>

Init == readers = {} /\ writers = {}

BeginRead(t) ==
    /\ t \notin readers
    /\ writers = {}
    /\ readers' = readers \cup {t}
    /\ UNCHANGED writers

EndRead(t) ==
    /\ t \in readers
    /\ readers' = readers \ {t}
    /\ UNCHANGED writers

BeginWrite(t) ==
    /\ readers = {} /\ writers = {}
    /\ writers' = {t}
    /\ UNCHANGED readers

EndWrite(t) ==
    /\ t \in writers
    /\ writers' = {}
    /\ UNCHANGED readers

Next == \E t \in Threads :
            BeginRead(t) \/ EndRead(t) \/ BeginWrite(t) \/ EndWrite(t)

Spec == Init /\ [][Next]_lockVars

-----------------------------------------------------------------------------

(* Shared read access or exclusive write access, never both, and never two *)
(* writers (the header comment of rwlock.c).                               *)
Exclusion ==
    /\ readers \subseteq Threads /\ writers \subseteq Threads
    /\ readers = {} \/ writers = {}
    /\ \A t, u \in writers : t = u
=============================================================================
