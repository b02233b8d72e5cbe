--------------------------------- MODULE Dbug ---------------------------------
(***************************************************************************)
(* The debugging library as myskl uses it: src/extra/dbug/dbug.c, its      *)
(* extension for threads dbug-ts-ext.c, the macros of dbug.h and           *)
(* skl_debug.h, the verbosity calls and MySKLmemoryCleaned of skl_misc.c,  *)
(* and the counters of memory blocks, which are kept by four functions in  *)
(* two files.                                                              *)
(*                                                                         *)
(* Every thread has a stack of settings, the name and the nesting level of *)
(* the function it is in (its CODE_STATE), and two switches and a stream   *)
(* (its DBUG_STATE); all threads share init_done, one mutex around each    *)
(* line of output, and the counters.  A line is taken apart into three     *)
(* steps: the mutex is taken, the prefix is written, and the rest of the   *)
(* line is written and the mutex given back (dbug_flush).  What is written *)
(* is left out, who writes when and where is not.                          *)
(***************************************************************************)
EXTENDS Naturals, FiniteSets, SequencesExt

CONSTANTS Threads,
          Functions,  \* the names of functions that are entered
          Keywords,   \* of DBUG_PRINT
          Controls,   \* per thread: the control strings it uses, see Field
          Calls,      \* per thread: the calls it makes, see Next
          Names,      \* of processes, for DBUG_PROCESS
          Streams,    \* what fopen can return
          MAXDEPTH,   \* the default trace depth
          MaxStates, MaxFrames, MaxAllocs,  \* bounds on pushes, nesting, allocations
          Contract,   \* what the program takes care of, see the calls
          NULL

ASSUME DbugAssumption ==
    /\ IsFiniteSet(Threads)
    /\ {"stderr", "stdout", NULL} \cap Streams = {}
    /\ NULL \notin Threads \cup {"stderr", "stdout"}
    /\ NULL \notin [func : Functions \cup {"?func"}, level : 1 .. MaxFrames]
    /\ MaxStates \in Nat \ {0} /\ MaxFrames \in Nat /\ MaxAllocs \in Nat
    /\ \A t \in Threads : \A control \in Controls[t] :
          /\ control \in Seq(ToSet(control))
          /\ \A f \in ToSet(control) :
                /\ f = [flag |-> f.flag, mods |-> f.mods]
                /\ f.flag \in {"d", "f", "o", "p", "t"}
                /\ f.mods \in Seq(ToSet(f.mods))

VARIABLES status,     \* per thread: its DBUG_STATE
          code,       \* per thread: its CODE_STATE
          init_done,
          mutex,      \* THR_my_pthread_mutex_lock_dbug: who has it, or NULL
          open,       \* the streams fopen returned and fclose was not given
          mstat,      \* _skl_mstat
          frames,     \* per thread: the _sstate_ of the functions it is in
          pc, job,    \* per thread: where it is within a line, and of what
          half,       \* the threads that have begun a line and not ended it
          live        \* the blocks the program has and did not free

vars == <<status, code, init_done, mutex, open, mstat, frames, pc, job, half, live>>

-----------------------------------------------------------------------------
(* The states of a thread.  The pointers are thread-specific data: NULL     *)
(* stands for what the first use makes.                                     *)

(* A bug: the stream is not initialised.                                    *)
FreshStatusUnset == [db_on |-> FALSE, no_db |-> TRUE, db_fp |-> "?", process |-> "dbug"]

(* _db_status_                                                              *)
FreshStatus == [db_on |-> FALSE, no_db |-> TRUE, db_fp |-> NULL, process |-> "dbug"]

(* code_state                                                               *)
FreshCode == [level |-> 0, func |-> "?func", stack |-> <<>>, locked |-> FALSE]

(* PushState: nothing is inherited from the settings below.                 *)
FreshSettings ==
    [flags |-> {}, maxdepth |-> MAXDEPTH, functions |-> {}, keywords |-> {},
     processes |-> {}, out_file |-> "stderr"]

NoJob == [op |-> "none", text |-> FALSE]

Init ==
    /\ status = [t \in Threads |-> FreshStatus]
    /\ code   = [t \in Threads |-> FreshCode]
    /\ init_done = FALSE
    /\ mutex = NULL
    /\ open = {}
    /\ mstat = [alloc_count |-> 0, freed_count |-> 0]
    /\ frames = [t \in Threads |-> <<>>]
    /\ pc  = [t \in Threads |-> "run"]
    /\ job = [t \in Threads |-> NoJob]
    /\ half = {}
    /\ live = 0

-----------------------------------------------------------------------------
(* Settings.  A control string is a sequence of fields, each a flag and      *)
(* modifiers.                                                               *)

(* The names in a list of modifiers; no list is {}.                         *)
ListParse(mods) == ToSet(mods)

(* DBUGOpenFile: fp is what fopen returned, or NULL.  A new stream takes the *)
(* place of an old one.                                                     *)
DBUGOpenFile(acc, name, fp) ==
    LET to(s) == [acc EXCEPT !.fp = s, !.set.out_file = s]
    IN  CASE name = "-" -> to("stdout")
          [] name # "-" /\ fp = NULL -> acc
          [] OTHER -> to(fp)

(* The file a field asks for.  The last modifier of a list is its first link. *)
FileName(f) == IF f.mods = <<>> THEN "-" ELSE Last(f.mods)

(* The switch of _db_push_: what a field does to the new settings (set), to *)
(* the thread's stream (fp) and to db_on (on).                              *)
Field(acc, f, fp) ==
    CASE f.flag = "d" -> [acc EXCEPT !.on = TRUE, !.set.flags = @ \cup {"DEBUG_ON"},
                                     !.set.keywords = ListParse(f.mods)]
      [] f.flag = "f" -> [acc EXCEPT !.set.functions = ListParse(f.mods)]
      [] f.flag = "p" -> [acc EXCEPT !.set.processes = ListParse(f.mods)]
      [] f.flag = "t" -> [acc EXCEPT !.set.flags = @ \cup {"TRACE_ON"},
                                     !.set.maxdepth = IF f.mods = <<>> THEN @ ELSE Last(f.mods)]
      [] f.flag = "o" -> DBUGOpenFile(acc, FileName(f), fp)

(* The fields that open files, and what the calls of fopen may return.      *)
Opening(control) ==
    {i \in DOMAIN control : control[i].flag = "o" /\ FileName(control[i]) # "-"}

Opened(control) ==
    {files \in [DOMAIN control -> (Streams \ open) \cup {NULL}] :
        /\ \A i \in DOMAIN control \ Opening(control) : files[i] = NULL
        /\ \A i, j \in DOMAIN control : i # j /\ files[i] # NULL => files[i] # files[j]}

(* What the first i fields make of start, for every i.                      *)
Scan(start, control, files) ==
    LET acc[i \in 0 .. Len(control)] ==
          IF i = 0 THEN start ELSE Field(acc[i - 1], control[i], files[i])
    IN  acc

(* _db_push_ in a thread with the states c and st.                          *)
Pushed(c, st, control, files) ==
    LET start == [set |-> FreshSettings, on |-> st.db_on,
                  fp |-> IF st.db_fp = NULL THEN "stderr" ELSE st.db_fp]
        acc   == Scan(start, control, files)[Len(control)]
    IN  [code   |-> [c EXCEPT !.stack = <<acc.set>> \o @],
         status |-> [st EXCEPT !.db_fp = acc.fp, !.db_on = acc.on,
                               !.no_db = IF control = <<>> THEN @ ELSE FALSE]]

(* "d:t", pushed by whoever finds that nothing ever was (init_done).        *)
StartCondition == <<[flag |-> "d", mods |-> <<>>], [flag |-> "t", mods |-> <<>>]>>

Started(t) ==
    IF init_done THEN [code |-> code[t], status |-> status[t]]
    ELSE Pushed(code[t], status[t], StartCondition, <<NULL, NULL>>)

(* The stream CloseFile closes when settings are discarded.  What it does if *)
(* fclose fails is CloseFails and ReportClose.                              *)
CloseFile(settings) == {settings.out_file} \ {"stderr", "stdout"}

FreeState(stack) == UNION {CloseFile(stack[i]) : i \in DOMAIN stack}

(* A bug: the last settings go too.                                         *)
PopEverything(t) ==
    LET stack == code[t].stack
    IN  /\ stack # <<>>
        /\ code' = [code EXCEPT ![t].stack = Tail(stack)]
        /\ open' = open \ CloseFile(Head(stack))
        /\ status' = [status EXCEPT ![t].db_fp = "stderr"]

(* A bug: the stream of the discarded settings stays in use.                *)
PopKeepsStream(t) ==
    LET stack == code[t].stack
    IN  IF Len(stack) > 1
        THEN /\ code' = [code EXCEPT ![t].stack = Tail(stack)]
             /\ open' = open \ CloseFile(Head(stack))
             /\ status' = [status EXCEPT
                             ![t].db_on = @ /\ "DEBUG_ON" \in stack[2].flags]
        ELSE status' = [status EXCEPT ![t].db_on = FALSE] /\ UNCHANGED <<code, open>>

(* _db_pop_: the last settings stay, and are switched off instead.          *)
DbPop(t) ==
    LET stack == code[t].stack
    IN  IF Len(stack) > 1
        THEN /\ code' = [code EXCEPT ![t].stack = Tail(stack)]
             /\ open' = open \ CloseFile(Head(stack))
             /\ status' = [status EXCEPT
                             ![t].db_fp = stack[2].out_file,
                             ![t].db_on = @ /\ "DEBUG_ON" \in stack[2].flags]
        ELSE status' = [status EXCEPT ![t].db_on = FALSE] /\ UNCHANGED <<code, open>>

(* _db_end_, and the destructors of the thread-specific data at thread exit. *)
DbEnd(t) ==
    /\ open' = open \ FreeState(code[t].stack)
    /\ code' = [code EXCEPT ![t] = FreshCode]
    /\ status' = [status EXCEPT ![t] = FreshStatus]

-----------------------------------------------------------------------------
(* What is selected                                                         *)

(* A list that is not there accepts every name.                             *)
InList(names, n) == names = {} \/ n \in names

(* DoTrace in a thread with the states c and st.                            *)
DoTrace(c, st) ==
    LET s == Head(c.stack)
    IN  /\ "TRACE_ON" \in s.flags
        /\ c.level <= s.maxdepth
        /\ InList(s.functions, c.func)
        /\ InList(s.processes, st.process)

(* _db_keyword_                                                             *)
DbKeyword(c, st, k) ==
    LET s == Head(c.stack)
    IN  /\ "DEBUG_ON" \in s.flags
        /\ c.level <= s.maxdepth
        /\ InList(s.functions, c.func)
        /\ InList(s.keywords, k)
        /\ InList(s.processes, st.process)

-----------------------------------------------------------------------------
(* What the code leaves to the program.                                     *)

(* "outside": a thread changes its verbosity when it is in no function of   *)
(* the library, so not in a function of its own that the library calls.     *)
MayChange(t) == "outside" \in Contract => frames[t] = <<>>

(* "resume": a thread resumes what it has settings for, or is the first one *)
(* in the process to need any.                                              *)
MayResume(t) == "resume" \in Contract => code[t].stack # <<>> \/ ~init_done

OthersStarted(t) ==
    "resume" \in Contract =>
        \A u \in Threads \ {t} : status[u].no_db \/ code[u].stack # <<>>

(* "leave": a check that returns without X_RETURN is not that of the        *)
(* function the program called.                                             *)
MaySkip(t) == "leave" \in Contract => Len(frames[t]) > 1

(* "trace": blocks come and go where they are traced or nothing is.         *)
MayAllocate(t) ==
    "trace" \in Contract =>
        (status[t].db_on /\ code[t].stack # <<>>
            => DoTrace([code[t] EXCEPT !.level = @ + 1], status[t]))

(* "alone": nobody allocates or frees during MySKLmemoryCleaned.            *)
Allocating(t) == pc[t] # "run" /\ job[t].op \in {"alloc", "free"}

NobodyAsks == "alone" \in Contract => \A u \in Threads : pc[u] # "compare"

NobodyAllocates == "alone" \in Contract => \A u \in Threads : ~Allocating(u)

(* "lock": _db_lock_file and _db_unlock_file come in pairs, and a thread    *)
(* that has the file does not end.                                          *)
MayEnd(t) == "lock" \in Contract => mutex # t

-----------------------------------------------------------------------------
(* Verbosity (skl_misc.c).  X_DEBUG_ON and X_DEBUG_OFF set both switches.   *)

DEBUGGER_ON(t)  == [status EXCEPT ![t].no_db = FALSE, ![t].db_on = TRUE]

Idle(t) == pc[t] = "run"

quiet == <<mutex, mstat, frames, pc, job, half, live>>

(* MySKLCustomVerboseEnable, by which MySKLverboseEnable goes too.          *)
Enable(t, control) ==
    /\ Idle(t) /\ MayChange(t) /\ OthersStarted(t)
    /\ ~status[t].db_on /\ Len(code[t].stack) < MaxStates
    /\ \E files \in Opened(control) :
          LET p == Pushed(code[t], status[t], control, files)
          IN  /\ code' = [code EXCEPT ![t] = p.code]
              /\ status' = [status EXCEPT ![t] = [p.status EXCEPT !.no_db = FALSE, !.db_on = TRUE]]
              /\ open' = open \cup (ToSet(files) \ {NULL})
    /\ init_done' = TRUE
    /\ UNCHANGED quiet

(* CloseFile, when fclose fails on the stream of the i-th of the settings   *)
(* that are discarded: the stream is gone all the same, and the thread has  *)
(* a failure to report.                                                     *)
CloseFails(t, i) ==
    /\ CloseFile(code[t].stack[i]) # {}
    /\ open' = open \ FreeState(SubSeq(code[t].stack, 1, i))
    /\ pc'  = [pc EXCEPT ![t] = "unclosed"]
    /\ job' = [job EXCEPT ![t] = [op |-> "close", text |-> TRUE]]
    /\ UNCHANGED <<init_done, mutex, mstat, frames, half, live>>

(* _db_pop_ up to that point: the stack and the stream are replaced first.  *)
PopUnclosed(t) ==
    LET stack == code[t].stack
    IN  /\ Len(stack) > 1 /\ CloseFails(t, 1)
        /\ code' = [code EXCEPT ![t].stack = Tail(stack)]
        /\ status' = [status EXCEPT ![t].db_fp = stack[2].out_file]

(* FreeState up to that point, in a thread whose DBUG_STATE is st by then:  *)
(* the settings are still on the stack when their stream is closed.         *)
EndUnclosed(t, st) ==
    LET stack == code[t].stack
    IN  /\ \E i \in DOMAIN stack :
              /\ CloseFails(t, i)
              /\ code' = [code EXCEPT ![t].stack = SubSeq(stack, i, Len(stack))]
        /\ status' = [status EXCEPT ![t] = st]

(* MySKLverboseDisable                                                      *)
Disable(t) ==
    /\ Idle(t) /\ MayChange(t) /\ MayEnd(t)
    /\ status[t].db_on
    /\ \/ DbEnd(t) /\ UNCHANGED <<init_done, quiet>>
       \/ EndUnclosed(t, [status[t] EXCEPT !.no_db = TRUE, !.db_on = FALSE])

(* MySKLverboseSuspend                                                      *)
Suspend(t) ==
    /\ Idle(t) /\ MayChange(t)
    /\ status[t].db_on
    /\ status' = [status EXCEPT ![t].no_db = TRUE, ![t].db_on = FALSE]
    /\ UNCHANGED <<code, init_done, open, quiet>>

(* MySKLverboseResume                                                       *)
Resume(t) ==
    /\ Idle(t) /\ MayChange(t) /\ MayResume(t) /\ OthersStarted(t)
    /\ ~status[t].db_on
    /\ status' = DEBUGGER_ON(t)
    /\ UNCHANGED <<code, init_done, open, quiet>>

(* DBUG_PUSH, DBUG_POP and DBUG_PROCESS by themselves.                      *)
PushControl(t, control) ==
    /\ Idle(t) /\ MayChange(t) /\ OthersStarted(t)
    /\ Len(code[t].stack) < MaxStates
    /\ \E files \in Opened(control) :
          LET p == Pushed(code[t], status[t], control, files)
          IN  /\ code' = [code EXCEPT ![t] = p.code]
              /\ status' = [status EXCEPT ![t] = p.status]
              /\ open' = open \cup (ToSet(files) \ {NULL})
    /\ init_done' = TRUE
    /\ UNCHANGED quiet

Pop(t) ==
    /\ Idle(t) /\ MayChange(t)
    /\ \/ DbPop(t) /\ UNCHANGED <<init_done, quiet>>
       \/ PopUnclosed(t)

Process(t, name) ==
    /\ Idle(t)
    /\ status' = [status EXCEPT ![t].process = name]
    /\ UNCHANGED <<code, init_done, open, quiet>>

(* The thread ends: clean_dbug_code_state and clean_dbug_debug_state, in    *)
(* either order.                                                            *)
Exit(t) ==
    /\ Idle(t) /\ frames[t] = <<>> /\ MayEnd(t)
    /\ \/ DbEnd(t) /\ UNCHANGED <<init_done, quiet>>
       \/ \E st \in {status[t], FreshStatus} : EndUnclosed(t, st)

-----------------------------------------------------------------------------
(* A line of output, and what is done around it.                            *)

(* The null pointer is read as settings, a stream is used that was closed,  *)
(* or an _sstate_ that was never written.                                   *)
Crash(t) ==
    /\ pc' = [pc EXCEPT ![t] = "crashed"]
    /\ UNCHANGED <<status, code, init_done, mutex, open, mstat, frames, job, half, live>>

(* The thread is about to take the mutex; text: it has a line to write.     *)
Begin(t, op, text) ==
    /\ pc' = [pc EXCEPT ![t] = "want"]
    /\ job' = [job EXCEPT ![t] = [op |-> op, text |-> text]]

(* The counters, which have a mutex of their own.                           *)
Counted(op) ==
    CASE op = "alloc" -> [mstat EXCEPT !.alloc_count = @ + 1]
      [] op = "free"  -> [mstat EXCEPT !.freed_count = @ + 1]
      [] OTHER        -> mstat

(* A thread that has the file (_db_lock_file) does not take the mutex.      *)
Acquire(t) ==
    /\ pc[t] = "want"
    /\ \/ code[t].locked /\ UNCHANGED mutex
       \/ ~code[t].locked /\ mutex = NULL /\ mutex' = t
    /\ mstat' = Counted(job[t].op)
    /\ pc' = [pc EXCEPT ![t] = IF job[t].text THEN "prefix" ELSE "text"]
    /\ UNCHANGED <<status, code, init_done, open, frames, job, half, live>>

Usable(s) == s \in open \cup {"stderr", "stdout"}

(* DoPrefix: the line begins.                                               *)
DoPrefix(t) ==
    /\ pc[t] = "prefix"
    /\ IF Usable(status[t].db_fp)
       THEN /\ half' = half \cup {t}
            /\ pc' = [pc EXCEPT ![t] = "text"]
            /\ UNCHANGED <<status, code, init_done, mutex, open, mstat, frames, job, live>>
       ELSE Crash(t)

(* A bug: only a line that was written is flushed.                          *)
FlushLines(t) == mutex' = IF code[t].locked \/ ~job[t].text THEN mutex ELSE NULL

(* dbug_flush                                                               *)
Flush(t) == mutex' = IF code[t].locked THEN mutex ELSE NULL

(* A bug: the level goes down by one, whatever it was on entry.             *)
LeaveOneLevel(t) ==
    /\ code' = [code EXCEPT ![t].level = @ - 1, ![t].func = Head(frames[t]).func]
    /\ frames' = [frames EXCEPT ![t] = Tail(@)]

(* The end of _db_return_: the state on entry is put back.                  *)
Leave(t) ==
    /\ code' = [code EXCEPT ![t].level = Head(frames[t]).level - 1,
                            ![t].func  = Head(frames[t]).func]
    /\ frames' = [frames EXCEPT ![t] = Tail(@)]

(* The end of _db_alloc_ and of _db_free_, which frees the block last.      *)
AllocEnds(t) == code' = [code EXCEPT ![t].level = @ - 1] /\ UNCHANGED <<frames, live>>

FreeEnds(t) ==
    /\ code' = [code EXCEPT ![t].level = @ - 1]
    /\ live' = live - 1
    /\ UNCHANGED frames

(* The text of the line, with Indent, dbug_flush, and the rest of the call, *)
(* of which _db_enter_, _db_doprnt_ and _db_dump_ have none.                *)
Text(t) ==
    /\ pc[t] = "text"
    /\ half' = half \ {t}
    /\ Flush(t)
    /\ CASE job[t].op = "return" -> Leave(t) /\ UNCHANGED live
         [] job[t].op = "alloc"  -> AllocEnds(t)
         [] job[t].op = "free"   -> FreeEnds(t)
         [] OTHER                -> UNCHANGED <<code, frames, live>>
    /\ pc'  = [pc EXCEPT ![t] = "run"]
    /\ job' = [job EXCEPT ![t] = NoJob]
    /\ UNCHANGED <<status, init_done, open, mstat>>

(* The rest of CloseFile when fclose failed: the mutex is taken, even by a  *)
(* thread that has the file and so waits for itself; a line is begun on     *)
(* db_fp, which may be the stream that is gone; and dbug_flush(0) reads     *)
(* delay through the null pointer it is given.                              *)
ReportClose(t) ==
    /\ pc[t] = "unclosed" /\ mutex = NULL
    /\ mutex' = t
    /\ half' = half \cup {t}
    /\ pc' = [pc EXCEPT ![t] = "crashed"]
    /\ UNCHANGED <<status, code, init_done, open, mstat, frames, job, live>>

-----------------------------------------------------------------------------
(* The calls in the functions of myskl                                      *)

lines == <<mutex, open, mstat, half, live>>

(* DBUG_ENTER and _db_enter_.  NULL: _sstate_ is not written.               *)
Enter(t, f) ==
    /\ Idle(t) /\ Len(frames[t]) < MaxFrames /\ code[t].level < MaxFrames
    /\ IF status[t].no_db
       THEN /\ frames' = [frames EXCEPT ![t] = <<NULL>> \o @]
            /\ UNCHANGED <<status, code, init_done, pc, job, lines>>
       ELSE LET s == Started(t)
                c == [s.code EXCEPT !.func = f, !.level = @ + 1]
            IN  IF c.stack = <<>> THEN Crash(t)
                ELSE /\ code' = [code EXCEPT ![t] = c]
                     /\ status' = [status EXCEPT ![t] = s.status]
                     /\ init_done' = TRUE
                     /\ frames' = [frames EXCEPT ![t] =
                                     <<[func |-> s.code.func, level |-> c.level]>> \o @]
                     /\ IF DoTrace(c, s.status) THEN Begin(t, "enter", TRUE)
                        ELSE UNCHANGED <<pc, job>>
                     /\ UNCHANGED lines

(* DBUG_LEAVE and _db_return_.  A level that is not that of the entry is     *)
(* reported, and otherwise the function if it is traced.                    *)
Return(t) ==
    /\ Idle(t) /\ frames[t] # <<>>
    /\ IF status[t].no_db
       THEN /\ frames' = [frames EXCEPT ![t] = Tail(@)]
            /\ UNCHANGED <<status, code, init_done, pc, job, lines>>
       ELSE IF Head(frames[t]) = NULL \/ code[t].stack = <<>> THEN Crash(t)
       ELSE IF Head(code[t].stack).flags # {}
       THEN /\ Begin(t, "return", code[t].level = Head(frames[t]).level
                                     => DoTrace(code[t], status[t]))
            /\ UNCHANGED <<status, code, init_done, frames, lines>>
       ELSE Leave(t) /\ UNCHANGED <<status, init_done, pc, job, lines>>

(* A check fails in a way that returns without DBUG_LEAVE (EXP_BC_RETV and  *)
(* the other checks whose name has no X).                                   *)
ReturnSilently(t) ==
    /\ Idle(t) /\ frames[t] # <<>> /\ MaySkip(t)
    /\ frames' = [frames EXCEPT ![t] = Tail(@)]
    /\ UNCHANGED <<status, code, init_done, pc, job, lines>>

(* A keyword that is not selected writes nothing.                           *)
Selected(t, k, op) ==
    /\ Idle(t) /\ frames[t] # <<>> /\ status[t].db_on
    /\ IF code[t].stack = <<>> THEN Crash(t)
       ELSE /\ DbKeyword(code[t], status[t], k)
            /\ Begin(t, op, TRUE)
            /\ UNCHANGED <<status, code, init_done, frames, lines>>

(* DBUG_PRINT: _db_pargs_ and _db_doprnt_.                                  *)
Doprnt(t, k) == Selected(t, k, "print")

(* DBUG_DUMP                                                                *)
Dump(t, k) == Selected(t, k, "dump")

(* DBUG_my_pthread_mutex_lock_FILE and its counterpart.                     *)
LockFile(t) ==
    /\ Idle(t) /\ mutex = NULL
    /\ mutex' = t
    /\ code' = [code EXCEPT ![t].locked = TRUE]
    /\ UNCHANGED <<status, init_done, open, mstat, frames, pc, job, half, live>>

UnlockFile(t) ==
    /\ Idle(t) /\ mutex = t
    /\ mutex' = NULL
    /\ code' = [code EXCEPT ![t].locked = FALSE]
    /\ UNCHANGED <<status, init_done, open, mstat, frames, pc, job, half, live>>

-----------------------------------------------------------------------------
(* Memory                                                                   *)

(* A bug: what is freed while nothing is written is not counted.            *)
FreeUncounted(t) ==
    /\ live' = live - 1
    /\ UNCHANGED <<status, code, init_done, mutex, open, mstat, frames, pc, job, half>>

(* _no_db_alloc and _no_db_free, and the same in _db_alloc_ and _db_free_   *)
(* when db_on is off.                                                       *)
NoDbAlloc(t) ==
    /\ live' = live + 1
    /\ mstat' = Counted("alloc")
    /\ UNCHANGED <<status, code, init_done, mutex, open, frames, pc, job, half>>

NoDbFree(t) ==
    /\ live' = live - 1
    /\ mstat' = Counted("free")
    /\ UNCHANGED <<status, code, init_done, mutex, open, frames, pc, job, half>>

(* X_ALLOC, DBUG_ALLOC and _db_alloc_: a block that is not traced is not    *)
(* counted.                                                                 *)
Alloc(t) ==
    /\ Idle(t) /\ frames[t] # <<>> /\ MayAllocate(t) /\ NobodyAsks
    /\ mstat.alloc_count < MaxAllocs
    /\ LET s == Started(t)
           c == [s.code EXCEPT !.level = @ + 1]
       IN  IF status[t].no_db \/ ~s.status.db_on THEN NoDbAlloc(t)
           ELSE IF c.stack = <<>> THEN Crash(t)
           ELSE /\ live' = live + 1
                /\ status' = [status EXCEPT ![t] = s.status]
                /\ init_done' = TRUE
                /\ IF DoTrace(c, s.status)
                   THEN Begin(t, "alloc", TRUE) /\ code' = [code EXCEPT ![t] = c]
                   ELSE code' = [code EXCEPT ![t] = s.code] /\ UNCHANGED <<pc, job>>
                /\ UNCHANGED <<mutex, open, mstat, frames, half>>

(* X_FREE, DBUG_FREE and _db_free_.  Before anything was pushed it frees    *)
(* nothing.                                                                 *)
Free(t) ==
    /\ Idle(t) /\ frames[t] # <<>> /\ MayAllocate(t) /\ NobodyAsks
    /\ live > Cardinality({u \in Threads : pc[u] # "run" /\ job[u].op = "free"})
    /\ LET c == [code[t] EXCEPT !.level = @ + 1]
       IN  IF status[t].no_db THEN NoDbFree(t)
           ELSE IF ~init_done THEN UNCHANGED vars
           ELSE IF ~status[t].db_on THEN NoDbFree(t)
           ELSE IF c.stack = <<>> THEN Crash(t)
           ELSE IF DoTrace(c, status[t])
           THEN /\ Begin(t, "free", TRUE) /\ code' = [code EXCEPT ![t] = c]
                /\ UNCHANGED <<status, init_done, frames, lines>>
           ELSE /\ live' = live - 1
                /\ UNCHANGED <<status, code, init_done, mutex, open, mstat, frames, pc, job, half>>

(* MySKLmemoryCleaned reads one counter and compares it with the other.     *)
MemoryCleaned(t) ==
    /\ Idle(t) /\ NobodyAllocates
    /\ pc'  = [pc EXCEPT ![t] = "compare"]
    /\ job' = [job EXCEPT ![t] = [op |-> "cleaned", text |-> FALSE,
                                  alloc_count |-> mstat.alloc_count]]
    /\ UNCHANGED <<status, code, init_done, frames, lines>>

Compare(t) ==
    /\ pc[t] = "compare"
    /\ pc'  = [pc EXCEPT ![t] = "run"]
    /\ job' = [job EXCEPT ![t] = [op |-> IF @.alloc_count = mstat.freed_count
                                         THEN "cleaned" ELSE "not cleaned", text |-> FALSE]]
    /\ UNCHANGED <<status, code, init_done, frames, lines>>

-----------------------------------------------------------------------------
(* A program: what thread t calls between the functions of the library, and *)
(* what happens in them.                                                    *)
Verbosity(t) ==
    \/ \E control \in Controls[t] :
          \/ "enable" \in Calls[t] /\ Enable(t, control)
          \/ "push" \in Calls[t] /\ PushControl(t, control)
    \/ "disable" \in Calls[t] /\ Disable(t)
    \/ "suspend" \in Calls[t] /\ Suspend(t)
    \/ "resume" \in Calls[t] /\ Resume(t)
    \/ "pop" \in Calls[t] /\ Pop(t)
    \/ "process" \in Calls[t] /\ \E name \in Names : Process(t, name)
    \/ "exit" \in Calls[t] /\ Exit(t)

Working(t) ==
    \/ \E f \in Functions : Enter(t, f)
    \/ Return(t)
    \/ "check" \in Calls[t] /\ ReturnSilently(t)
    \/ "print" \in Calls[t] /\ \E k \in Keywords : Doprnt(t, k) \/ Dump(t, k)
    \/ "lock" \in Calls[t] /\ LockFile(t)
    \/ UnlockFile(t)
    \/ "alloc" \in Calls[t] /\ (Alloc(t) \/ Free(t))
    \/ "cleaned" \in Calls[t] /\ MemoryCleaned(t)
    \/ Compare(t)

Writing(t) == Acquire(t) \/ DoPrefix(t) \/ Text(t)

Next == \E t \in Threads : Verbosity(t) \/ Working(t) \/ Writing(t) \/ ReportClose(t)

Spec == Init /\ [][Next]_vars

-----------------------------------------------------------------------------
TypeOK ==
    /\ status \in [Threads -> [db_on : BOOLEAN, no_db : BOOLEAN, process : Names \cup {"dbug"},
                               db_fp : Streams \cup {"stderr", "stdout", NULL}]]
    /\ \A t \in Threads : code[t].level \in 0 .. MaxFrames + 1
    /\ init_done \in BOOLEAN
    /\ mutex \in Threads \cup {NULL}
    /\ open \subseteq Streams
    /\ half \subseteq Threads
    /\ pc \in [Threads -> {"run", "want", "prefix", "text", "compare", "unclosed", "crashed"}]
    /\ live \in Nat

(* Settings and streams that are not there are not used, nor does a thread  *)
(* return to a state that was never written: the one fault is that of a     *)
(* thread for which fclose failed, in the report of that.                   *)
OnlyCloseFaults == \A t \in Threads : pc[t] = "crashed" => job[t].op = "close"

(* Lines are not mixed, and nobody keeps the mutex: of all threads and all   *)
(* streams, one line at a time is begun and not ended, by who has the mutex; *)
(* a thread between two calls has it only if it has the file, so every way   *)
(* through a call gives it back.                                             *)
OneLineAtATime ==
    /\ \A t \in half : half = {t} /\ mutex = t
    /\ \A t \in Threads : Idle(t) => (mutex = t <=> code[t].locked)

(* A thread that is in the report of a failed fclose, or met another fault.  *)
Gone(t) == pc[t] \in {"unclosed", "crashed"}

(* Every stream that is open is that of some settings.  A thread that is not *)
(* gone has open what its settings name, alone and once, so it is closed     *)
(* once, even if other threads failed to close theirs; and it writes to a    *)
(* stream that its own settings hold open.                                   *)
StreamsOwned ==
    LET file(t, i) == code[t].stack[i].out_file
        There == {t \in Threads : ~Gone(t)}
    IN  /\ \A s \in open : \E t \in Threads : \E i \in DOMAIN code[t].stack : file(t, i) = s
        /\ \A t \in There : \A i \in DOMAIN code[t].stack : file(t, i) \in Streams =>
              /\ file(t, i) \in open
              /\ \A u \in There : \A j \in DOMAIN code[u].stack :
                    file(u, j) = file(t, i) => u = t /\ j = i
        /\ \A t \in There : status[t].db_fp \in Streams =>
              \E i \in DOMAIN code[t].stack : file(t, i) = status[t].db_fp

(* The nesting level comes back to where it was, whatever checks failed on  *)
(* the way and whatever was allocated.                                      *)
LevelComesBack ==
    \A t \in Threads : Idle(t) /\ frames[t] = <<>> => code[t].level = 0

(* MySKLmemoryCleaned "returns TRUE if the whole memory allocated for all   *)
(* the lists created was freed" (myskl.h): in whichever of the states of    *)
(* verbosity each block was allocated and freed.                            *)
CleanedIsTrue ==
    [][\A t \in Threads : pc[t] = "compare" /\ pc'[t] = "run" =>
          (job'[t].op = "cleaned" <=> live = 0)]_vars
=============================================================================
