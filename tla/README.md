# Models and proofs for myskl

myskl is a C library of skip lists that threads may share.  This directory
holds TLA+ modules translated from its source, TLC configurations that check
them on small instances, and proofs, checked by TLAPS, that hold for every
instance.  Line numbers refer to the sources beside it, paths to `src/`.

## 1. The system

### Components, state, operations

| component | source | state | operations | what makes it correct |
|---|---|---|---|---|
| readers/writers lock, version 1 (the default) | `src/private/rwlock.c` | `r_active`, `w_active`, `r_wait`, `w_wait`, `valid`, a mutex, two condition variables | init, destroy, read and write lock, trylock, unlock, two cancellation handlers | readers share and writers exclude; the counters count; no wake-up is lost; destroy never succeeds on a lock in use |
| readers/writers lock, version 2 | `include/private/skl_threads.h` | `readers`, `writers`, `read_waiters`, `write_waiters`, a mutex, two condition variables | the macros `RW_INIT`, `READER_ENTER`, `READER_EXIT`, `WRITER_ENTER`, `WRITER_EXIT`, `RW_DESTROY` | the same; a waiting writer is not starved by readers |
| skip list | `src/skl_init.c`, `skl_ins.c`, `skl_del.c`, `skl_search.c`, `skl_misc.c` | per node `next[]`, `prev[]`, `sz`; per list `curlevel`, `nodenum`, `tail` | four insertions, copy, two deletions, two searches, six queries | it is an ordered list; every level is a sublist of the one below; backward links undo forward links; the counters and the tail describe the links |
| level generator | `src/skl_gen.c` | a random generator, or `nodenumelem[]` | `genLevel` | a level between 1 and one more than the highest in use; each level has half the nodes of the one below |
| iterators | `src/skl_iter.c` | `next`, `prev`, `term`, `prevlev`, a mutex | set, reset, next, previous, destroy | they walk the list in order and stop at its end |
| join, intersection, copy | `src/skl_join.c`, `skl_ins.c` | that of two or three lists | `MySKLjoinAD`, `MySKLjoinND`, `MySKLintersect`, `MySKLcopy` | the target is the union or the intersection; no deadlock |
| destruction | `src/skl_dst.c` | the whole list | `MySKLdestroy` | everything is released, once |
| lists container | `src/skl_lc.c` | `lc`: an array of lists, its size, a mode, a mutex | init, add, free | every added list is destroyed once |
| errors and memory counters | `src/private/skl_priv.c`, `skl_mstat.h`, `skl_checks.h` and what it includes | two counters, a mutex | checks, messages, `X_ALLOC`, `X_FREE` | a check that fails leaves nothing locked |
| random numbers | `src/private/skl_rand.c` | 624 words and an index | seed, refill, yield | what is drawn is the recurrence of the Mersenne Twister, though each block overwrites the one before |
| drawing | `src/skl_draw.c` | two iterators | `MySKLdrawList`, `MySKLdisplayListStruct` | a node is in one column on all its levels |
| verbosity, debugging library | `src/skl_misc.c`, `src/extra/dbug/` | per thread a stack of settings, a nesting level, two switches, a stream; one mutex, the counters of memory | enable, disable, suspend, resume; enter, leave, print, allocate, free | lines are not mixed; the mutex comes back; a stream is closed once; the counters tell the truth |
| tests, build, Windows samples | `test/`, `configure.in`, `win/` | none | none | not part of the program |

### How they interact

A public call checks its arguments, takes the lock of each list it uses
(`READER_ENTER` or `WRITER_ENTER`, which are version 1 or version 2 of the
lock), works on the links while it holds them, and gives the locks back.  The
calls that use several lists take several locks, one after the other.  The
program's own functions (`cmp`, `updfunc`, `cpyfunc`, `dst`, `dstdatafunc`)
are called with the locks held.  Iterators keep pointers into nodes between
calls, when no lock is held.

### What is hard

* Threads interleave at the mutex of a lock; condition variables wake up
  spuriously, wake-ups can be lost, threads can be cancelled while they wait,
  and a lock can be destroyed while threads still know it.
* Two or three locks are held at a time: deadlock depends on the order of the
  arguments and on whether readers wait for waiting writers.
* Ways out in the middle of a call must give back what was taken.
* A stream may fail to open, and, when the disk is full, to close.
* Memory may run out anywhere, half way through a join too; a failed check may
  end the program, and then destroys the lists of the container first, in one
  thread while others run.
* The debugging library sits in every function: per-thread state that is made on
  first use, and shared state under a mutex that is taken in one function and
  given back in another.
* Arithmetic at the edges: words that wrap, levels at `MYSKL_MAXLEVELS`, a block
  of words that is overwritten while it is read.
* A skip list keeps one order in several redundant forms (levels, backward
  links, three counters), equal keys included, over any sequence of calls.

`PROJECT.json` lists these hazards at the lines where they bite, with the
properties that would show one going wrong, or the reason there is none yet.

## 2. The modules

| module | models | role |
|---|---|---|
| `RWLock` | what a readers/writers lock promises | abstract specification |
| `RWLockV1` | `rwlock.c` | monitor; implements `RWLock` |
| `RWLockV1Proofs` | | the theorems about `RWLockV1` |
| `RWLockV2` | the macros of `skl_threads.h` | monitor; implements `RWLock` |
| `RWLockV2Proofs` | | the theorems about `RWLockV2` |
| `OrderedList` | what the calls of a list promise: a sequence sorted by key | abstract specification |
| `SkipList` | `skl_init.c`, `skl_ins.c`, `skl_del.c`, `skl_search.c`, `skl_misc.c`, `skl_draw.c` | implements `OrderedList` |
| `SkipListProofs` | | the theorems about `SkipList` |
| `ListLocks` | the locks of every public call, over several lists | uses what `RWLock` promises |
| `ListLocksProofs` | | the theorems about `ListLocks` |
| `Iterator` | `skl_iter.c` and the iterator of `MySKLsearchALL` | over a list that changes as `SkipList` says |
| `IteratorProofs` | | the theorems about `Iterator` |
| `Random` | `skl_rand.c` | extended by `LevelGenerator` |
| `LevelGenerator` | `skl_gen.c`, both builds | draws from `Random`; what `SkipList` takes as a choice of levels |
| `LevelGeneratorProofs` | | the theorems about `Random` and `LevelGenerator` |
| `ListsContainer` | `skl_lc.c`, `skl_dst.c`, `skl_join.c`, `MySKLinit`, `MySKLcopy`, fatal errors | lists as sequences of keys, and the memory they own |
| `ListsContainerProofs` | | the theorems about `ListsContainer` |
| `Dbug` | `dbug.c`, `dbug-ts-ext.c`, verbosity, memory counters | around every call of the others |
| `DbugProofs` | | the theorems about `Dbug`: types, lines and levels; streams, settings and counters |
| `MCRWLockV1`, `MCRWLockV2`, `MCSkipList`, `MCListLocks`, `MCIterator`, `MCLevelGenerator`, `MCListsContainer`, `MCDbug` | | symmetry, programs and builds for TLC |

The three levels fit together so: `RWLockV1` and `RWLockV2` show that a lock
excludes; `ListLocks` takes such locks and shows when the calls that hold
several of them do not block one another and give everything back; and because
a call holds its list's lock from its first access to its last one,
`SkipList` may take a whole call as one action.  The exceptions are the
iterators, which have a module of their own, and `MySKLdestroy`.
`ListsContainer` goes one step further and takes a list for the sequence of its
keys, which `ImplementsOrderedList` allows it to.

### RWLockV1

One action is one stretch of code with `rwl->mutex` held.  `Call` is the test
of `valid`, which the code makes before it takes the mutex.  A thread in
`pthread_cond_wait` is in the set `read` or `write`; when it is signalled, or
wakes up spuriously, or is cancelled, it leaves the set and has to get the mutex
back in an action of its own (`ReadWake`, `WriteWake`, `ReadCleanup`,
`WriteCleanup`).  A signal removes one thread of the set, any of them; a
broadcast empties it.  A thread acts on cancellation only while it is asleep and
was not signalled, as POSIX has it.  After `rwl_destroy` has succeeded the mutex
is gone; a program that still has a thread on the way to it has no defined
behaviour, so `Destroy` requires that there is none (`Quiesced`).  Owners,
waiters and pending handlers are not the caller's affair but the counters', and
`DestroyedIsUnused` says that the counters are enough.  The failures of the
pthread functions themselves are left out.

### RWLockV2

The macros have no test before the mutex, so a macro is one action, and its loop
after `cond_wait` another.  Reads are not bounded: readers come back for ever.
The comment above the macros says that swapping the if and the else of
`WRITER_EXIT` is sufficient to prefer readers; the mutant `PassOnToReaders` of
`PassOn` is that swap, and it breaks `NoLostWakeup`: the woken readers find
`write_waiters` positive and go back to sleep, nobody signals the writers, and
all of them sleep on a free lock.  Whoever follows the comment has to change the
condition in `READER_ENTER` too.  Not modelled: cancellation inside a macro (the
thread would die with the mutex, since there is no handler) and `RW_DESTROY`,
which tests nothing.

### SkipList and OrderedList

A cell is a node or the header, which also ends every level (`NIL`).  `next`,
`prev` and `sz` are the nodes' arrays, `curlevel`, `nodenum` and `tail` the
list's fields, `key` and `item` what the program's nodes carry and `cmp`
compares.  `Path` is the array `update[]` of the three search loops, `Advance`
their inner loop, `Link` and `Over`/`Back` the linking and unlinking loops.  The
level of a new node is any level that `genLevel` with random numbers can return.
Every insertion may also run out of memory.  `Visited` follows
`updateNodeData` literally; where the code hands the header to `cmp`, the answer
may be either (`junk`).

The drawing is a function of the links: which nodes `drawList` prints on a
level, and in which column, one turn of its loop (`DrawNode`) after the other.  `Passed` is what `adjustLink` prints for a node it
passes over, and the data of a node are as wide as its key says, so that nodes
of different width are there.

`OrderedList` is a sequence of nodes with keys and contents, and says where each
insertion goes, which node each deletion takes and what each question answers.
`MySKLsearch` may answer any node with the key, since the code finds one on
the highest level it meets.  `HeaderAnswers` is what `cmp` may say of the header:
with `TRUE` in it `MySKLinsertUPD_ALL` overwrites the last node of the list
whatever its key, so `ImplementsOrderedList` is checked without.

### ListLocks

A call is the sequence of its lock operations (`Steps`), written down from the
code on each way out.  `Blockers` says for whom a thread has to wait: with
version 1 a reader waits for an active writer, with version 2 (`WritersFirst`)
for a waiting writer also; a writer waits for both.

### Iterator

The list is the sequence of its nodes with their heights and keys: what `next[]`
and `prev[]` hold follows from that (`After`, `Before`), as `LevelsAreSublists`
and `PrevUndoesNext` show for `SkipList`.  `iter->next` and `iter->prev` point to
arrays, so the model keeps the cell and which of its two arrays it is; `JUNK` is
the `iter->prev` that `MySKLsearchALL` does not write.  A step is the check of
the level (`Ask`), the tests for the end before the mutex is taken (`TestNext`,
`TestPrev`) and the move with the mutex (`MoveNext`, `MovePrev`).  Writers act
between calls, and between the check and the lock of `MySKLgetNextNode`.

The code leaves much to the program that uses an iterator, and the constant
`Contract` names it:

* `keep`: the nodes the iterator refers to are not deleted;
* `quiet`: while the nodes of one key are listed, no other key is inserted;
* `way`: who turns round does so on level 1.  `someSanityChecks` compares the
  level with the height of the last node, but the step back reads the array of
  the node before it;
* `forward`: the iterator of `MySKLsearchALL` goes forward, on level 1;
* `own`: nobody resets or destroys an iterator while somebody is in a call with
  it, nor makes one over it: `MySKLresetIterator` and `MySKLdestroyIterator` take
  no lock;
* `made`: nobody goes back with an iterator that was destroyed:
  `MySKLgetPrevNode` follows the null pointer before it checks it, where
  `MySKLgetNextNode` answers NULL.

With all of them the properties hold (`it_walk`); each is needed, as leaving it out
of the `.cfg` shows.  With a second user of the same iterator (`Users`)
`AnswersAreNodes` does not hold: `getNext` and `getPrev` test for the end before
they take the iterator's mutex, both users pass, and the second one is handed
the header as a node.

### Random and LevelGenerator

A generator is the block `mt`, its index `mti` and, for the property only, the
last N words of the sequence itself (`recent`).  `Block` is the three loops of
`rand_int` in one recursive function, in which a word that was already
overwritten is read as the new one.  Widths, the size of a block and the masks
are constants; the program's are 32 bits and 624 words.  So are `&`, `|` and `^`
(`BitAnd`, `BitOr`, `BitXor`): `BitAssumption` says what they do to each bit of a word, and
the `.cfg` gives those of the community module `Bitwise`.

`LevelGenerator` reduces a list to how many of its nodes have which level.
`RandLevel` and `PlainLevel` are the loops of the two builds.  `nodenumelem` has
one entry more than in the code: what lies behind the array, `l->header`.  Of
the entries `setinfo` does not clear, any common value may be there.  The
constant `Contract` may hold `below`: without random numbers `maxlevel` is less
than `MYSKL_MAXLEVELS`.

### ListsContainer

A list is the sequence of its keys and a state; `blocks` counts the library's
allocations, `held` the program's nodes, `lost` those of them that nobody can
reach any more.  `InitList` follows what `init` allocates, part by part, and
what it frees when a part is not to be had (`FreedOnError`, through
`FreeMemBlocks`, which stops at the first null pointer as `_sklFreeMemBlocks`
does).  `Fill` is the loop of a join, with memory that runs out before any of its
nodes: `Joined` gives the target after every turn, `Join` is one turn.  `Turn` is
a turn of `intersect`, its inner loops over equal nodes included (`After`: the
first place where no node is left to visit or the next is another key), and
`Common` what all turns copy; as many turns as the lists have nodes are enough,
since each moves on in one of them.  `NoArray` is the null pointer in `lc.acl`,
`UNSET` an entry that was allocated and not written.  Calls on
lists hold their locks and are one step; the calls of the container are taken
apart: the test of `lc.acl`, the mutex, the growing, the entry and then the
counter, and `destroyAoCL` list by list.  A check that fails warns or ends the
program, by `Builds`: `Fatal` is `_sklFatal`, which destroys the container first.

`Contract` is what the program takes care of, and each is needed:

* `alone`: the container is freed, and memory runs out in a build that ends the
  program then, when no other thread is in a call of the container;
* `owned`: a list in the container is not destroyed by the program;
* `once`: the container is not made while there is one;
* `dst`: every list has a destroyer of nodes.  Without it `MySKLdestroy` fails a
  check; in a build that exits on errors of data, that check destroys the
  container, which calls `MySKLdestroy`, for ever.

### Dbug

Per thread `code` is the `CODE_STATE` (stack of settings, nesting level,
function), `status` the `DBUG_STATE`, `frames` the `_sstate_` variables of the
functions it is in.  What a line says is left out; who writes it, when and to
which stream is not.  A line is three steps: `Acquire` takes the mutex, unless
the thread has the file; `DoPrefix` begins it; `Text` ends it and gives the mutex
back as `dbug_flush` does.  `Field` is the switch of `_db_push_`; a control string
is a sequence of flags with modifiers, and `fopen` may fail.  `Counted` is the
counters of memory blocks, which four functions in two files keep.

`fclose` may fail too, whenever settings with a file of their own are discarded.
`Pop`, `Disable` and `Exit` are then cut off at the stream that fails:
`PopUnclosed` is `_db_pop_` up to there, which has replaced the settings and the
stream by then; `EndUnclosed` is `FreeState` up to there, which has closed the
streams above, while the settings that fail, and those below, are still on the
stack.  `Exit` runs two destructors in either order, so the `DBUG_STATE` may be
fresh by then or not.  What `CloseFile` does next is `ReportClose`: it takes the
mutex, also in a thread that has the file and so waits for itself for ever; it
begins a line on `db_fp`, which may be the stream that is gone; and
`dbug_flush ( 0 )` reads `state->stack->delay` (dbug.c:2136) through the null
pointer that is tested only six lines later, so the process faults with the
mutex held.  `Gone` are the threads in that report.  The process ends there, as
a rule; the model lets the other threads go on, as far as they get without the
mutex, so that what is shown of them does not depend on it.

`Contract` is what the program takes care of:

* `outside`: a thread changes its verbosity when it is in no function of the
  library, callbacks included: `_db_return_` would read an `_sstate_` that
  `_db_enter_` never wrote;
* `resume`: a thread resumes what it has settings for, or is the first in the
  process to need any: `init_done` is one flag for all threads, and `_db_enter_`
  pushes settings only while it is not set, so a second thread would follow a
  null pointer;
* `leave`: checks that return without `DBUG_LEAVE` are in nested functions,
  whose caller puts its own level back;
* `trace`: blocks come and go where they are traced or nothing is: `_db_alloc_`
  and `_db_free_` count a block only when `DoTrace` holds;
* `alone`: nobody allocates or frees during `MySKLmemoryCleaned`, which reads the
  two counters without their mutex;
* `lock`: a thread that has the file does not end.


## 3. What the runs check

| run | instance | shows |
|---|---|---|
| `v1_safety` | 4 threads, 2 calls each, readers and writers cancellable, one destroyer | `TypeOK`, `CountsMatch`, `DestroyedIsUnused`, and `ImplementsLock`: `rwlock.c` implements `RWLock` |
| `v1_live` | 3 threads, 3 calls each, writers cancellable | `NoLostWakeup`; `EveryCallReturns` under fairness; no deadlock |
| `v1_cancel` | 3 threads, 1 call each, readers cancellable | **violation** of `EveryCallReturns` |
| `v2_lock` | 3 threads, unlimited reads, 2 writes each | `TypeOK`, `CountsMatch`, `NoLostWakeup`, `ImplementsLock`; `EveryCallReturns` under fairness; no deadlock |
| `sl_list` | 3 nodes, 3 keys, 2 contents, 3 levels, every call | `TypeOK`, `LevelsAreSublists`, `PrevUndoesNext`, `Bookkeeping`, `DrawnInColumns`, and `ImplementsOrderedList`: the list implements `OrderedList` |
| `sl_updall` | 3 nodes, 2 keys, 2 contents, 2 levels | **violation** of `UpdateAllReplacesAll` |
| `ll_locks` | 4 threads, 3 lists, every call that names its lists in order, version 2 | `TypeOK`, `NoDeadlock`, `IdleHoldsNothing` |
| `it_walk` | 1 user, 3 nodes, 3 keys, 3 levels, the whole `Contract` | `TypeOK`, `NoFault`, `AnswersAreNodes`, `WithinRange`, `WalksInOrder` |
| `gen` | words of 4 bits, blocks of 3 words, 4 levels, 4 nodes, both builds | `TypeOK`, `MatchesRecurrence`, `LevelsHalve`, `LevelsThinOut` |
| `gen_top` | the same without `below` | **violation** of `HeaderUntouched` |
| `life` | 2 threads (1 of them calls lists), 3 lists of at most 2 nodes, 2 keys, 2 builds, `LC_MSTL` 1 | `TypeOK`, `NoFault`, `NothingElseLost`, `ContainerKeepsAll`, `CombinesAsDocumented` |
| `db_trace` | 2 threads, 1 stream besides stderr and stdout, 2 settings and 2 functions deep, 1 counted allocation | `TypeOK`, `OnlyCloseFaults`, `OneLineAtATime`, `StreamsOwned`, `LevelComesBack`, `CleanedIsTrue` |

What the violations say of the code:

* `v1_cancel`.  A reader that is cancelled while it waits is counted in
  `r_wait` until its handler runs.  `rwl_writeunlock`, when it runs in between,
  broadcasts to readers that are not there and does not signal the waiting
  writers; the handler does not either.  The writers sleep on a free lock.
* `sl_updall`.  `updateNodeData` steps to the next node and then looks at the
  one after it, so of several equal nodes the last one is not updated.
* `gen_top`.  Without random numbers `genLevel` counts the nodes of the highest
  level too, in an entry that a list of `MYSKL_MAXLEVELS` levels does not have.

`OnlyCloseFaults` names the one fault of the debugging library under its
`Contract`: a thread that has crashed is one for which `fclose` failed.  The
source means to report that failure and go on (the comment at dbug.c:1697 speaks
of closing the stream, none of ending the process), and no property says that it
does: the run shows the opposite, in every behaviour with a failed `fclose`.

One more disagreement has no run of its own: `MySKLsearchALL`,
`MySKLsetIterator` and `MySKLgetPrevNode` check an argument after `READER_ENTER`
and return without `READER_EXIT` (`CheckFails` in `ListLocks`).  With such a call
among `Calls`, `IdleHoldsNothing` does not hold.

`NoDeadlock` holds for programs that name lists in one order.  Without that,
two joins into each other's source block each other, and so does one copy of a
list into itself.  Where writers come first two read locks in opposite orders are
enough for a deadlock when writers wait for both lists, so the sources of
`MySKLintersect` have to be in order too.  In version 1 a thread waits for fewer
others (`Blockers`), so what holds for version 2 holds for it.

### Bounds, and why they are enough

* The lock: three threads are one owner, one that waits and one that comes in
  between; the fourth lets two of a kind wait while the others act.  Two calls
  let a thread come back to a lock it has used.  The bound on calls is also what
  keeps the others from starving a waiter: version 1 promises nothing to a
  writer while readers overlap for ever, nor to a reader while writers do.  In
  version 2 only writers are bounded.
* The skip list: three nodes with three keys give two equal keys beside another
  one on either side, three equal ones, and three different ones; three levels
  give a top level, one between and the bottom, and let `curlevel` drop by two
  at once.  Every combination of heights is reached, since the level is a free
  choice; a drawing passes over up to two nodes of different width.
* The locks of calls: three lists are what `MySKLintersect` needs; a circle of
  three threads goes through three lists.  With version 2 a waiting writer is a
  link of the circle, hence the fourth thread.
* The iterator: three nodes are one before it, one at it and one after it, or a
  run of two equal keys with a terminator; three levels let it stand on a node
  lower, as high and higher than the next one.
* The generator: three words with a distance of two take all three loops of
  `rand_int`, the wrapping one included; a word of 4 bits is enough for four
  levels, and small enough for `LevelsHalve` to count all words.  Both kinds of
  seed are there, 0 among them, and arrays shorter and longer than a block.
  `MaxNodes` and `MaxCount` bound a history of insertions and deletions.
* Lists: three are what `MySKLintersect` needs; with two keys and two nodes a
  list has equal nodes, a common key and a different one; `LC_MSTL` 1 makes the
  container grow with its second list.  `MaxHeld` bounds the nodes that
  are inserted one by one, `MaxLost` the copies that failing joins lose.  The
  second thread uses the container only, where calls are taken apart.  The two
  builds are the one that comes with the library and the one that has every
  choice the other way round.
* The debugging library: two threads write, one of them makes every call.  Two
  settings let one be popped, two frames let a check fail in a nested function.
  `MaxAllocs` bounds the counter.  One stream can be open in one thread, fail to
  close there, and be opened again by the other.

`CHECK_DEADLOCK FALSE` appears only where the system may really stop: with
cancellable readers (`v1_safety`, `v1_cancel`), for the reason above, where
a fatal error ends the program (`life`), and where a failed `fclose` is reported
with the mutex held (`db_trace`).  In the
other runs deadlock is checked; `Finished` lets `RWLockV1` stutter when every
thread has made its calls and left.

### Fairness

`FairSpec` is weak fairness of each thread's own next step once it has begun a
call.  It stands for three things: the operating system runs every thread that
can run; a mutex that is free again and again is not kept for ever from a thread
that asks for it; and the caller gives the lock back.  Nothing is assumed of
beginning a call, of cancellation, of spurious wake-ups, or of the order in
which threads get the mutex.

## 4. What is proved

Each theorem holds for every value of the constants that satisfies the named
assumption of its module; the hypotheses on the program, where a theorem has
any, stand in its statement.  They are the ones of `Contract` that the runs use
too.  "Invariance" is in every module the theorem that its inductive invariant
`IInv` always holds.

### `RWLockV1Proofs`

For every finite set of threads and every number of calls (`ConstAssumption`).

* `Invariance`: `IInv == Placed /\ Counted /\ DestroyedIsUnused` is inductive.
  `CountsMatch` alone is not: that a sleeping thread is in the loop of the call
  it sleeps in (`Placed`) is needed to move it, and that a writer excludes the
  readers is needed for a counter not to go below zero.  `CountMoves` and
  `CountersMove` say once what moving one thread does to the cardinalities; the
  rest is one step per function.
* `Typing`, `Counting`, `SafeDestroy`: `TypeOK`, `CountsMatch` and
  `DestroyedIsUnused` always hold.
* `Refinement`: `Spec => ImplementsLock`.  Each function that takes or gives back
  the lock is the step of `RWLock` of that name, every other step is a stutter.
* `Wakeups`: if readers are not cancelled while they wait, `NoLostWakeup` always
  holds.  The argument: with sleeping writers `w_wait` is positive, so the
  unlocking thread signals one of them; with `r_wait` positive some reader is
  really in its loop, so the broadcast leaves somebody on the way; and whoever
  takes the lock in between will unlock it.  `v1_cancel` shows that the
  hypothesis cannot be dropped.

### `RWLockV2Proofs`

For every finite set of threads and every bound on writes (`V2Assumption`).  The
same argument, with two differences.  `Counted` needs `readers = 0 \/ writers = 0`
and `writers \in {0, 1}`, since `WRITER_EXIT` assigns `writers` and does not count
it down.  And `Wakeups` has no hypothesis: nothing in the macros leaves a wait
but by waking up.  `Typing`, `Counting` and `Refinement` are as for version 1.

### `SkipListProofs`

For any nodes, any set of keys greater than 0, any number of levels and any choice
of calls (`ListAssumption`).  Equal keys are allowed, and so is every height that
`GenLevel` may draw.

* `Invariance`: `IInv` says that there is a sequence `s` of the nodes with the
  following three parts.  `Sorted`: the nodes with arrays are those of `s`, each
  once, in the order of the keys.  `Linking`: on every level the cells at
  neighbouring places of `s` (`Adjacent`: nothing of that height between them, the
  header at both ends) are linked both ways, and a node has no link above its
  height.  `Counted`: `nodenum`, `tail` and `curlevel` are what `s` says.  The
  properties of the runs are not inductive: they speak of the chain one gets by
  following links, and what a link that is changed does to a chain can only be said
  when one knows which places it led between.
* The argument follows a call.  `AdvanceIs` and `PathIs`: whatever the level, the
  search leaves it at the last cell on it whose key is less (`Below`), so `update[]`
  holds the neighbours of the place of the key, on all levels at once.  An insertion
  puts the node behind that place (`Grow`), a deletion takes away what is behind it
  (`Shrink`); `GrowAdjacent` and `ShrinkAdjacent` reduce neighbours afterwards to
  neighbours before.  `LinkedIs`: the loop of `deleteI`, which ends at the first level
  that does not lead to the node, covers exactly the node's levels, also when
  other nodes have the same key.  `AdjustIs`: `adjustCurLevel` ends at the highest
  level in use.
* `Typing`, `Sublists`, `BackAndForth`, `Counts`: `TypeOK`, `LevelsAreSublists`,
  `PrevUndoesNext` and `Bookkeeping` always hold, the last with `ChainIs`: the chain of
  level 0 is `s`.
* `Refinement`: `Spec => ImplementsOrderedList`, if `cmp` never says that the header
  is equal (`HeaderAnswers \subseteq {FALSE}`, as in `sl_list`).  The hypothesis is
  about memory that `cmp` should not be given: when `updateNodeData` stands on the
  last node but one it calls it with the header, and if the answer is "equal"
  it copies the new contents into the last node of the list, whatever its key.
  Each call is mapped by itself; for the recursive walks of
  `updateNodeData` and `searchAll` (`VisitedIs`, `AftersAre`) the
  argument is by the greatest place at which the walk would go wrong.
* `Columns`: `DrawnInColumns` always holds.  The second iterator of `adjustLink`
  is followed turn by turn (`Steps`, `Marks`): after each turn of `drawList` both
  iterators are at the node just printed, and the column is the sum of the widths up
  to its place in `s` (`Drawing`), so that the walk on another level ends in
  the same column (`DrawTurn`).

A recursive function is used by a predicate that says it is one (`Advances`,
`Chains`, ...), with a lemma that there is one, given by places, and another that
all of them agree where they are used; no induction theorem is needed.

### `ListLocksProofs`

For every finite set of threads, any lists and any set of calls on them
(`LocksAssumption`).

* `Invariance`: every thread is somewhere in the steps of a call (`InCall`), and
  what it has locked is what those steps have taken and not given back.  `IInv`
  is about the place in the call because `IdleHoldsNothing` says nothing of a
  thread that is in the middle of one.
* `Typing`: `TypeOK`, whatever the calls: nothing is given back that was not taken.
* `Balance`: without `CheckFails` among the calls `IdleHoldsNothing` always holds.
* `DeadlockFree`: if moreover the lists are numbered and every call names its
  lists in ascending order (`Ordered`), `NoDeadlock` always holds.  Of a set of
  threads that only wait for each other take one that waits for the highest
  list: whoever holds that list waits for a higher one, and a reader that waits
  for a waiting writer waits for one that does.  There may be any number of
  lists, and the proof covers both versions of the lock.

### `ListsContainerProofs`

For any threads, any finite set of lists, any keys, any step `LC_MSTL` and any
bounds (`ContainerAssumption`), and a program that keeps to the whole
`Contract` (`Cautious`).

* `Invariance`: `IInv` says where every thread is in a call of the container
  (`Placed`), that there is room in the array for what is counted (`Sized`), and
  what the array holds (`Kept`, `Swept`): after the entries that were swept, each
  live list that was added exactly once, but for one that a thread has stored
  and not counted yet.  `ContainerKeepsAll` alone is not inductive: that an entry
  stays when the next one is stored needs that nobody else has the mutex, and
  that the counter is the number of entries.
* `Sound`, `Keeping`: `NoFault` and `ContainerKeepsAll` always hold.
* `Balanced`, `Typing`: `NothingElseLost` and `TypeOK` always hold.  The invariant
  is `Memory`: the counters are what the lists, the array and the lost copies make
  up, and a list that is not there holds nothing (otherwise making it again would
  count its nodes).  `SumMoves` reduces a sum over all lists to the one list a step
  changes; `JoinedGrows` and `CommonTyped` say what a join or an intersection, cut off
  at any turn, makes of the target, and `FreedOnErrorExact` that
  `MySKLinit` frees what it had allocated, whichever part is not to be had.
* `Combining`: `CombinesAsDocumented` holds of every step.  Its invariant is
  `Ordered`: every list is in the order of its keys, as the insertions of a join,
  cut off at any turn, leave it (`FillFills`).  How often a key is in the target
  is counted turn by turn (`JoinJoins`, `FoundBoth`, `FoundOne`); that the
  search of an intersection never passes over a key both lists have
  (`TurnFinds`) needs the order of both.

### `DbugProofs`

For any threads, control strings, functions, streams and bounds
(`DbugAssumption`).

* `Invariance`, `Typing`: the types of settings after any control string (`Scan`
  is a loop over its fields, by `Iterate`), and that the blocks threads
  are about to free are among those there are: without that the counter
  could drop below zero.  No hypothesis on the program.
* `OneLine` (`lock`): the mutex is with the thread that is in a line or has the
  file, or crashed in a line, so lines are not mixed.
* `LevelReturns` (`outside`, `leave`): the levels saved in the frames of a thread
  climb by one each, so the level in no frame is 0.
* `Owned`, for programs whose control strings ask for one file each: an open stream
  is in some settings, and of the threads that are not `Gone` in one settings of
  one thread.  `Streaming` says nothing of a thread that is gone, whose settings
  name streams that are closed and may be another thread's by now; that the others
  keep theirs follows from what held before it went (`FailStreams`, by
  `HoldsFirst`).  The hypothesis is needed: a control string
  that names two files opens both and forgets the first, which `FreeState` then
  never closes.
* `Faultless` (`outside`, `resume`, `leave`): `OnlyCloseFaults` always holds,
  whichever calls of `fopen` and `fclose` fail.  `VerbosityCases` splits the calls
  into those where every `fclose` succeeds and those where one fails.  The
  invariant ties the three parts of a thread's state together: a thread in a frame
  has settings, its stream is standard or one its settings hold open, and what
  `_db_return_` reads was written by `_db_enter_`.
* `Cleaned` (the whole `Contract` but `lock`): `CleanedIsTrue` always holds.  While
  one thread is between reading the counters and answering, nobody is between
  counting and allocating.

### `IteratorProofs`

For any users, nodes, keys and heights (`IteratorAssumption`).

* `Typing`: `TypeOK`, whatever the program does.  The invariant is `Listed`: the
  list is in the order of the keys and holds every node with a height once.
  `FirstOnes` turns the number of nodes with smaller keys, by which `Insert` counts,
  into a place; `AfterIs` and `BeforeIs` say what an array of a cell holds.
* `Invariance`: with one user (`Alone`) that keeps to the whole `Contract`
  (`Cautious`), `IInv` is inductive.  Beyond the types it says that the cells the
  iterator refers to are in the list and that `prevlev` is no more than the height of
  the one a step of the same way starts from (`Pointing`), what a call
  has already found out when the writers wait for it (`Calling`), and for the
  iterator of `MySKLsearchALL` that the nodes with smaller keys end at or before
  `next` and those with greater ones begin at `term` (`BelowEnds`,
  `AboveBegins`).  The last two survive writers because two nodes that stay
  are in the same order before and after (`OrderKept`).
* `Sound`, `RealAnswers`, `OneKeyOnly`: `NoFault`, `AnswersAreNodes` and
  `WithinRange` always hold under the same hypotheses.
* `InOrder`: so does `WalksInOrder`.  Besides `IInv` it needs what the iterator keeps of
  the last answer (`Remembering`): after a step forward `next` is the answer and
  `prev` an array whose pointer on that level leads to it, after a step back the
  other way round; every step that changes the list forgets the answer.
  `AfterNeighbours` and `BeforeNeighbours` say that the arrays of a node hold its
  neighbours, and `AnswerIs` that a call which ends has found what its tests saw.

### `LevelGeneratorProofs`

For words of any width from 2 bits on, blocks of any length, any distance, shifts,
tempering masks, multipliers and seeds, and any greatest level up to the width
(`RandomAssumption`, `LevelAssumption`).  `MATRIX_A` has its highest bit set, as
`RAND_MATRIX_A` has, and `BitAnd`, `BitOr` and `BitXor` are any operators
that work bit by bit (`BitAssumption`).  Two words with the same bits are the same
(`SameBits`), so a fact about words is proved bit by bit.  No hypothesis on the
program.

* `Invariance`: `IInv` is `RandomInv` and `ListInv`.  `RandomInv` ties the generator
  to the sequence: there is a block, the one the current block was made of, such
  that the last `N` words of the sequence are what was taken of this block and,
  before it, the end of that one (`Follows`, `Windows`).  `MatchesRecurrence` alone
  is not inductive, since it says nothing of the words that are still to be taken.
  `BlockIs`: the three loops of `rand_int` compute, in place, the block that the
  recurrence asks for.  `ListInv`: the levels add up to `nodenum` (`Sums`).
* `Sequence`: `MatchesRecurrence` always holds.  `StaysAlive`: the twist of a word is
  zero only if that word's bits are, since `MATRIX_A` marks the odd ones; so
  only the fixed point leads to the fixed point, and neither `rand_set_seed` nor
  `rand_set_seed_array` begins there (`SeedIs`, `ArraySeedIs`).
* `Halving`: `LevelsHalve` always holds.  Each of the four lines of the tempering
  is one-to-one, by the bits from the highest one down where it shifts to the right
  (`RightOnce`) and from the lowest one up where it shifts to the left
  (`LeftOnce`), whatever its mask; words are finitely many, so every word comes out
  exactly once (`TemperedOnto`) and there are as many words that are tempered
  below a bound as there are words below it (`TemperedBelow`).  The bound of the
  loop at level `k` is `2^(Width - k) - 1` (`BoundIs`), and the bounds descend, so that
  the loop goes beyond `k` for the words below the bound at `k` (`LeadsAbove`).
* `Typing`, `Thinning`: `TypeOK` and `LevelsThinOut` always hold; the counters
  without random numbers are never lowered, so deletions cannot break the second.

### Induction and loops

The library's induction theorems take an operator, which the provers cannot
instantiate.  The modules that need induction begin with lemmas that take a set or
a function instead: the least number principle (`LeastNumber`), induction along an
interval (`Upwards`), and loops of any number of turns (`Iterate`), by which a
recursive function over an interval exists; `ListsContainerProofs` adds sums over
finite sets (`SumsUp`, `SumsAgree`).

### Only model-checked

* Liveness (`EveryCallReturns`): fairness is out of the prover's reach.

## 5. What is not modelled, and the plan

What is left:

1. The composition of `ListLocks` with `RWLockV1`: what a failed `rwl_init` or
   an ignored `EBUSY` leads to.

### Not modelled

* Profiling and the wrappers of `setjmp` and `longjmp` in the debugging library:
  no code of myskl uses them.  Its flags that only change what a line says
  (file, line, depth, process, number), the delay and `ChangeOwner`/`Writable`.
* `RNGyieldDoubleRange`, which nobody calls, and the values of doubles.
* `MySKLdisplayListStruct`, which prints addresses; the version string; the text
  of errors and warnings; which arguments each check refuses.
* A reset of an iterator that is interrupted between two of its assignments: it
  is one step, and whoever breaks `own` may see more than the model shows.
* The failing of `pthread_*` calls.
* The tests, the build system and the Windows samples, which are programs that
  use the library, or copies of its headers.
