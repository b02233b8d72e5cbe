--------------------------- MODULE ListsContainer ---------------------------
(***************************************************************************)
(* The life of lists: MySKLinit and what it allocates, nodes coming and    *)
(* going, MySKLjoinAD, MySKLjoinND, MySKLintersect and MySKLcopy,          *)
(* MySKLdestroy, and the container that destroys the lists added to it     *)
(* (skl_lc.c) when it is freed or when a check ends the program            *)
(* (_sklFatal, _sklAssertFail).                                            *)
(*                                                                         *)
(* A list is the sequence of its keys; memory is how many blocks of the    *)
(* library and how many nodes of the program there are.  A call on lists   *)
(* is one step, under their locks; the container's calls are taken apart.  *)
(***************************************************************************)
EXTENDS Naturals, SequencesExt

CONSTANTS Threads, Lists, Keys,
          Users,      \* the threads that make calls on lists; all use the container
          Builds,     \* [data, memo, rand]: what a failed check does, and the generator
          LC_MSTL,    \* by how many lists the container grows
          MaxLen, MaxHeld, MaxLost,  \* bounds: nodes in a list, nodes that the program
                                     \* adds one by one, copies that are lost
          Contract,   \* what the program takes care of
          NULL

(* No array, and an entry of the array that was never written.              *)
NoArray == <<>>
UNSET   == "?"

ASSUME ContainerAssumption ==
    /\ Builds \subseteq [data : {"warn", "exit"}, memo : {"warn", "exit"}, rand : BOOLEAN]
    /\ LC_MSTL \in Nat \ {0} /\ Keys \subseteq Nat
    /\ IsFiniteSet(Lists) /\ NULL \notin Lists /\ UNSET \notin Lists
    /\ Users \subseteq Threads /\ NULL \notin Threads
    /\ MaxLen \in Nat /\ MaxLost \in Nat
    /\ NULL \notin {"rng", "l", "x", "next", "prev"}

VARIABLES build,
          state,      \* of each list: "none", "live", "gone"
          nodes,      \* of each list: its keys, in order
          dst,        \* of each list: whether MySKLinit was given a destroyer of nodes
          lc,         \* the container
          mtx_lock,   \* lc.mtx_lock: the thread that has it, or NULL
          th,         \* per thread: where it is in a call of the container
          added,      \* the lists that were put into the container
          blocks,     \* the library's memory blocks
          held,       \* the program's nodes
          lost,       \* those of them that nobody can reach
          outcome     \* of the program

lists == <<state, nodes, dst, blocks, held, lost>>
cont  == <<lc, mtx_lock, added>>
vars  == <<build, lists, cont, th, outcome>>

NoContainer == [acl |-> NoArray, max_lists |-> LC_MSTL, lists_cnt |-> 0, mode |-> "LC_NONE"]
Running     == [pc |-> "run", l |-> NULL, i |-> 0, fatal |-> FALSE]

Init ==
    /\ build \in Builds
    /\ state = [l \in Lists |-> "none"] /\ nodes = [l \in Lists |-> <<>>]
    /\ dst = [l \in Lists |-> FALSE]
    /\ lc = NoContainer /\ mtx_lock = NULL /\ added = {}
    /\ th = [t \in Threads |-> Running]
    /\ blocks = 0 /\ held = 0 /\ lost = 0
    /\ outcome = "running"

-----------------------------------------------------------------------------
(* Checks that fail                                                         *)

Alone(t) == \A u \in Threads \ {t} : th[u].pc = "run"

(* _sklFatal and _sklAssertFail: the container is destroyed, and the program *)
(* ends.                                                                     *)
Fatal(t) ==
    th' = [th EXCEPT ![t] = [pc |-> IF lc.acl # NoArray THEN "sweep" ELSE "reset",
                             l |-> NULL, i |-> 0, fatal |-> TRUE]]

Fault == outcome' = "fault" /\ UNCHANGED <<lists, cont, th>>

(* What is left to the program.  "alone": the container is freed, and the    *)
(* memory runs out in a build that then ends the program, when no other      *)
(* thread is in a call of the container.                                     *)
MayEnd(t) == "alone" \in Contract => Alone(t)

(* A check of memory fails: verifyMemory.                                    *)
Exhausted(t) ==
    IF build.memo = "exit" THEN MayEnd(t) /\ Fatal(t) ELSE UNCHANGED th

(* In init the generator that could not be had fails a check of data too.    *)
PartMissing(t, part) ==
    IF part = "rng" /\ build.data = "exit" THEN MayEnd(t) /\ Fatal(t) ELSE Exhausted(t)

-----------------------------------------------------------------------------
(* Creation and destruction                                                  *)

Call(t) == outcome = "running" /\ th[t].pc = "run"

(* What MySKLinit allocates, in this order; without random numbers rng is    *)
(* NULL.                                                                     *)
Parts == (IF build.rand THEN <<"rng">> ELSE <<>>) \o <<"l", "x", "next", "prev">>

(* _sklFreeMemBlocks: the first of its arguments may be NULL, and the next   *)
(* NULL ends them.                                                           *)
FreeMemBlocks(args) ==
    LET ends == {i \in 2 .. Len(args) : args[i] = NULL}
        last == IF ends = {} THEN Len(args) ELSE Min(ends) - 1
    IN  {args[i] : i \in 1 .. last} \ {NULL}

(* The arguments of ON_ERROR_FREE_MEM when a part could not be had.          *)
Rng == IF build.rand THEN "rng" ELSE NULL

(* A bug: the part that could not be had is freed too.                      *)
FreedOnErrorWithPart(part) == {part} \cup FreeMemBlocks(<<Rng, NULL>>)

(* A bug: the header is forgotten.                                           *)
FreedOnErrorButHeader(part) ==
    FreeMemBlocks(CASE part = "rng"  -> <<NULL>>
                    [] part = "l"    -> <<Rng, NULL>>
                    [] part = "x"    -> <<"l", Rng, NULL>>
                    [] part = "next" -> <<"l", Rng, NULL>>
                    [] part = "prev" -> <<"next", "l", Rng, NULL>>)

FreedOnError(part) ==
    FreeMemBlocks(CASE part = "rng"  -> <<NULL>>
                    [] part = "l"    -> <<Rng, NULL>>
                    [] part = "x"    -> <<"l", Rng, NULL>>
                    [] part = "next" -> <<"x", "l", Rng, NULL>>
                    [] part = "prev" -> <<"next", "x", "l", Rng, NULL>>)

(* MySKLinit.  "dst": the program gives every list a destroyer of nodes.     *)
InitList(t, l, d) ==
    /\ Call(t) /\ state[l] = "none"
    /\ "dst" \in Contract => d
    /\ \/ /\ state' = [state EXCEPT ![l] = "live"]
          /\ dst' = [dst EXCEPT ![l] = d]
          /\ blocks' = blocks + Len(Parts)
          /\ UNCHANGED th
       \/ /\ \E i \in DOMAIN Parts :
                /\ blocks' = blocks + (i - 1) - Cardinality(FreedOnError(Parts[i]))
                /\ PartMissing(t, Parts[i])
          /\ UNCHANGED <<state, dst>>
    /\ UNCHANGED <<build, nodes, held, lost, cont, outcome>>

(* A bug: the backward links of the nodes are not freed.                     *)
DestroyedForward(l) ==
    /\ state' = [state EXCEPT ![l] = "gone"]
    /\ nodes' = [nodes EXCEPT ![l] = <<>>]
    /\ blocks' = blocks - Len(nodes[l]) - Len(Parts)
    /\ held' = held - Len(nodes[l])
    /\ UNCHANGED <<dst, lost>>

(* The loop of MySKLdestroy over destroy_node, and destroy_hdr: of a node    *)
(* its two arrays are freed, and l->dst destroys the rest.                   *)
Destroyed(l) ==
    /\ state' = [state EXCEPT ![l] = "gone"]
    /\ nodes' = [nodes EXCEPT ![l] = <<>>]
    /\ blocks' = blocks - 2 * Len(nodes[l]) - Len(Parts)
    /\ held' = held - Len(nodes[l])
    /\ UNCHANGED <<dst, lost>>

InContainer(l) == lc.acl # NoArray /\ \E i \in 1 .. lc.lists_cnt : lc.acl[i] = l

Pushing(l) == \E t \in Threads : th[t].l = l

(* MySKLdestroy by the program.  "owned": not of a list in the container.    *)
Destroy(t, l) ==
    /\ Call(t) /\ state[l] = "live" /\ ~Pushing(l)
    /\ "owned" \in Contract => ~InContainer(l)
    /\ IF dst[l] THEN Destroyed(l) /\ UNCHANGED th
       ELSE /\ UNCHANGED lists
            /\ IF build.data = "exit" THEN MayEnd(t) /\ Fatal(t) ELSE UNCHANGED th
    /\ UNCHANGED <<build, cont, outcome>>

-----------------------------------------------------------------------------
(* The contents                                                              *)

(* A new node goes in front of those with its key.                           *)
Into(s, k) == LET p == Cardinality({j \in DOMAIN s : s[j] < k}) IN InsertAt(s, p + 1, k)

(* The program's own calls: one node more, or one less.                      *)
Insert(t, l, k) ==
    /\ Call(t) /\ state[l] = "live" /\ Len(nodes[l]) < MaxLen /\ held < MaxHeld
    /\ \/ /\ nodes' = [nodes EXCEPT ![l] = Into(@, k)]
          /\ blocks' = blocks + 2 /\ held' = held + 1
          /\ UNCHANGED th
       \/ Exhausted(t) /\ UNCHANGED <<nodes, blocks, held>>
    /\ UNCHANGED <<build, state, dst, lost, cont, outcome>>

(* Without a destroyer of nodes the node stays.                              *)
Delete(t, l, k) ==
    /\ Call(t) /\ state[l] = "live" /\ Contains(nodes[l], k)
    /\ nodes' = [nodes EXCEPT ![l] = RemoveFirst(@, k)]
    /\ blocks' = blocks - 2
    /\ IF dst[l] THEN held' = held - 1 /\ UNCHANGED lost
       ELSE lost < MaxLost /\ lost' = lost + 1 /\ UNCHANGED held
    /\ UNCHANGED <<build, state, dst, cont, th, outcome>>

(* The nodes of s are copied into target: all of them, or in ND_MODE those   *)
(* whose key is not there yet.  Joined[p] is the target after p nodes.       *)
Join(target, k, mode) == IF mode = "ND" /\ Contains(target, k) THEN target ELSE Into(target, k)

Joined(target, s, mode) ==
    LET after[p \in 0 .. Len(s)] == IF p = 0 THEN target ELSE Join(after[p - 1], s[p], mode)
    IN  after

(* An inner loop of intersect, from the node at i, and the step behind it:   *)
(* on to the next node as long as there is one left to visit and it is equal *)
(* to the one before.                                                        *)
After(s, i) == Min({j \in i + 1 .. Len(s) + 1 : j > Len(s) \/ s[j] # s[j - 1]})

(* A bug: equal nodes are paired and not passed over.                        *)
CommonPairs(s1, s2) ==
    LET from[i \in 1 .. Len(s1) + 1, j \in 1 .. Len(s2) + 1] ==
          IF i > Len(s1) \/ j > Len(s2) THEN <<>>
          ELSE IF s1[i] = s2[j] THEN <<s1[i]>> \o from[i + 1, j + 1]
          ELSE IF s1[i] < s2[j] THEN from[i + 1, j] ELSE from[i, j + 1]
    IN  from[1, 1]

(* A turn of the loop of intersect in ND_MODE, with x at i and y at j.  The  *)
(* counters tovisit1 and tovisit2 stop it, and the loops over equal nodes,   *)
(* before the header is compared.                                            *)
Turn(s1, s2, at) ==
    IF at.i > Len(s1) \/ at.j > Len(s2) THEN at
    ELSE IF s1[at.i] = s2[at.j]
         THEN [i |-> After(s1, at.i), j |-> After(s2, at.j), keys |-> Append(at.keys, s1[at.i])]
         ELSE IF s1[at.i] < s2[at.j] THEN [at EXCEPT !.i = @ + 1] ELSE [at EXCEPT !.j = @ + 1]

(* The keys that intersect copies.                                           *)
Common(s1, s2) ==
    LET turns == Len(s1) + Len(s2)
        at[n \in 0 .. turns] ==
          IF n = 0 THEN [i |-> 1, j |-> 1, keys |-> <<>>] ELSE Turn(s1, s2, at[n - 1])
    IN  at[turns].keys

(* Copies of the nodes of s are put into list l; or there is no memory for   *)
(* that of s[p + 1], and the copy itself is nobody's any more.               *)
Fill(t, l, s, mode) ==
    LET part == Joined(nodes[l], s, mode)
        full == part[Len(s)]
        put(new) == /\ nodes' = [nodes EXCEPT ![l] = new]
                    /\ blocks' = blocks + 2 * (Len(new) - Len(nodes[l]))
    IN  /\ Len(full) <= MaxLen
        /\ \/ /\ put(full) /\ held' = held + Len(full) - Len(nodes[l])
              /\ UNCHANGED <<lost, th>>
           \/ \E p \in 0 .. Len(s) - 1 :
                 /\ Len(part[p + 1]) > Len(part[p])
                 /\ put(part[p]) /\ held' = held + Len(part[p]) - Len(nodes[l]) + 1
                 /\ lost < MaxLost /\ lost' = lost + 1
                 /\ Exhausted(t)
        /\ UNCHANGED <<build, state, dst, cont, outcome>>

AllLive(S) == \A l \in S : state[l] = "live"

(* MySKLjoinAD, MySKLjoinND; in ND_MODE target->dst takes a copy back whose  *)
(* key is there.                                                             *)
JoinAD(t, target, source) ==
    /\ Call(t) /\ target # source /\ AllLive({target, source})
    /\ Fill(t, target, nodes[source], "AD")

JoinND(t, target, source) ==
    /\ Call(t) /\ target # source /\ AllLive({target, source})
    /\ IF ~dst[target] /\ (ToSet(nodes[source]) \cap ToSet(nodes[target]) # {}
                           \/ ~IsInjective(nodes[source]))
       THEN Fault /\ UNCHANGED build
       ELSE Fill(t, target, nodes[source], "ND")

(* MySKLintersect, whatever the target held before.                          *)
Intersect(t, source1, source2, target) ==
    /\ Call(t) /\ target \notin {source1, source2} /\ AllLive({source1, source2, target})
    /\ Fill(t, target, Common(nodes[source1], nodes[source2]), "AD")

(* MySKLcopy                                                                 *)
Copy(t, source, target) ==
    /\ Call(t) /\ target # source /\ AllLive({target, source})
    /\ Fill(t, target, nodes[source], "AD")

-----------------------------------------------------------------------------
(* The container                                                             *)

quiet == <<build, lists, outcome>>

(* _createListsContainer.  "once": not while there is one.                   *)
InitContainer(t) ==
    /\ Call(t)
    /\ "once" \in Contract => lc.acl = NoArray /\ Alone(t)
    /\ \/ /\ lc' = [lc EXCEPT !.mode = "LC_FULL",
                              !.acl = [i \in 1 .. lc.max_lists + LC_MSTL |-> UNSET]]
          /\ blocks' = blocks + 1 /\ UNCHANGED th
       \/ /\ lc' = [lc EXCEPT !.mode = "LC_FULL", !.acl = NoArray]
          /\ IF build.memo = "exit"
             THEN MayEnd(t) /\ th' = [th EXCEPT ![t] = [Running EXCEPT !.pc = "reset", !.fatal = TRUE]]
             ELSE UNCHANGED th
          /\ UNCHANGED blocks
    /\ UNCHANGED <<build, state, nodes, dst, held, lost, mtx_lock, added, outcome>>

Goto(t, p) == th' = [th EXCEPT ![t].pc = p]

(* _containerPushAcl, by MySKLaddtoListsContainer.  The array is looked at    *)
(* before the mutex is taken.  A program adds a list once.                   *)
Push(t, l) ==
    /\ Call(t) /\ state[l] = "live" /\ l \notin added /\ ~Pushing(l)
    /\ "alone" \in Contract => \A u \in Threads : th[u].pc \notin {"sweep", "reset"}
    /\ IF lc.acl # NoArray
       THEN th' = [th EXCEPT ![t] = [Running EXCEPT !.pc = "lock", !.l = l]]
       ELSE IF build.data = "exit" THEN MayEnd(t) /\ Fatal(t) ELSE UNCHANGED th
    /\ UNCHANGED <<quiet, cont>>

(* A bug: nobody is waited for.                                              *)
LockMutexNot(t) == mtx_lock' = t

LockMutex(t) == mtx_lock = NULL /\ mtx_lock' = t

Lock(t) ==
    /\ outcome = "running" /\ th[t].pc = "lock"
    /\ LockMutex(t)
    /\ Goto(t, IF lc.lists_cnt >= lc.max_lists THEN "grow" ELSE "store")
    /\ UNCHANGED <<quiet, lc, added>>

(* allocExtraMemory; without memory the list is not added.                   *)
Grow(t) ==
    /\ outcome = "running" /\ th[t].pc = "grow"
    /\ LET size == lc.max_lists + LC_MSTL
       IN  \/ /\ lc' = [lc EXCEPT !.max_lists = size,
                                  !.acl = [i \in 1 .. size |->
                                             IF i \in DOMAIN lc.acl THEN lc.acl[i] ELSE UNSET]]
              /\ Goto(t, "store")
           \/ Goto(t, "unlock") /\ UNCHANGED lc
    /\ UNCHANGED <<quiet, mtx_lock, added>>

(* The entry is written, and then the counter.                               *)
Store(t) ==
    /\ outcome = "running" /\ th[t].pc = "store"
    /\ IF lc.lists_cnt + 1 \notin DOMAIN lc.acl THEN Fault
       ELSE /\ lc' = [lc EXCEPT !.acl[lc.lists_cnt + 1] = th[t].l]
            /\ th' = [th EXCEPT ![t].pc = "unlock", ![t].i = lc.lists_cnt + 1]
            /\ added' = added \cup {th[t].l}
            /\ UNCHANGED <<lists, mtx_lock, outcome>>
    /\ UNCHANGED build

Unlock(t) ==
    /\ outcome = "running" /\ th[t].pc = "unlock"
    /\ mtx_lock' = NULL
    /\ lc' = IF th[t].i > 0 THEN [lc EXCEPT !.lists_cnt = th[t].i] ELSE lc
    /\ th' = [th EXCEPT ![t] = Running]
    /\ UNCHANGED <<quiet, added>>

(* MySKLfreeListsContainer                                                   *)
Free(t) ==
    /\ Call(t) /\ MayEnd(t) /\ lc.mode = "LC_FULL"
    /\ th' = [th EXCEPT ![t] = [Running EXCEPT
                 !.pc = IF lc.acl # NoArray THEN "sweep" ELSE "reset"]]
    /\ UNCHANGED <<quiet, cont>>

(* A bug: a list that was destroyed keeps its entry.                         *)
SweepToOne(t) == th[t].i + 1 < lc.lists_cnt

SweepOn(t) == th[t].i < lc.lists_cnt

(* destroyAoCL: the next list.  One that has no destroyer of nodes fails the *)
(* check of MySKLdestroy, in the build that then ends the program over and   *)
(* over again.                                                               *)
Sweep(t) ==
    /\ outcome = "running" /\ th[t].pc = "sweep" /\ SweepOn(t)
    /\ LET j == th[t].i + 1
           l == lc.acl[j]
       IN  IF l = UNSET \/ l = NULL \/ (l \in Lists /\ state[l] = "gone") THEN Fault
           ELSE IF dst[l]
           THEN /\ Destroyed(l)
                /\ lc' = [lc EXCEPT !.acl[j] = NULL]
                /\ th' = [th EXCEPT ![t].i = j]
                /\ UNCHANGED <<mtx_lock, added, outcome>>
           ELSE IF build.data = "exit" THEN Fault
           ELSE th' = [th EXCEPT ![t].i = j] /\ UNCHANGED <<lists, cont, outcome>>
    /\ UNCHANGED build

(* X_FREE ( a )                                                              *)
FreeArray(t) ==
    /\ outcome = "running" /\ th[t].pc = "sweep" /\ ~SweepOn(t)
    /\ blocks' = blocks - 1
    /\ Goto(t, "reset")
    /\ UNCHANGED <<build, state, nodes, dst, held, lost, cont, outcome>>

(* A bug: the counter stays.                                                 *)
EmptyButCounter == [NoContainer EXCEPT !.lists_cnt = lc.lists_cnt]

Empty == NoContainer

(* The rest of _destroyListsContainer, and of who called it.                 *)
Reset(t) ==
    /\ outcome = "running" /\ th[t].pc = "reset"
    /\ lc' = Empty
    /\ th' = [th EXCEPT ![t] = Running]
    /\ outcome' = IF th[t].fatal THEN "exited" ELSE outcome
    /\ UNCHANGED <<build, lists, mtx_lock, added>>

-----------------------------------------------------------------------------
OnLists(t) ==
    \/ \E l \in Lists : (\E d \in BOOLEAN : InitList(t, l, d)) \/ Destroy(t, l)
    \/ \E l \in Lists, k \in Keys : Insert(t, l, k) \/ Delete(t, l, k)
    \/ \E l, m \in Lists : JoinAD(t, l, m) \/ JoinND(t, l, m) \/ Copy(t, l, m)
    \/ \E l, m, n \in Lists : Intersect(t, l, m, n)

OnContainer(t) ==
    \/ InitContainer(t) \/ Free(t)
    \/ \E l \in Lists : Push(t, l)
    \/ Lock(t) \/ Grow(t) \/ Store(t) \/ Unlock(t)
    \/ Sweep(t) \/ FreeArray(t) \/ Reset(t)

Next == (\E t \in Users : OnLists(t)) \/ (\E t \in Threads : OnContainer(t))

Spec == Init /\ [][Next]_vars

-----------------------------------------------------------------------------
TypeOK ==
    /\ build \in Builds
    /\ state \in [Lists -> {"none", "live", "gone"}]
    /\ \A l \in Lists : nodes[l] \in Seq(Keys) /\ Len(nodes[l]) <= MaxLen
    /\ dst \in [Lists -> BOOLEAN]
    /\ mtx_lock \in Threads \cup {NULL}
    /\ lc.lists_cnt \in 0 .. Cardinality(Lists)
    /\ added \subseteq Lists
    /\ blocks \in Nat /\ held \in Nat /\ lost \in 0 .. MaxLost
    /\ outcome \in {"running", "exited", "fault"}

(* No list is destroyed twice, no entry read that was never written, no      *)
(* entry written outside the array, and a fatal error ends the program.      *)
NoFault == outcome # "fault"

(* Every block and every node is in a list, or is the container's array, or  *)
(* is one of the copies that failing joins lose: nothing else is lost, when  *)
(* a list cannot be made, when a key is there already, when a list or the    *)
(* container is destroyed.                                                   *)
NothingElseLost ==
    LET live == {l \in Lists : state[l] = "live"}
        array == lc.acl # NoArray /\ \A t \in Threads : th[t].pc # "reset"
    IN  /\ held = lost + SumFunctionOnSet([l \in Lists |-> Len(nodes[l])], live)
        /\ blocks = (IF array THEN 1 ELSE 0)
              + SumFunctionOnSet([l \in Lists |-> Len(Parts) + 2 * Len(nodes[l])], live)

(* A list that was put into the container is in it until it is destroyed:    *)
(* two threads that add at the same time, and the growing of the array, lose *)
(* none, and freeing the container destroys them all.                        *)
ContainerKeepsAll ==
    \A l \in added : state[l] = "live" => \E i \in DOMAIN lc.acl : lc.acl[i] = l

(* What the operations on whole lists are for (myskl.h:305-372), in terms of *)
(* how often each key is there, and what is left of it when memory runs out  *)
(* half way: the sources as they were, the target in order and in between.   *)
Count(s, k) == Cardinality({j \in DOMAIN s : s[j] = k})

Wanted(op, l, sources, k) ==
    LET had == Count(nodes[l], k) IN
    CASE op = "all"    -> had + SumFunctionOnSet([m \in Lists |-> Count(nodes[m], k)], sources)
      [] op = "new"    -> IF had = 0 /\ \E m \in sources : Contains(nodes[m], k) THEN 1 ELSE had
      [] op = "common" -> IF \A m \in sources : Contains(nodes[m], k) THEN had + 1 ELSE had

Combined(op, l, sources) ==
    /\ \A m \in Lists \ {l} : nodes'[m] = nodes[m]
    /\ IsSorted(nodes'[l], <=)
    /\ \A k \in Keys :
          IF lost' = lost THEN Count(nodes'[l], k) = Wanted(op, l, sources, k)
          ELSE Count(nodes'[l], k) \in Count(nodes[l], k) .. Wanted(op, l, sources, k)

CombinesAsDocumented ==
    [][UNCHANGED <<state, cont>> => \A t \in Users, l, m \in Lists :
          /\ JoinAD(t, l, m) \/ Copy(t, m, l) => Combined("all", l, {m})
          /\ JoinND(t, l, m) => Combined("new", l, {m})
          /\ \A n \in Lists : Intersect(t, m, n, l) => Combined("common", l, {m, n})]_vars
=============================================================================
