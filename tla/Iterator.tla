------------------------------ MODULE Iterator ------------------------------
(***************************************************************************)
(* An iterator over a list that other threads change (skl_iter.c, and the  *)
(* iterator that MySKLsearchALL makes), in the build with doubly linked    *)
(* nodes.                                                                  *)
(*                                                                         *)
(* iter->next and iter->prev point to the arrays of a cell, so the model   *)
(* keeps the cell and which of its arrays it is.  What the arrays hold     *)
(* follows from the order of the nodes and their heights, as SkipList      *)
(* shows (LevelsAreSublists, PrevUndoesNext).  A call holds the list for   *)
(* reading, so nobody inserts or deletes during one; it holds the          *)
(* iterator's mutex only from its second look at the iterator on.          *)
(***************************************************************************)
EXTENDS Integers, Sequences, SequencesExt

CONSTANTS Users,     \* the threads that use the iterator
          Nodes, Keys, MaxLevel,
          NIL, NULL, \* the header; the null pointer
          Contract   \* what the program takes care of, see MayDelete and after

ASSUME IteratorAssumption ==
    /\ Keys \subseteq Nat \ {0}
    /\ MaxLevel \in Nat \ {0}
    /\ NIL \notin Nodes /\ NULL \notin Nodes \cup {NIL}

VARIABLES chain,     \* the nodes of the list, in order
          sz, key,   \* their heights and keys; 0 for a node not in the list
          exists,    \* whether the program's pointer to the iterator is not NULL
          iter,      \* the iterator
          last,      \* how it was used last: "set", "next" or "prev" (for Contract)
          pc, lev,   \* where each user is, and the level it asked for
          reply      \* the last answer

shape == <<chain, sz, key>>
vars  == <<shape, exists, iter, last, pc, lev, reply>>

Cells  == Nodes \cup {NIL}
Levels == 1 .. MaxLevel
Arrays == [cell : Cells, way : {"next", "prev"}]

(* The null pointer, and a pointer that was never written.                  *)
NoArray == [cell |-> NULL, way |-> "next"]
JUNK    == [cell |-> NULL, way |-> "prev"]

(* Before or after cell c, which has l levels.                              *)
AtCell(c, l) == [next |-> [cell |-> c, way |-> "next"], prev |-> [cell |-> c, way |-> "prev"],
                 prevlev |-> l, term |-> NULL, range |-> 0]

(* To list key k, from array a up to cell t; iter->prev is not written.     *)
Listing(a, t, k) == [next |-> a, prev |-> JUNK, prevlev |-> 1, term |-> t, range |-> k]

(* There is no iterator; what it would be does not matter.                  *)
Init ==
    /\ chain = <<>>
    /\ sz  = [c \in Cells |-> IF c = NIL THEN MaxLevel ELSE 0]
    /\ key = [n \in Nodes |-> 0]
    /\ exists = FALSE
    /\ iter = AtCell(NIL, MaxLevel)
    /\ last = "set"
    /\ pc = [u \in Users |-> "idle"] /\ lev = [u \in Users |-> 1]
    /\ reply = [op |-> "set"]

-----------------------------------------------------------------------------
(* The first and the last of the nodes at some places of the list.          *)
FirstAt(I) == IF I = {} THEN NIL ELSE chain[Min(I)]
LastAt(I)  == IF I = {} THEN NIL ELSE chain[Max(I)]

Pos(n) == CHOOSE i \in DOMAIN chain : chain[i] = n

(* What the arrays of cell c hold for level l.                              *)
After(c, l)  == FirstAt({i \in DOMAIN chain : sz[chain[i]] >= l /\ (c # NIL => i > Pos(c))})
Before(c, l) == LastAt({i \in DOMAIN chain : sz[chain[i]] >= l /\ (c # NIL => i < Pos(c))})

(* a[l - 1], where a is the value of iter->next or iter->prev.              *)
At(a, l) == IF a.way = "next" THEN After(a.cell, l) ELSE Before(a.cell, l)

(* The array is that of a cell of the list, and long enough.                *)
Valid(a, l) == a.cell \in Cells /\ l <= sz[a.cell]

-----------------------------------------------------------------------------
(* What the code leaves to the program.                                     *)

Held == IF exists THEN {iter.next.cell, iter.prev.cell, iter.term} ELSE {}

(* "keep": the nodes the iterator refers to are not deleted.                *)
MayDelete(n) == "keep" \in Contract => n \notin Held

(* "quiet": while somebody lists the nodes of one key, nobody inserts others. *)
MayInsert(k) == "quiet" \in Contract /\ iter.range # 0 => k = iter.range

(* "way": a step above level 1 goes the way of the last step.  "forward": an *)
(* iterator made by MySKLsearchALL goes forward, at level 1.                *)
MayStep(way, l) ==
    /\ "way" \in Contract /\ l > 1 => last \in {"set", way}
    /\ "forward" \in Contract /\ iter.range # 0 => way = "next" /\ l = 1

(* "own": nobody makes, resets or destroys an iterator that somebody is in a *)
(* call with, nor makes one where there is one.                             *)
MayMake    == "own" \in Contract => ~exists
MayReplace == "own" \in Contract => \A u \in Users : pc[u] = "idle"

(* "made": nobody goes back where there is no iterator.                     *)
MayAskNothing(way) == "made" \in Contract => way = "next"

-----------------------------------------------------------------------------
(* The writers                                                              *)

Reading == \E u \in Users : pc[u] \notin {"idle", "next"}

(* Before the nodes with the same key, as the insertions of SkipList.       *)
Insert(n, k, h) ==
    /\ ~Reading /\ sz[n] = 0 /\ MayInsert(k)
    /\ chain' = InsertAt(chain, Cardinality({i \in DOMAIN chain : key[chain[i]] < k}) + 1, n)
    /\ sz' = [sz EXCEPT ![n] = h]
    /\ key' = [key EXCEPT ![n] = k]
    /\ reply' = [op |-> "write"]
    /\ UNCHANGED <<exists, iter, last, pc, lev>>

(* The first node with its key; its arrays are freed.                       *)
Delete(n) ==
    /\ ~Reading /\ sz[n] # 0 /\ MayDelete(n)
    /\ \A m \in Nodes : key[m] = key[n] /\ m # n => Pos(n) < Pos(m)
    /\ chain' = RemoveAt(chain, Pos(n))
    /\ sz' = [sz EXCEPT ![n] = 0]
    /\ key' = [key EXCEPT ![n] = 0]
    /\ reply' = [op |-> "write"]
    /\ UNCHANGED <<exists, iter, last, pc, lev>>

-----------------------------------------------------------------------------
(* The iterator                                                             *)

Fresh(i) ==
    /\ iter' = i
    /\ last' = "set"
    /\ reply' = [op |-> "set"]
    /\ UNCHANGED <<shape, pc, lev>>

(* MySKLsetIterator, setIterator: before the first node, or at node c.       *)
SetIterator(c) ==
    /\ MayMake
    /\ c = NIL \/ sz[c] # 0
    /\ exists' = TRUE
    /\ Fresh(AtCell(c, sz[c]))

(* MySKLresetIterator, setIteratorNoMutex: the same, without a lock.         *)
ResetIterator(c) ==
    /\ exists /\ MayReplace
    /\ c = NIL \/ sz[c] # 0
    /\ Fresh(AtCell(c, sz[c]))
    /\ UNCHANGED exists

(* MySKLdestroyIterator, without a lock.  X_FREE leaves the null pointer.    *)
DestroyIterator ==
    /\ exists /\ MayReplace
    /\ exists' = FALSE
    /\ Fresh(AtCell(NIL, MaxLevel))

(* MySKLsearchALL: from the cell before the first node with the key to the  *)
(* node after the last one; an empty iterator when there is none.           *)
SearchALL(k) ==
    LET equal  == {i \in DOMAIN chain : key[chain[i]] = k}
        before == {i \in DOMAIN chain : key[chain[i]] < k}
        start  == [cell |-> LastAt(before), way |-> "next"]
    IN  /\ MayMake
        /\ exists' = TRUE
        /\ \/ equal = {} /\ Fresh(Listing(NoArray, NULL, k))
           \/ equal # {} /\ Fresh(Listing(start, After(LastAt(equal), 1), k))

Answer(u, way, n) ==
    /\ reply' = [op |-> way, lev |-> lev[u], node |-> n]
    /\ pc' = [pc EXCEPT ![u] = "idle"]
    /\ UNCHANGED <<shape, exists, lev>>

(* someSanityChecks.  MySKLgetNextNode makes them before READER_ENTER,      *)
(* MySKLgetPrevNode after it.                                               *)
Ask(u, way, l) ==
    /\ pc[u] = "idle" /\ exists /\ MayStep(way, l)
    /\ l <= iter.prevlev
    /\ pc' = [pc EXCEPT ![u] = way]
    /\ lev' = [lev EXCEPT ![u] = l]
    /\ UNCHANGED <<shape, exists, iter, last, reply>>

(* The check of the pointer itself (verifyIter), of an iterator that was      *)
(* destroyed or never made.  MySKLgetPrevNode reads iter->list before it.    *)
AskNothing(u, way) ==
    /\ pc[u] = "idle" /\ ~exists /\ MayAskNothing(way)
    /\ \/ way = "next" /\ reply' = [op |-> way, lev |-> 1, node |-> NULL] /\ UNCHANGED pc
       \/ way = "prev" /\ pc' = [pc EXCEPT ![u] = "crashed"] /\ UNCHANGED reply
    /\ UNCHANGED <<shape, exists, iter, last, lev>>

(* A bug: the terminator is not looked at.                                  *)
EndAheadIsHeader(l) == At(iter.next, l) = NIL

(* Both questions are asked before the mutex is taken.                      *)
EndAhead(l) == At(iter.next, l) \in {NIL, iter.term}

(* A bug: a step back from the first node leads to the header.              *)
EndBackNever(l) == FALSE

EndBack(l) == At(iter.prev, l) = NIL

(* Bugs: prevlev stays what it was, it counts from 0 as lev does inside the *)
(* function, or the way back starts at the new node.                        *)
AheadKeepsLevel(n) ==
    [iter EXCEPT !.prev = iter.next, !.next = [cell |-> n, way |-> "next"]]
AheadCountsFromZero(n) ==
    [iter EXCEPT !.prev = iter.next, !.prevlev = sz[n] - 1, !.next = [cell |-> n, way |-> "next"]]
AheadForgetsPrev(n) ==
    [iter EXCEPT !.prev = [cell |-> n, way |-> "prev"], !.prevlev = sz[n],
                 !.next = [cell |-> n, way |-> "next"]]

(* The iterator at the node that getNext or getPrev returns.                *)
Ahead(n) ==
    [iter EXCEPT !.prev = iter.next, !.prevlev = sz[n], !.next = [cell |-> n, way |-> "next"]]
Back(n) ==
    [iter EXCEPT !.next = iter.prev, !.prevlev = sz[n], !.prev = [cell |-> n, way |-> "prev"]]

(* getNext and getPrev: the tests, without the mutex.  A step is defined     *)
(* only where the array is there to be read; NoFault says that it always is. *)
Test(u, way, a, end) ==
    /\ pc[u] = way /\ Valid(a, lev[u])
    /\ \/ end /\ Answer(u, way, NULL)
       \/ /\ ~end
          /\ pc' = [pc EXCEPT ![u] = IF way = "next" THEN "movenext" ELSE "moveprev"]
          /\ UNCHANGED <<shape, exists, lev, reply>>
    /\ UNCHANGED <<iter, last>>

(* iter->next is NULL when MySKLsearchALL found nothing.                    *)
TestNext(u) ==
    \/ Test(u, "next", iter.next, EndAhead(lev[u]))
    \/ /\ pc[u] = "next" /\ iter.next = NoArray
       /\ Answer(u, "next", NULL)
       /\ UNCHANGED <<iter, last>>

TestPrev(u) == Test(u, "prev", iter.prev, EndBack(lev[u]))

(* The rest, with the mutex, from the iterator as it is by then.            *)
MoveNext(u) ==
    /\ pc[u] = "movenext" /\ Valid(iter.next, lev[u])
    /\ LET node == At(iter.next, lev[u])
       IN  iter' = Ahead(node) /\ Answer(u, "next", node)
    /\ last' = "next"

MovePrev(u) ==
    /\ pc[u] = "moveprev" /\ Valid(iter.prev, lev[u])
    /\ LET node == At(iter.prev, lev[u])
       IN  iter' = Back(node) /\ Answer(u, "prev", node)
    /\ last' = "prev"

-----------------------------------------------------------------------------
Next ==
    \/ \E n \in Nodes, k \in Keys, h \in Levels : Insert(n, k, h)
    \/ \E n \in Nodes : Delete(n)
    \/ \E c \in Cells : SetIterator(c) \/ ResetIterator(c)
    \/ DestroyIterator
    \/ \E k \in Keys : SearchALL(k)
    \/ \E u \in Users :
          \/ \E way \in {"next", "prev"}, l \in Levels : Ask(u, way, l)
          \/ \E way \in {"next", "prev"} : AskNothing(u, way)
          \/ TestNext(u) \/ MoveNext(u) \/ TestPrev(u) \/ MovePrev(u)

Spec == Init /\ [][Next]_vars

-----------------------------------------------------------------------------
TypeOK ==
    /\ chain \in Seq(Nodes)
    /\ sz \in [Cells -> 0 .. MaxLevel] /\ key \in [Nodes -> Keys \cup {0}]
    /\ {iter.next, iter.prev} \subseteq Arrays \cup {NoArray, JUNK}
    /\ iter.prevlev \in Levels
    /\ iter.term \in Cells \cup {NULL}
    /\ exists \in BOOLEAN
    /\ pc \in [Users -> {"idle", "next", "prev", "movenext", "moveprev", "crashed"}]
    /\ lev \in [Users -> Levels]

(* No call follows a pointer to an iterator or into a node that is not there, *)
(* reads an array beyond its end or uses a pointer that was never written:    *)
(* the test of the level against iter->prevlev (skl_iter.c, someSanityChecks) *)
(* is enough.                                                                *)
NoFault ==
    \A u \in Users :
        /\ pc[u] # "idle" => exists
        /\ pc[u] = "next" => iter.next = NoArray \/ Valid(iter.next, lev[u])
        /\ pc[u] = "movenext" => Valid(iter.next, lev[u])
        /\ pc[u] \in {"prev", "moveprev"} => Valid(iter.prev, lev[u])

(* An answer is a node that is in the list, never the header.               *)
AnswersAreNodes ==
    reply.op \in {"next", "prev"} =>
        reply.node = NULL \/ (reply.node \in Nodes /\ sz[reply.node] # 0)

(* The iterator that MySKLsearchALL returns "may be used to list those keys" *)
(* (myskl.h) and lists no others.                                           *)
WithinRange ==
    reply.op = "next" /\ reply.node # NULL /\ iter.range # 0 => key[reply.node] = iter.range

(* On level l, node b comes right after node a.                             *)
Neighbours(a, b, l) ==
    /\ sz[a] >= l /\ sz[b] >= l
    /\ \E i, j \in DOMAIN chain :
          /\ chain[i] = a /\ chain[j] = b /\ i < j
          /\ \A m \in DOMAIN chain : i < m /\ m < j => sz[chain[m]] < l

Answered == \E u \in Users : pc[u] # "idle" /\ pc'[u] = "idle"

(* Two steps in a row on one level, with no change of the list between them: *)
(* forward and forward leads to the neighbour, up to the terminator, back    *)
(* and back to the one before, forward and back to the same node.            *)
WalksInOrder ==
    [][ /\ Answered
        /\ reply.op \in {"next", "prev"} /\ reply.node # NULL
        /\ reply'.lev = reply.lev
        => LET n == reply.node
               m == reply'.node
               l == reply.lev
           IN  /\ reply'.op # reply.op => m = n
               /\ reply.op = "next" /\ reply'.op = "next" =>
                     \/ m # NULL /\ m # iter.term /\ Neighbours(n, m, l)
                     \/ m = NULL /\ \A x \in Nodes : Neighbours(n, x, l) => x = iter.term
               /\ reply.op = "prev" /\ reply'.op = "prev" =>
                     \/ m # NULL /\ Neighbours(m, n, l)
                     \/ m = NULL /\ \A x \in Nodes : ~Neighbours(x, n, l)
      ]_vars
=============================================================================
