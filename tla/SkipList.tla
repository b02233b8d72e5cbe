------------------------------ MODULE SkipList ------------------------------
(***************************************************************************)
(* One skip list: the pointers of its nodes, level by level, and the calls *)
(* that read and change them (skl_init.c, skl_ins.c, skl_del.c,            *)
(* skl_search.c, skl_misc.c), and what skl_draw.c prints of them, in the   *)
(* build with doubly linked nodes.                                         *)
(*                                                                         *)
(* Every call holds the list's lock from its first access to its last one  *)
(* (for writing when it changes the list), so a call is one action; what   *)
(* the lock is worth is the subject of RWLockV1.  Levels are numbered from *)
(* 0 as the arrays next[] and prev[] are.                                  *)
(***************************************************************************)
EXTENDS Integers, Sequences

CONSTANTS Nodes,      \* the nodes the program hands over to the list
          Keys,       \* what cmp compares
          Items,      \* what else a node holds
          MaxLevel,   \* l->maxlevel
          NIL,        \* the header, which is also the end of every level
          NULL,       \* the null pointer
          HeaderAnswers,  \* what cmp may say of the header, which holds no key
          Calls       \* the calls the program makes

ASSUME ListAssumption ==
    /\ NIL \notin Nodes /\ NULL \notin Nodes /\ NIL # NULL
    /\ Keys \subseteq Nat \ {0}
    /\ MaxLevel \in Nat \ {0}
    /\ HeaderAnswers \subseteq BOOLEAN

VARIABLES next, prev, \* next[c][i], prev[c][i]: the links of cell c at level i
          sz,         \* the length of a node's arrays; 0 for a node not in the list
          key, item,  \* the program's data in the nodes that are in the list
          curlevel, nodenum, tail,
          reply       \* the last call and its answer

list == <<next, prev, sz, key, item, curlevel, nodenum, tail>>
vars == <<next, prev, sz, key, item, curlevel, nodenum, tail, reply>>

Cells  == Nodes \cup {NIL}
Levels == 0 .. MaxLevel - 1

(* setinfo, for a list that MySKLinit has just allocated.                   *)
Init ==
    /\ next = [c \in Cells |-> [i \in Levels |-> NIL]]
    /\ prev = [c \in Cells |-> [i \in Levels |-> NIL]]
    /\ sz   = [c \in Cells |-> IF c = NIL THEN MaxLevel ELSE 0]
    /\ key  = [n \in Nodes |-> 0]
    /\ item = [n \in Nodes |-> NULL]
    /\ curlevel = 1 /\ nodenum = 0 /\ tail = NIL
    /\ reply = [op |-> "init"]

Answer(op, k, st) == reply' = [op |-> op, key |-> k, status |-> st]

-----------------------------------------------------------------------------
(* Search paths                                                             *)

Equal(c, k) == c # NIL /\ key[c] = k

(* A bug: the loop goes on over the equal nodes.                            *)
AdvanceOverEqual(c, i, k) ==
    LET adv[d \in Cells] ==
          IF next[d][i] # NIL /\ key[next[d][i]] <= k THEN adv[next[d][i]] ELSE d
    IN  adv[c]

(* The inner loop at level i from cell c: on to the next node while its key *)
(* is less than k.                                                          *)
Advance(c, i, k) ==
    LET adv[d \in Cells] ==
          IF next[d][i] # NIL /\ key[next[d][i]] < k THEN adv[next[d][i]] ELSE d
    IN  adv[c]

(* update[]: where the outer loop leaves each level, starting from level    *)
(* top - 1 of the header.                                                   *)
Path(top, k) ==
    LET update[i \in 0 .. top - 1] ==
          Advance(IF i = top - 1 THEN NIL ELSE update[i + 1], i, k)
    IN  update

(* The node the path ends in front of.                                      *)
Stop(k) == next[Path(curlevel, k)[0]][0]

-----------------------------------------------------------------------------
(* Insertion                                                                *)

(* genLevel with MYSKL_USE_RAND: any level up to one more than the highest  *)
(* in use.                                                                  *)
GenLevel == 1 .. IF curlevel < MaxLevel THEN curlevel + 1 ELSE MaxLevel

(* newNode and the linking loops: node n, of lev levels, goes behind the    *)
(* cell update[i] of each of its levels i.                                  *)
Link(n, k, v, lev, update) ==
    /\ sz'   = [sz EXCEPT ![n] = lev]
    /\ key'  = [key EXCEPT ![n] = k]
    /\ item' = [item EXCEPT ![n] = v]
    /\ next' = [c \in Cells |-> [i \in Levels |->
                  IF i >= lev THEN next[c][i]
                  ELSE IF c = n THEN next[update[i]][i]
                  ELSE IF c = update[i] THEN n
                  ELSE next[c][i]]]
    /\ prev' = [c \in Cells |-> [i \in Levels |->
                  IF i >= lev THEN prev[c][i]
                  ELSE IF c = n THEN update[i]
                  ELSE IF c = next[update[i]][i] THEN n
                  ELSE prev[c][i]]]
    /\ curlevel' = IF lev > curlevel THEN lev ELSE curlevel
    /\ tail'     = IF next[update[0]][0] = NIL THEN n ELSE tail
    /\ nodenum'  = nodenum + 1

Exhausted(op, k) == Answer(op, k, "MEM_EXHAUSTED") /\ UNCHANGED list

(* _insertPlain: curlevel is raised first, and the path starts from there.  *)
InsertPlain(op, n, k, v) ==
    \/ \E lev \in GenLevel :
          /\ Link(n, k, v, lev, Path(IF lev > curlevel THEN lev ELSE curlevel, k))
          /\ Answer(op, k, "STATUS_OK")
    \/ Exhausted(op, k)

(* addNodeAndUpdateLinks: the header is what precedes the node at the       *)
(* levels above curlevel.                                                   *)
AddNode(op, n, k, v) ==
    \/ \E lev \in GenLevel :
          /\ Link(n, k, v, lev, [i \in 0 .. lev - 1 |->
                                   IF i < curlevel THEN Path(curlevel, k)[i] ELSE NIL])
          /\ Answer(op, k, "STATUS_OK")
    \/ Exhausted(op, k)

(* The nodes updateNodeData visits from node n on: n, and then the next one *)
(* as long as the one after that next one compares equal.  When that is the *)
(* header, cmp is given memory that holds no key: "junk" is what it says.   *)
Visited(n, k, junk) ==
    LET visit[m \in Nodes] ==
          {m} \cup IF /\ next[m][0] # NIL
                      /\ IF next[next[m][0]][0] = NIL THEN junk
                         ELSE Equal(next[next[m][0]][0], k)
                   THEN visit[next[m][0]] ELSE {}
    IN  visit[n]

(* updfunc copies the new contents into each node of S.                     *)
Overwrite(op, k, v, S) ==
    /\ item' = [n \in Nodes |-> IF n \in S THEN v ELSE item[n]]
    /\ Answer(op, k, "STATUS_OK")
    /\ UNCHANGED <<next, prev, sz, key, curlevel, nodenum, tail>>

InsertAD(n, k, v) == sz[n] = 0 /\ InsertPlain("insertAD", n, k, v)

InsertND(n, k, v) ==
    /\ sz[n] = 0
    /\ IF Equal(Stop(k), k)
       THEN Answer("insertND", k, "DUPLICATE_KEY") /\ UNCHANGED list
       ELSE AddNode("insertND", n, k, v)

InsertUPD(n, k, v) ==
    /\ sz[n] = 0
    /\ IF Equal(Stop(k), k) THEN Overwrite("insertUPD", k, v, {Stop(k)})
       ELSE AddNode("insertUPD", n, k, v)

InsertUPD_ALL(n, k, v) ==
    /\ sz[n] = 0
    /\ IF Equal(Stop(k), k)
       THEN \E junk \in HeaderAnswers : Overwrite("insertUPD_ALL", k, v, Visited(Stop(k), k, junk))
       ELSE AddNode("insertUPD_ALL", n, k, v)

-----------------------------------------------------------------------------
(* Deletion                                                                 *)

(* A bug: an "if" in place of the "while".                                  *)
AdjustCurLevelOnce(header) ==
    IF curlevel > 1 /\ header[curlevel - 1] = NIL THEN curlevel - 1 ELSE curlevel

(* A bug: the loop goes on to level 0.                                      *)
AdjustCurLevelToZero(header) ==
    LET adj[c \in 0 .. MaxLevel] ==
          IF c > 0 /\ header[c - 1] = NIL THEN adj[c - 1] ELSE c
    IN  adj[curlevel]

(* adjustCurLevel: down while the top level of the header is empty.         *)
AdjustCurLevel(header) ==
    LET adj[c \in 1 .. MaxLevel] ==
          IF c > 1 /\ header[c - 1] = NIL THEN adj[c - 1] ELSE c
    IN  adj[curlevel]

(* A bug: the loop stops one level early.                                   *)
LinkedBelowTop(x, update) ==
    {i \in 0 .. curlevel - 2 : \A j \in 0..i : next[update[j]][j] = x}

(* The levels deleteI takes node x out of: up to the first one where the    *)
(* cell the path left does not lead to x.                                   *)
Linked(x, update) ==
    {i \in 0 .. curlevel - 1 : \A j \in 0..i : next[update[j]][j] = x}

(* A bug: the last node of a level has no next node to correct.             *)
BackUnlessLast(x, update) ==
    [c \in Cells |-> [i \in Levels |->
       IF c = x THEN NIL
       ELSE IF i \in Linked(x, update) /\ c = next[x][i] /\ c # NIL THEN update[i]
       ELSE prev[c][i]]]

(* The links over x, forward and backward.                                  *)
Over(x, update) ==
    [c \in Cells |-> [i \in Levels |->
       IF c = x THEN NIL
       ELSE IF i \in Linked(x, update) /\ c = update[i] THEN next[x][i]
       ELSE next[c][i]]]

Back(x, update) ==
    [c \in Cells |-> [i \in Levels |->
       IF c = x THEN NIL
       ELSE IF i \in Linked(x, update) /\ c = next[x][i] THEN update[i]
       ELSE prev[c][i]]]

(* deleteI on the node x it has found.  The node's arrays are freed and the *)
(* node goes back to the program.                                           *)
Unlink(x, update) ==
    /\ next' = Over(x, update)
    /\ prev' = Back(x, update)
    /\ tail' = IF next[x][0] = NIL THEN update[0] ELSE tail
    /\ curlevel' = AdjustCurLevel(next'[NIL])
    /\ nodenum' = nodenum - 1
    /\ sz'   = [sz EXCEPT ![x] = 0]
    /\ key'  = [key EXCEPT ![x] = 0]
    /\ item' = [item EXCEPT ![x] = NULL]

DeleteI(op, k) ==
    IF nodenum # 0 /\ Equal(Stop(k), k)
    THEN Unlink(Stop(k), Path(curlevel, k)) /\ Answer(op, k, "STATUS_OK")
    ELSE Answer(op, k, "KEY_NOT_FOUND") /\ UNCHANGED list

DeleteAF(k) == DeleteI("deleteAF", k)

(* dstdatafunc may refuse.                                                  *)
DeleteNF(k) ==
    \/ DeleteI("deleteNF", k)
    \/ /\ nodenum # 0 /\ Equal(Stop(k), k)
       /\ Answer("deleteNF", k, "NODE_NOT_DELETED")
       /\ UNCHANGED list

-----------------------------------------------------------------------------
(* Searching and asking                                                     *)

(* search looks for an equal node at every level before it goes down.       *)
Found(k) ==
    LET at(i) == next[Path(curlevel, k)[i]][i]
        hits  == {i \in 0 .. curlevel - 1 : Equal(at(i), k)}
    IN  IF nodenum = 0 \/ hits = {} THEN NULL
        ELSE at(CHOOSE i \in hits : \A j \in hits : j <= i)

Search(k) ==
    /\ reply' = [op |-> "search", key |-> k, node |-> Found(k)]
    /\ UNCHANGED list

(* searchAll walks level 0, first to the range and then through it.         *)
SearchALL(k) ==
    LET first == next[Advance(NIL, 0, k)][0]
        after[c \in Cells] == IF Equal(next[c][0], k) THEN after[next[c][0]] ELSE next[c][0]
    IN  /\ reply' = IF nodenum # 0 /\ Equal(first, k)
                    THEN [op |-> "searchALL", key |-> k, first |-> first, term |-> after[first]]
                    ELSE [op |-> "searchALL", key |-> k, first |-> NULL, term |-> NULL]
        /\ UNCHANGED list

GetHead == IF next[NIL][0] # NIL THEN next[NIL][0] ELSE NULL
GetTail == IF tail # NIL THEN tail ELSE NULL

(* MySKLisEmpty(l, k): of level k, or of the list when k is 0.              *)
IsEmpty(k) == IF k > 0 THEN next[NIL][k - 1] = NIL ELSE nodenum = 0

Observe ==
    /\ reply' = [op |-> "observe", head |-> GetHead, tail |-> GetTail,
                 nodenum |-> nodenum, empty |-> IsEmpty(0)]
    /\ UNCHANGED list

-----------------------------------------------------------------------------
(* Drawing (skl_draw.c), in columns counted from the header: what            *)
(* MySKLdrawList prints of a list nobody changes meanwhile.  The program's   *)
(* data of a node are as wide as its key says.  An iterator is the cell      *)
(* whose array iter->next is, and NULL is what getNextNoMutex returns at the *)
(* end of a level.                                                           *)

GetNextNoMutex(c, i) == IF next[c][i] = NIL THEN NULL ELSE next[c][i]

(* Four columns of link, and as many as the data of the node passed over.    *)
(* A bug: the "<" of that node is not counted.                               *)
PassedWithoutLess(n) == 4 + key[n]

Passed(n) == 4 + key[n] + 1

(* adjustLink: iter2 catches up with iter1, node by node.                    *)
AdjustLink(iter1, iter2, i) ==
    LET ptrref == GetNextNoMutex(iter1, i)
        catch[c \in Cells] ==
          LET tmpptr == GetNextNoMutex(c, 0)
          IN  IF tmpptr \in {ptrref, NULL} THEN [at |-> tmpptr, cols |-> 0]
              ELSE [catch[tmpptr] EXCEPT !.cols = @ + Passed(tmpptr)]
    IN  catch[iter2]

(* One turn of drawList's loop on level i: d.x is the node printed last.    *)
DrawNode(d, i) ==
    LET x    == next[d.x][i]
        link == IF i = 0 THEN [at |-> NIL, cols |-> 0] ELSE AdjustLink(d.iter1, d.iter2, i)
        col  == d.col + 1 + link.cols + 4
    IN  IF x = NIL THEN d
        ELSE [x |-> x, iter1 |-> GetNextNoMutex(d.iter1, i), iter2 |-> link.at, col |-> col + key[x],
              drawn |-> d.drawn \cup {[node |-> x, col |-> col, met |-> link.at]}]

(* drawList: the nodes of level i and the columns they are printed in.  No  *)
(* level has more than nodenum of them (Bookkeeping).                       *)
DrawList(i) ==
    LET draw[n \in 0 .. nodenum] ==
          IF n = 0 THEN [x |-> NIL, iter1 |-> NIL, iter2 |-> NIL, col |-> 0, drawn |-> {}]
          ELSE DrawNode(draw[n - 1], i)
    IN  draw[nodenum].drawn

-----------------------------------------------------------------------------
Next ==
    \/ \E n \in Nodes, k \in Keys, v \in Items :
          \/ "insertAD" \in Calls /\ InsertAD(n, k, v)
          \/ "insertND" \in Calls /\ InsertND(n, k, v)
          \/ "insertUPD" \in Calls /\ InsertUPD(n, k, v)
          \/ "insertUPD_ALL" \in Calls /\ InsertUPD_ALL(n, k, v)
    \/ \E k \in Keys :
          \/ "deleteAF" \in Calls /\ DeleteAF(k)
          \/ "deleteNF" \in Calls /\ DeleteNF(k)
          \/ "search" \in Calls /\ Search(k)
          \/ "searchALL" \in Calls /\ SearchALL(k)
    \/ "observe" \in Calls /\ Observe

Spec == Init /\ [][Next]_vars

-----------------------------------------------------------------------------
TypeOK ==
    /\ next \in [Cells -> [Levels -> Cells]]
    /\ prev \in [Cells -> [Levels -> Cells]]
    /\ sz \in [Cells -> 0 .. MaxLevel] /\ sz[NIL] = MaxLevel
    /\ key \in [Nodes -> Keys \cup {0}]
    /\ item \in [Nodes -> Items \cup {NULL}]
    /\ curlevel \in 1 .. MaxLevel
    /\ nodenum \in Nat
    /\ tail \in Cells

(* The nodes on level i, in the order of its links.                         *)
Chain(i) ==
    LET from[c \in Cells] ==
          IF next[c][i] = NIL THEN <<>> ELSE <<next[c][i]>> \o from[next[c][i]]
    IN  from[NIL]

(* Level i is the list less the nodes of i levels or fewer, in the same     *)
(* order: a cell on the level leads to the next node of the list that is on *)
(* it, or to the end.  No call ever leaves a node behind on one of its      *)
(* levels, or links it at a level its arrays do not have.  The header is    *)
(* the place before the first one and the place after the last one.         *)
LevelsAreSublists ==
    LET all     == Chain(0)
        at(p)   == IF p \in DOMAIN all THEN all[p] ELSE NIL
        on(p,i) == p \in DOMAIN all => sz[all[p]] > i
    IN  \A i \in Levels, p \in 0 .. Len(all), q \in 1 .. Len(all) + 1 :
            p < q /\ on(p, i) /\ on(q, i) /\ (\A r \in p + 1 .. q - 1 : ~on(r, i))
                => next[at(p)][i] = at(q)

(* Every backward link undoes a forward link, the header's included.        *)
PrevUndoesNext ==
    \A i \in Levels : \A c \in {NIL} \cup {n \in Nodes : sz[n] > i} :
        prev[next[c][i]][i] = c

(* The counters and the tail describe the links: nodenum is the length of   *)
(* the list, tail its last node, curlevel the highest level in use.         *)
Bookkeeping ==
    /\ nodenum = Len(Chain(0))
    /\ tail = prev[NIL][0]
    /\ \A i \in 1 .. MaxLevel - 1 : IsEmpty(i + 1) <=> i >= curlevel

(* MySKLinsertUPD_ALL "replaces all nodes" (myskl.h): once it has answered   *)
(* MYSKL_STATUS_OK, every node with the key holds the same contents.         *)
UpdateAllReplacesAll ==
    reply.op = "insertUPD_ALL" /\ reply.status = "STATUS_OK" =>
        \A m, n \in Nodes : Equal(m, reply.key) /\ Equal(n, reply.key) => item[m] = item[n]

(* A level is drawn to its end, every node of it in the same column as on    *)
(* level 0, and the walk of the second iterator ends at the node the first   *)
(* one is at, never past the end of the list (adjustLink: the link is of the *)
(* right length).                                                            *)
DrawnInColumns ==
    /\ \A i \in Levels : {e.node : e \in DrawList(i)} = {n \in Nodes : sz[n] > i}
    /\ \A i \in Levels \ {0} : \A e \in DrawList(i) :
          /\ e.met = e.node
          /\ \E d \in DrawList(0) : d.node = e.node /\ d.col = e.col

(* The list implements the ordered list, as long as cmp never takes the      *)
(* header for a node that compares equal (HeaderAnswers).                    *)
Elements == [j \in DOMAIN Chain(0) |->
               [node |-> Chain(0)[j], key |-> key[Chain(0)[j]], item |-> item[Chain(0)[j]]]]

Ordered == INSTANCE OrderedList WITH list <- Elements

ImplementsOrderedList == Ordered!Spec
=============================================================================
