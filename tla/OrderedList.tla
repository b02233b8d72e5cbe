----------------------------- MODULE OrderedList -----------------------------
(***************************************************************************)
(* What one list of the library promises, whatever it is made of: the      *)
(* sequence of its nodes in the order of their keys, and the answer to the *)
(* last call.  There is no level, no pointer and no search path here.      *)
(***************************************************************************)
EXTENDS Integers, Sequences

CONSTANTS Nodes, Keys, Items,
          NULL,       \* the null pointer: no node
          NIL         \* the end of the list

VARIABLES list,       \* the nodes in the list, as [node, key, item]
          reply       \* the last call and its answer

listVars == <<list, reply>>

Init == list = <<>> /\ reply = [op |-> "init"]

Members   == {list[j].node : j \in DOMAIN list}
Places(k) == {j \in DOMAIN list : list[j].key = k}

Answer(op, k, st) == reply' = [op |-> op, key |-> k, status |-> st]

(* A new element goes in front of the elements with its key; or there is no *)
(* memory for it.                                                           *)
Add(op, n, k, v) ==
    \/ \E p \in 0..Len(list) :
          /\ \A j \in 1..p : list[j].key < k
          /\ \A j \in p + 1 .. Len(list) : list[j].key >= k
          /\ list' = SubSeq(list, 1, p) \o <<[node |-> n, key |-> k, item |-> v]>>
                         \o SubSeq(list, p + 1, Len(list))
          /\ Answer(op, k, "STATUS_OK")
    \/ Answer(op, k, "MEM_EXHAUSTED") /\ UNCHANGED list

First(k, j) == j \in Places(k) /\ \A m \in Places(k) : j <= m

InsertAD(n, k, v) == n \notin Members /\ Add("insertAD", n, k, v)

InsertND(n, k, v) ==
    /\ n \notin Members
    /\ IF Places(k) = {} THEN Add("insertND", n, k, v)
       ELSE Answer("insertND", k, "DUPLICATE_KEY") /\ UNCHANGED list

InsertUPD(n, k, v) ==
    /\ n \notin Members
    /\ \/ Places(k) = {} /\ Add("insertUPD", n, k, v)
       \/ \E j \in DOMAIN list :
             /\ First(k, j)
             /\ list' = [list EXCEPT ![j].item = v]
             /\ Answer("insertUPD", k, "STATUS_OK")

(* Of the elements with the key at least one is updated; that not all of    *)
(* them are is a fault of the code (SkipList, UpdateAllReplacesAll).        *)
InsertUPD_ALL(n, k, v) ==
    /\ n \notin Members
    /\ IF Places(k) = {} THEN Add("insertUPD_ALL", n, k, v)
       ELSE /\ \E S \in (SUBSET Places(k)) \ {{}} :
                  list' = [j \in DOMAIN list |->
                             IF j \in S THEN [list[j] EXCEPT !.item = v] ELSE list[j]]
            /\ Answer("insertUPD_ALL", k, "STATUS_OK")

Delete(op, k) ==
    \/ \E j \in DOMAIN list :
          /\ First(k, j)
          /\ list' = SubSeq(list, 1, j - 1) \o SubSeq(list, j + 1, Len(list))
          /\ Answer(op, k, "STATUS_OK")
    \/ Places(k) = {} /\ Answer(op, k, "KEY_NOT_FOUND") /\ UNCHANGED list

DeleteAF(k) == Delete("deleteAF", k)

DeleteNF(k) ==
    \/ Delete("deleteNF", k)
    \/ Places(k) # {} /\ Answer("deleteNF", k, "NODE_NOT_DELETED") /\ UNCHANGED list

(* Any node with the key will do.                                           *)
Search(k) ==
    /\ UNCHANGED list
    /\ \E n \in IF Places(k) = {} THEN {NULL} ELSE {list[j].node : j \in Places(k)} :
          reply' = [op |-> "search", key |-> k, node |-> n]

(* The range of the nodes with the key: its first node, and the node after  *)
(* its last one.                                                            *)
SearchALL(k) ==
    /\ UNCHANGED list
    /\ \/ Places(k) = {} /\ reply' = [op |-> "searchALL", key |-> k, first |-> NULL, term |-> NULL]
       \/ \E a, b \in Places(k) :
             /\ Places(k) = a..b
             /\ reply' = [op |-> "searchALL", key |-> k, first |-> list[a].node,
                          term |-> IF b = Len(list) THEN NIL ELSE list[b + 1].node]

(* MySKLgetHead, MySKLgetTail, MySKLgetNodeNum, MySKLisEmpty at once.       *)
Observe ==
    /\ UNCHANGED list
    /\ reply' = [op      |-> "observe",
                 head    |-> IF list = <<>> THEN NULL ELSE list[1].node,
                 tail    |-> IF list = <<>> THEN NULL ELSE list[Len(list)].node,
                 nodenum |-> Len(list),
                 empty   |-> list = <<>>]

Next ==
    \/ \E n \in Nodes, k \in Keys, v \in Items :
          InsertAD(n, k, v) \/ InsertND(n, k, v) \/ InsertUPD(n, k, v) \/ InsertUPD_ALL(n, k, v)
    \/ \E k \in Keys : DeleteAF(k) \/ DeleteNF(k) \/ Search(k) \/ SearchALL(k)
    \/ Observe

Spec == Init /\ [][Next]_listVars

-----------------------------------------------------------------------------
(* The list is in the order of the keys and holds no node twice.            *)
Ordered ==
    \A a, b \in DOMAIN list :
        a < b => list[a].key <= list[b].key /\ list[a].node # list[b].node
=============================================================================
