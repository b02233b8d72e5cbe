----------------------------- MODULE MCListLocks -----------------------------
(* Programs for ListLocks.  Lists are numbered, and a program respects the   *)
(* order when its calls name their lists in order.                           *)
EXTENDS ListLocks, TLC

Alike == Permutations(Threads)

One(op)  == [op : {op}, list : Lists]
Two(op)  == {c \in [op : {op}, source : Lists, target : Lists] : c.source < c.target}

(* The target of a call comes after its sources, and so do the sources of    *)
(* MySKLintersect among themselves.                                          *)
AllInOrder ==
    One("read") \cup One("write") \cup Two("copy") \cup Two("joinAD") \cup Two("joinND")
      \cup {c \in [op : {"intersect"}, source1 : Lists, source2 : Lists, target : Lists] :
               c.source1 < c.source2 /\ c.source2 < c.target}
=============================================================================
