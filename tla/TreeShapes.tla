------------------------------ MODULE TreeShapes ------------------------------
(***************************************************************************)
(* The trees that sequences of sb_tree_insert, of a key that is absent,    *)
(* and sb_tree_delete, of one that is present, can make (the ticks call    *)
(* them in no other way).  engine/tool/sbtree.c does nothing with keys but *)
(* compare them, so one tree stands for all of its shape: after each call  *)
(* the keys are renamed 2, 4, 6... in their order, which leaves a number   *)
(* for every place a new key can have.                                     *)
(***************************************************************************)
EXTENDS SbTree

CONSTANT MaxKeys   \* bound: keys in the tree at a time

VARIABLE tree

RECURSIVE Renamed(_, _)
Renamed(t, before) ==
  LET rank == before + Cardinality(Keys(t.kids[Left])) + 1
  IN  IF t = Nil THEN Nil
      ELSE [t EXCEPT !.key = 2 * rank,
                     !.kids = <<Renamed(t.kids[Left], before), Renamed(t.kids[Right], rank)>>]

Absent == {2 * i + 1 : i \in 0..Cardinality(Keys(tree))}

Insert(key) == /\ Cardinality(Keys(tree)) < MaxKeys
               /\ tree' = Renamed(Inserted(tree, key), 0)

Delete(key) == tree' = Renamed(Deleted(tree, key), 0)

Init == tree = Nil

Next == \/ \E key \in Absent : Insert(key)
        \/ \E key \in Keys(tree) : Delete(key)

Spec == Init /\ [][Next]_tree
(***************************************************************************)
(* Properties.                                                             *)
(***************************************************************************)
Ticks == INSTANCE SortedTree WITH TreeEmpty <- Nil, TreeInsert <- Inserted, TreeDelete <- Deleted,
                                  TreeIndex <- Index, TreeLt <- Lt, TreeKeys <- Keys

(* After any insertions and deletions the keys are in order and each size  *)
(* is that of its subtree (sb_tree_main_tain and sb_tree_delete_node move  *)
(* nodes and contents and correct the sizes on the way back), so that lt,  *)
(* index and the next insertion or deletion, of any key, do what they      *)
(* should.  SecTick's proofs assume this of the tree.                      *)
TreeSound == WellFormed(tree) /\ Ticks!Sorted(tree, Absent \cup Keys(tree))

(* sb_tree_delete takes away the key it is called for, and no other,       *)
(* whatever insertions and deletions came before.                          *)
DeletionsWork == \A key \in Keys(tree) : Keys(Deleted(tree, key)) = Keys(tree) \ {key}
===============================================================================
