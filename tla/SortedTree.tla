------------------------------ MODULE SortedTree ------------------------------
(***************************************************************************)
(* What the ticks rely on when they call the tree of engine/tool/sbtree.c. *)
(* The tree is a parameter: SbTree is the model of the code, TreeShapes    *)
(* checks that it keeps to this, and proofs need nothing else of it.       *)
(***************************************************************************)
EXTENDS Integers, FiniteSets

CONSTANTS
  TreeEmpty,          \* the tree without keys,
  TreeInsert(_, _),   \* sb_tree_insert,
  TreeDelete(_, _),   \* sb_tree_delete,
  TreeIndex(_, _),    \* sb_tree_index,
  TreeLt(_, _),       \* sb_tree_lt,
  TreeKeys(_)         \* and the keys a tree holds

Below(tree, key) == Cardinality({k \in TreeKeys(tree) : k < key})

(* For the keys in range: lt counts the keys below, index finds the key    *)
(* with so many below it, and a key that is inserted or deleted is the     *)
(* only one that comes or goes.                                            *)
Sorted(tree, range) ==
  /\ IsFiniteSet(TreeKeys(tree)) /\ TreeKeys(tree) \subseteq Nat
  /\ \A i \in 0..Cardinality(TreeKeys(tree)) - 1 :
       TreeIndex(tree, i) \in TreeKeys(tree) /\ Below(tree, TreeIndex(tree, i)) = i
  /\ \A key \in range :
       /\ TreeLt(tree, key) = Below(tree, key)
       /\ IF key \in TreeKeys(tree)
          THEN TreeKeys(TreeDelete(tree, key)) = TreeKeys(tree) \ {key}
          ELSE TreeKeys(TreeInsert(tree, key)) = TreeKeys(tree) \cup {key}
===============================================================================
