-------------------------------- MODULE SbTree --------------------------------
(***************************************************************************)
(* The size-balanced tree of engine/tool/sbtree.c, as an algorithm on      *)
(* values.  A node is a record with its key, the size of its subtree and   *)
(* its two subtrees; what the code writes once for the left and once for   *)
(* the right side is one operator with a side.  The values stored in nodes *)
(* are left out (the ticks store none).  The operators are recursive, so   *)
(* nothing is proved about this module.                                    *)
(***************************************************************************)
EXTENDS Integers, FiniteSets

Left  == 1
Right == 2
Other(side) == 3 - side

Nil == [size |-> 0]

Leaf(key) == [key |-> key, size |-> 1, kids |-> <<Nil, Nil>>]

RECURSIVE Keys(_)
Keys(t) == IF t = Nil THEN {} ELSE Keys(t.kids[Left]) \cup {t.key} \cup Keys(t.kids[Right])

(* left_rotate is Rotate(t, Right), right_rotate Rotate(t, Left): the      *)
(* child on that side goes up.                                             *)
Rotate_slip(t, side) ==
  LET up   == t.kids[side]
      down == [t EXCEPT !.kids[side] = up.kids[Other(side)]]
  IN  [up EXCEPT !.kids[Other(side)] = down, !.size = t.size]

Rotate(t, side) ==
  LET up   == t.kids[side]
      down == [t EXCEPT !.kids[side] = up.kids[Other(side)],
                        !.size = up.kids[Other(side)].size + t.kids[Other(side)].size + 1]
  IN  [up EXCEPT !.kids[Other(side)] = down, !.size = t.size]

(* sb_tree_main_tain: a subtree larger than its uncle is rotated up.  What *)
(* the code maintains next is below the node that went down, not the two   *)
(* sides of the node that went up.                                         *)
RECURSIVE Maintain(_, _)
Maintain(t, side) ==
  LET far       == Other(side)
      limit     == t.kids[far].size
      Settle(r) == Maintain(Maintain([r EXCEPT !.kids[far].kids[side] = Maintain(@, side)], Left), Right)
  IN  CASE t = Nil \/ (t # Nil /\ t.kids[side] = Nil) -> t
        [] OTHER -> IF t.kids[side].kids[side].size > limit THEN Settle(Rotate(t, side))
                    ELSE IF t.kids[side].kids[far].size > limit
                         THEN Settle(Rotate([t EXCEPT !.kids[side] = Rotate(@, far)], side))
                         ELSE t

RECURSIVE Inserted(_, _)
Inserted(t, key) ==
  LET side == IF key < t.key THEN Left ELSE Right
  IN  IF t = Nil THEN Leaf(key)
      ELSE Maintain([t EXCEPT !.size = @ + 1, !.kids[side] = Inserted(@, key)], side)

(* sb_tree_delete_node: the tree that is left, and the key of the node     *)
(* that is freed or whose content moves up ({} when there is none).  With  *)
(* isfind the node taken away is the last one.                             *)
RECURSIVE DeletedNode(_, _, _)
DeletedNode(t, key, isfind) ==
  LET found == ~isfind /\ key = t.key
      side  == IF ~isfind /\ key < t.key THEN Left ELSE Right
      below == DeletedNode(t.kids[side], key, isfind)
      last  == DeletedNode(t.kids[Left], key, TRUE)
      child == IF t.kids[Left] # Nil THEN t.kids[Left] ELSE t.kids[Right]
      only  == IF child = Nil THEN {} ELSE {child.key}
      Filled(kids, moved) ==
        LET new == IF moved = {} THEN key ELSE CHOOSE k \in moved : TRUE
        IN  [tree  |-> Maintain(Maintain([key |-> new, size |-> t.size - 1, kids |-> kids], Right),
                                IF key < new THEN Right ELSE Left),
             moved |-> moved]
  IN  IF t = Nil THEN [tree |-> Nil, moved |-> {}]
      ELSE IF isfind /\ t.kids[Right] = Nil THEN [tree |-> t.kids[Left], moved |-> {t.key}]
      ELSE IF found /\ t.size = 1 THEN [tree |-> Nil, moved |-> {key}]
      ELSE IF found /\ t.size = 2 THEN Filled(<<Nil, Nil>>, only)
      ELSE IF found THEN Filled(<<last.tree, t.kids[Right]>>, last.moved)
      ELSE [tree  |-> Maintain([t EXCEPT !.kids[side] = below.tree,
                                         !.size = @ - Cardinality(below.moved)],
                               IF isfind THEN Left ELSE Other(side)),
            moved |-> below.moved]

Deleted(t, key) == DeletedNode(t, key, FALSE).tree

RECURSIVE Index(_, _)
Index(t, i) ==
  LET before == t.kids[Left].size
  IN  IF i = before THEN t.key
      ELSE IF i < before THEN Index(t.kids[Left], i) ELSE Index(t.kids[Right], i - before - 1)

RECURSIVE Lt(_, _)
Lt(t, key) ==
  IF t = Nil THEN 0
  ELSE IF t.key < key THEN t.kids[Left].size + 1 + Lt(t.kids[Right], key) ELSE Lt(t.kids[Left], key)

(* Keys in order, and every size the number of nodes of its subtree.       *)
RECURSIVE WellFormed(_)
WellFormed(t) ==
  \/ t = Nil
  \/ /\ WellFormed(t.kids[Left]) /\ WellFormed(t.kids[Right])
     /\ t.size = t.kids[Left].size + t.kids[Right].size + 1
     /\ \A k \in Keys(t.kids[Left]) : k < t.key
     /\ \A k \in Keys(t.kids[Right]) : t.key < k
===============================================================================
