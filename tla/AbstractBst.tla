---------------------------- MODULE AbstractBst ----------------------------
(***************************************************************************)
(* What BinarySearchTree promises the benchmark: a root and a set of keys  *)
(* that grows by insertions, one by one, and is only ever emptied, by the  *)
(* removal of the key at the root.                                         *)
(***************************************************************************)
EXTENDS TreeValues

VARIABLE tree

Init == tree = EmptyTree

Next == \E k \in Keys : tree' \in {InsertKey(tree, k), RemoveKey(tree, k)}

Spec == Init /\ [][Next]_tree
=============================================================================
