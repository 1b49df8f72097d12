------------------------- MODULE MCBinarySearchTree -------------------------
(* BinarySearchTree for TLC: which address new returns makes no difference *)
(* to what the tree does.                                                  *)
EXTENDS BinarySearchTree, TLC

AddrSymmetry == Permutations(Addr)
=============================================================================
