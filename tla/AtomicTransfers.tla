-------------------------- MODULE AtomicTransfers --------------------------
(***************************************************************************)
(* What the locking of BinarySearchTest promises: the trees change only by *)
(* whole transfers, one after the other, each of which removes a key from  *)
(* one tree and inserts it into another.                                   *)
(***************************************************************************)
EXTENDS TreeValues

CONSTANT Tree
VARIABLE trees

Init == trees \in [Tree -> TreeValue]

Transfer(src, dst, k) ==
  trees' = [trees EXCEPT ![src] = RemoveKey(@, k), ![dst] = InsertKey(@, k)]

Next == \E src, dst \in Tree, k \in Keys : src # dst /\ Transfer(src, dst, k)

Spec == Init /\ [][Next]_trees
=============================================================================
