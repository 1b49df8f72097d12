----------------------------- MODULE TreeValues -----------------------------
(***************************************************************************)
(* The value of a BinarySearchTree (Exprs/include/BinarySearch.hpp) as far *)
(* as a caller of insert, remove and lookup can tell two trees apart: the  *)
(* key at the root and the set of keys stored.  The shape below the root   *)
(* only decides the level an operation reports; module BinarySearchTree    *)
(* has the nodes and the pointers, and implements this one.                *)
(***************************************************************************)
CONSTANTS Keys,   \* the values of keyDist(gen)
          NoKey   \* the root of an empty tree: root == NULL

ASSUME NoKeyAssumption == NoKey \notin Keys

Contents == [root : Keys \cup {NoKey}, keys : SUBSET Keys]

\* A root exists exactly when something is stored, and is one of the keys.
WellFormed(v) == IF v.keys = {} THEN v.root = NoKey ELSE v.root \in v.keys

TreeValue == {v \in Contents : WellFormed(v)}

EmptyTree == [root |-> NoKey, keys |-> {}]
-----------------------------------------------------------------------------
\* insert: the first key becomes the root, a duplicate changes nothing.
InsertKey(v, k) ==
  [root |-> IF v.root = NoKey THEN k ELSE v.root, keys |-> v.keys \cup {k}]

\* remove: the key at the root takes the whole tree with it; any other key is
\* looked for where it cannot be, and nothing changes.
RemoveKey(v, k) == IF v.root = k THEN EmptyTree ELSE v
=============================================================================
