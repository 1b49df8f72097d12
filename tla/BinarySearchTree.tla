-------------------------- MODULE BinarySearchTree --------------------------
(***************************************************************************)
(* Exprs/include/BinarySearch.hpp and BinaryNode.hpp: one BinarySearchTree *)
(* on a heap whose addresses are reused after delete.  Keys are numbers.   *)
(* The callers hold the tree's mutex, so a method is one step; what it     *)
(* does to the heap is spelled out pointer by pointer.                     *)
(***************************************************************************)
EXTENDS Naturals, Sequences, FiniteSets

CONSTANTS Keys,   \* the numbers inserted, looked up and removed
          NoKey,
          Addr,   \* the addresses new can return (bounds the heap)
          Null,   \* the null pointer
          Freed   \* the contents of an address that is not allocated

ASSUME HeapAssumption ==
  Keys \subseteq Nat /\ NoKey \notin Keys /\ Null \notin Addr

VARIABLES root,  \* BinarySearchTree::root
          node,  \* the heap: a BinaryNode, or Freed, at each address
          ub     \* a node was used after its delete

vars == <<root, node, ub>>

Leaf(k) == [data |-> k, left |-> Null, right |-> Null]

Init == root = Null /\ node = [a \in Addr |-> Freed] /\ ub = FALSE

Free == {a \in Addr : node[a] = Freed}

\* The pointer the search for k follows out of node a.
Child(a, k) == IF k < node[a].data THEN node[a].left ELSE node[a].right
-----------------------------------------------------------------------------
(* lookup and insert walk down from the root and count the levels.         *)

\* The level lookup returns: where the key is, or where the walk ran out.
LookupLevel(k) ==
  LET level[a \in Addr \cup {Null}] ==
        IF a = Null THEN 0
        ELSE IF node[a].data = k THEN 0 ELSE 1 + level[Child(a, k)]
  IN  level[root]

\* The node at which the walk of insert ends: the one with the key, or the
\* parent of the place for it.
WalkEnd(k) ==
  LET walk[a \in Addr] ==
        IF node[a].data = k \/ Child(a, k) = Null THEN a ELSE walk[Child(a, k)]
  IN  walk[root]

InsertLevelFromOne(k) ==  \* faulty: the root is counted as a level
  IF root = Null THEN 0 ELSE 1 + LookupLevel(k)

\* The level insert returns.
InsertLevel(k) == LookupLevel(k)

InsertLeft(k) ==  \* faulty: every leaf becomes a left child
  /\ ~ ub
  /\ \E leaf \in Free :
       IF root = Null
       THEN root' = leaf /\ node' = [node EXCEPT ![leaf] = Leaf(k)]
       ELSE LET p == WalkEnd(k) IN
            /\ node' = IF node[p].data = k THEN node
                       ELSE [node EXCEPT ![leaf] = Leaf(k), ![p].left = leaf]
            /\ UNCHANGED root
  /\ UNCHANGED ub

InsertOnTop(k) ==  \* faulty: the new node is put above the root
  /\ ~ ub
  /\ \E leaf \in Free :
       /\ root' = leaf
       /\ node' = [node EXCEPT ![leaf] = [Leaf(k) EXCEPT !.left = root]]
  /\ UNCHANGED ub

\* new comes first; the node is deleted again when the key is already there.
Insert(k) ==
  /\ ~ ub
  /\ \E leaf \in Free :
       IF root = Null
       THEN root' = leaf /\ node' = [node EXCEPT ![leaf] = Leaf(k)]
       ELSE LET p == WalkEnd(k) IN
            /\ node' = IF node[p].data = k THEN node
                       ELSE IF k < node[p].data
                       THEN [node EXCEPT ![leaf] = Leaf(k), ![p].left = leaf]
                       ELSE [node EXCEPT ![leaf] = Leaf(k), ![p].right = leaf]
            /\ UNCHANGED root
  /\ UNCHANGED ub
-----------------------------------------------------------------------------
(* remove and deleteHelper.  A call of deleteHelper on heap m yields the   *)
(* heap it leaves, the pointer it returns and whether it used a node after *)
(* deleting it.                                                            *)

FindMin(m, a) ==
  LET min[b \in Addr] == IF m[b].left = Null THEN b ELSE min[m[b].left] IN min[a]

RECURSIVE DeleteHelper(_, _, _, _, _)
DeleteHelper(m, parent, a, k, new) ==
  IF a = Null THEN [heap |-> m, ret |-> Null, bad |-> FALSE]
  ELSE IF k < m[a].data THEN
    LET r == DeleteHelper(m, a, m[a].left, k, new)
    IN  [r EXCEPT !.heap = [@ EXCEPT ![a].left = r.ret], !.ret = a]
  ELSE IF k > m[a].data THEN
    LET r == DeleteHelper(m, a, m[a].right, k, new)
    IN  [r EXCEPT !.heap = [@ EXCEPT ![a].right = r.ret], !.ret = a]
  ELSE IF m[a].left = Null \/ m[a].right = Null THEN
    [heap |-> [m EXCEPT ![a] = Freed],
     ret |-> IF m[a].left = Null THEN m[a].right ELSE m[a].left, bad |-> FALSE]
  ELSE \* two children: a copy of the successor takes the place of a, which is
       \* deleted before its right link is written and its address returned
    LET copy   == [m[a] EXCEPT !.data = m[FindMin(m, m[a].right)].data]
        swap   == [m EXCEPT ![a] = Freed, ![new] = copy]
        linked == IF m[parent].data > copy.data
                  THEN [swap EXCEPT ![parent].left = new]
                  ELSE [swap EXCEPT ![parent].right = new]
        r == DeleteHelper(linked, new, copy.right, copy.data, new)
    IN  [r EXCEPT !.ret = a, !.bad = TRUE]

RemoveFromRight(k) ==  \* faulty: a larger key is looked for on the right
  /\ ~ ub
  /\ root # Null
  /\ node[root].data < k
  /\ \E new \in Free :
       LET r == DeleteHelper(node, root, node[root].right, k, new)
       IN  node' = [r.heap EXCEPT ![root].right = r.ret] /\ ub' = r.bad
  /\ UNCHANGED root

\* A key larger than the root's is looked for in the left subtree, a smaller
\* one nowhere.
Remove(k) ==
  /\ ~ ub
  /\ IF root = Null \/ k < node[root].data
     THEN UNCHANGED vars
     ELSE IF k = node[root].data
     THEN root' = Null /\ node' = [node EXCEPT ![root] = Freed] /\ UNCHANGED ub
     ELSE \E new \in IF Free = {} THEN {Null} ELSE Free :
            LET r == DeleteHelper(node, root, node[root].left, k, new)
            IN  /\ node' = [r.heap EXCEPT ![root].left = r.ret]
                /\ ub' = r.bad
                /\ UNCHANGED root

\* The tree is deleted, which deletes none of its nodes, and another made in
\* its place.  (update changes nothing: it looks for the key and returns.)
Replace == ~ ub /\ root' = Null /\ UNCHANGED <<node, ub>>

Next == (\E k \in Keys : Insert(k) \/ Remove(k)) \/ Replace

Spec == Init /\ [][Next]_vars
-----------------------------------------------------------------------------
(* What the print methods visit, from a node down.                         *)

RECURSIVE InOrder(_)
InOrder(a) ==
  IF a = Null THEN <<>>
  ELSE InOrder(node[a].left) \o <<node[a].data>> \o InOrder(node[a].right)

RECURSIVE PostOrder(_)
PostOrder(a) ==
  IF a = Null THEN <<>>
  ELSE PostOrder(node[a].left) \o PostOrder(node[a].right) \o <<node[a].data>>

\* preOrder calls inOrder for both subtrees.
PreOrder(a) ==
  IF a = Null THEN <<>>
  ELSE <<node[a].data>> \o InOrder(node[a].left) \o InOrder(node[a].right)

Depth ==
  LET depth[a \in Addr \cup {Null}] ==
        IF a = Null THEN 0
        ELSE LET l == depth[node[a].left]
                 r == depth[node[a].right]
             IN  (IF l > r THEN l ELSE r) + 1
  IN  depth[root]
-----------------------------------------------------------------------------
(* Properties.                                                             *)

BinaryNode == [data : Keys, left : Addr \cup {Null}, right : Addr \cup {Null}]

\* The heap holds binary nodes and the root is a pointer.
TypeOK ==
  /\ root \in Addr \cup {Null}
  /\ node \in [Addr -> BinaryNode \cup {Freed}]
  /\ ub \in BOOLEAN

Allocated == Addr \ Free

\* The addresses reached from the root in at most n links.
Within(n) ==
  LET reach[i \in 0 .. n] ==
        IF i = 0 THEN {root} \ {Null}
        ELSE reach[i - 1] \cup
             UNION {{node[a].left, node[a].right} \ {Null} :
                      a \in reach[i - 1] \cap Allocated}
  IN  reach[n]

InTree == Within(Cardinality(Addr))

LinksTo(b) == {l \in (InTree \cap Allocated) \X {"left", "right"} : node[l[1]][l[2]] = b}

\* No freed node is reachable, nothing points at the root, and exactly one link
\* leads to every other node: whatever the sequence of inserts and removes and
\* however addresses are reused, the nodes form a tree.
TreeShape ==
  /\ InTree \subseteq Allocated
  /\ \A b \in InTree : Cardinality(LinksTo(b)) = IF b = root THEN 0 ELSE 1

Stored == {node[a].data : a \in InTree}

\* The links form a tree, an in-order walk meets the keys in strictly
\* ascending order, so that lookup finds what insert has stored, and each of
\* the print methods prints every key once.
SearchTree ==
  /\ TypeOK /\ TreeShape
  /\ LET s == InOrder(root) IN \A i \in 1 .. Len(s) - 1 : s[i] < s[i + 1]
  /\ \A s \in {InOrder(root), PreOrder(root), PostOrder(root)} :
       Len(s) = Cardinality(InTree) /\ {s[i] : i \in 1 .. Len(s)} = Stored

\* remove never touches a node it has deleted.  The two-child case of
\* deleteHelper does; it is out of reach only because remove looks for a key
\* where it cannot be.
NoUseAfterDelete == ~ ub

\* The level insert reports is the one at which lookup then finds the key, no
\* insert moves another key, and every level is less than getDepth.
LevelsAgree ==
  [][/\ \A k \in Stored' \ Stored : LookupLevel(k)' = InsertLevel(k)
     /\ \A k \in Stored' \cap Stored : LookupLevel(k)' = LookupLevel(k)
     /\ \A k \in Stored' : LookupLevel(k)' < Depth']_vars

\* What a caller can tell about the tree.
Abstract == INSTANCE AbstractBst WITH
  tree <- [root |-> IF root = Null THEN NoKey ELSE node[root].data, keys |-> Stored]

\* Callers see a set of keys with a root: insert adds a key, remove empties the
\* tree or changes nothing.
ImplementsAbstract == Abstract!Spec
=============================================================================
