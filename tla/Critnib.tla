------------------------------ MODULE Critnib ------------------------------
(* critnib.c: the radix tree in which the memory framework keeps what it     *)
(* knows of every allocation.  Writers take a mutex; readers take none and   *)
(* walk nodes that may be unlinked, reclaimed and reused under them.  What   *)
(* protects them is a count of removals: a removed node or leaf rests for    *)
(* DELETED_LIFE removals, and a reader that was overtaken by that many       *)
(* starts again.                                                             *)
(*                                                                           *)
(* The tag that marks a pointer to a leaf is its being in Leaves.  Every     *)
(* store into what readers can reach is a step of its own, and so is every   *)
(* load of a reader.  The mutex makes the writers one process.               *)
EXTENDS Naturals, Sequences, FiniteSets

CONSTANTS
    Slice,        \* SLICE: bits of a key that one node tells apart
    Width,        \* bits of a key
    DeletedLife,  \* DELETED_LIFE
    Keys,         \* the keys that writers use
    ValuesOf,     \* for each key, the values stored under it
    Queries,      \* what readers ask: pairs of "get", "le" or "ge" and a key
    Nodes,        \* bound: the nodes malloc can give
    Leaves,       \* bound: the leaves malloc can give
    MaxRemoves,   \* bound: calls of critnib_remove
    Null          \* the null pointer

(* A null pointer is no value, and a value says whose it is. *)
ASSUME CritnibAssumption ==
    /\ Slice \in Nat \ {0} /\ Width \in Nat
    /\ DeletedLife \in Nat \ {0} /\ MaxRemoves \in Nat
    /\ Keys \subseteq 0 .. 2 ^ Width - 1
    /\ \A k \in Keys : Null \notin ValuesOf[k]
    /\ \A j, k \in Keys : j # k => ValuesOf[j] \cap ValuesOf[k] = {}
    /\ Queries \subseteq {"get", "le", "ge"} \X Nat
    /\ IsFiniteSet(Nodes) /\ IsFiniteSet(Leaves)
    /\ Nodes \cap Leaves = {} /\ Null \notin Nodes \cup Leaves

Nib == 2 ^ Slice - 1
Slots == 0 .. Nib
Ages == 0 .. DeletedLife - 1

VARIABLES
    root,           \* critnib.root
    node,           \* child, path and shift of every node
    leaf,           \* key and value of every leaf
    deletedNode,    \* pool of nodes, linked through child[0]
    deletedLeaf,    \* pool of leaves, linked through value
    pendingNodes,   \* pending_del_nodes
    pendingLeaves,  \* pending_del_leaves
    removeCount,    \* remove_count
    taken,          \* the nodes and leaves malloc has given
    writer,         \* the holder of the mutex
    reader,         \* one call of critnib_get, critnib_find_le or critnib_find
    entries,        \* history: the value of every key
    call            \* history: what could answer the reader's call

tree == <<root, node>>
pools == <<deletedNode, deletedLeaf, pendingNodes, pendingLeaves, taken>>
ghosts == <<entries, call>>
vars == <<tree, leaf, pools, removeCount, writer, reader, ghosts>>

Index == INSTANCE AbstractIndex WITH NoValue <- Null

(***************************************************************************)
(* Keys and the tree as a writer sees it                                   *)
(***************************************************************************)
SliceIndex(key, shift) == (key \div 2 ^ shift) % (Nib + 1)

(* Mutated: the mask keeps the node's own slice in its path. *)
PathOfWithSlice(key, shift) == key - (key % 2 ^ shift)

PathOf(key, shift) == key - (key % 2 ^ (shift + Slice))

Inside(key, n) == PathOf(key, node[n].shift) = node[n].path

(* The lowest bit of the highest slice in which two keys differ. *)
FirstDifference(a, b) ==
    CHOOSE s \in {Slice * i : i \in 0 .. Width} :
        /\ a \div 2 ^ s # b \div 2 ^ s
        /\ a \div 2 ^ (s + Slice) = b \div 2 ^ (s + Slice)

(* The nodes met from the pointers in a set on: those that no set can leave  *)
(* out which holds these pointers and all that its members link to.          *)
Reach(from, links) ==
    {n \in DOMAIN links :
        \A S \in SUBSET (DOMAIN links \ {n}) :
            from \cap DOMAIN links \subseteq S =>
                \E m \in S : ~ links[m] \cap DOMAIN links \subseteq S}

(* Where a pointer is kept: root, or a child of a node. *)
RootPlace == <<Null, 0>>
Pointer(at) == IF at = RootPlace THEN root ELSE node[at[1]].child[at[2]]

Store(at, p) ==
    IF at = RootPlace THEN root' = p /\ UNCHANGED node
    ELSE node' = [node EXCEPT ![at[1]].child[at[2]] = p] /\ UNCHANGED root

(* Where the key's pointer is in a node. *)
On(key, n) == <<n, SliceIndex(key, node[n].shift)>>

(* The pointers a writer looks at on its way down to a key, when it goes on  *)
(* from the nodes in S, and where it stops.                                  *)
Way(key, S) ==
    {RootPlace} \cup {On(key, n) : n \in Reach({root}, [n \in S |-> {Pointer(On(key, n))}])}

Stops(key, S) == {at \in Way(key, S) : Pointer(at) \notin S}

(* An insertion goes down to a null pointer, a leaf, or the first node whose *)
(* path the key does not share; a removal to a null pointer or a leaf.       *)
Shared(key) == {n \in Nodes : Inside(key, n)}

Idle == [pc |-> "idle"]

(* A change of the entries, which the reader's call has now seen. *)
Write(key, value) ==
    /\ entries' = [entries EXCEPT ![key] = value]
    /\ call' = Index!Watch(call, entries')

(***************************************************************************)
(* critnib_insert                                                          *)
(***************************************************************************)
(* A leaf from the pool, or else from malloc, and written before anyone can *)
(* reach it.                                                                *)
InsertBegin(key, value) ==
    /\ writer = Idle
    /\ \E k \in Leaves :
        /\ IF deletedLeaf # Null
           THEN /\ k = deletedLeaf
                /\ deletedLeaf' = leaf[k].value
                /\ UNCHANGED taken
           ELSE /\ k \notin taken
                /\ taken' = taken \cup {k}
                /\ UNCHANGED deletedLeaf
        /\ leaf' = [leaf EXCEPT ![k] = [key |-> key, value |-> value]]
        /\ writer' = [pc |-> "place", leaf |-> k]
    /\ UNCHANGED <<tree, deletedNode, pendingNodes, pendingLeaves,
                   removeCount, reader, ghosts>>

(* The key being inserted, and its value. *)
newKey == leaf[writer.leaf].key
newValue == leaf[writer.leaf].value

Found(key, p) == p \in Leaves /\ leaf[p].key = key

(* An empty place takes the leaf. *)
InsertLeaf ==
    /\ writer.pc = "place"
    /\ \E at \in Stops(newKey, Shared(newKey)) :
        /\ Pointer(at) = Null
        /\ Store(at, writer.leaf)
    /\ Write(newKey, newValue)
    /\ writer' = Idle
    /\ UNCHANGED <<leaf, pools, removeCount, reader>>

(* The key is there: the new leaf goes back, and the old one may be updated. *)
InsertExists(update) ==
    /\ writer.pc = "place"
    /\ \E at \in Stops(newKey, Shared(newKey)) :
        /\ Found(newKey, Pointer(at))
        /\ leaf' = [leaf EXCEPT
                       ![writer.leaf].value = deletedLeaf,
                       ![Pointer(at)].value = IF update THEN newValue ELSE @]
    /\ deletedLeaf' = writer.leaf
    /\ IF update THEN Write(newKey, newValue) ELSE UNCHANGED ghosts
    /\ writer' = Idle
    /\ UNCHANGED <<tree, deletedNode, pendingNodes, pendingLeaves, taken,
                   removeCount, reader>>

(* The key parts from what is there: a node must tell the two apart. *)
Parts(key, p) ==
    \/ p \in Nodes
    \/ p \in Leaves /\ leaf[p].key # key

CannotPlace ==
    \E at \in Stops(newKey, Shared(newKey)) : Parts(newKey, Pointer(at))

NewNode(key, kn, p) ==
    LET path == IF p \in Leaves THEN leaf[p].key ELSE node[p].path
        sh   == FirstDifference(path, key)
    IN  [child |-> [i \in Slots |-> IF i = SliceIndex(key, sh) THEN kn
                                    ELSE IF i = SliceIndex(path, sh) THEN p
                                    ELSE Null],
         shift |-> sh,
         path  |-> PathOf(key, sh)]

(* A node from the pool, or else from malloc, written likewise. *)
InsertNode ==
    /\ writer.pc = "place"
    /\ \E at \in Stops(newKey, Shared(newKey)), m \in Nodes :
        /\ Parts(newKey, Pointer(at))
        /\ IF deletedNode # Null
           THEN /\ m = deletedNode
                /\ deletedNode' = node[m].child[0]
                /\ UNCHANGED taken
           ELSE /\ m \notin taken
                /\ taken' = taken \cup {m}
                /\ UNCHANGED deletedNode
        /\ node' = [node EXCEPT ![m] = NewNode(newKey, writer.leaf, Pointer(at))]
        /\ writer' = [pc |-> "link", leaf |-> writer.leaf, node |-> m, parent |-> at]
    /\ UNCHANGED <<root, leaf, deletedLeaf, pendingNodes, pendingLeaves,
                   removeCount, reader, ghosts>>

(* Mutated: the leaf is forgotten. *)
InsertNoNodeLeaking ==
    /\ writer.pc = "place"
    /\ CannotPlace
    /\ deletedNode = Null
    /\ writer' = Idle
    /\ UNCHANGED <<tree, leaf, pools, removeCount, reader, ghosts>>

(* malloc gives no node: ENOMEM, and the leaf goes back. *)
InsertNoNode ==
    /\ writer.pc = "place"
    /\ CannotPlace
    /\ deletedNode = Null
    /\ leaf' = [leaf EXCEPT ![writer.leaf].value = deletedLeaf]
    /\ deletedLeaf' = writer.leaf
    /\ writer' = Idle
    /\ UNCHANGED <<tree, deletedNode, pendingNodes, pendingLeaves, taken,
                   removeCount, reader, ghosts>>

InsertLink ==
    /\ writer.pc = "link"
    /\ Store(writer.parent, writer.node)
    /\ Write(newKey, newValue)
    /\ writer' = Idle
    /\ UNCHANGED <<leaf, pools, removeCount, reader>>

(***************************************************************************)
(* critnib_remove                                                          *)
(***************************************************************************)
(* The removal is counted before anything it frees can be reused. *)
RemoveBegin(key) ==
    /\ writer = Idle
    /\ root # Null
    /\ removeCount < MaxRemoves
    /\ removeCount' = removeCount + 1
    /\ writer' = [pc |-> "reclaim", key |-> key, del |-> removeCount % DeletedLife]
    /\ UNCHANGED <<tree, leaf, pools, reader, ghosts>>

(* free_node and free_leaf of what was removed DELETED_LIFE removals ago. *)
RemoveReclaim ==
    LET n == pendingNodes[writer.del]
        k == pendingLeaves[writer.del]
    IN
    /\ writer.pc = "reclaim"
    /\ IF n = Null THEN UNCHANGED <<node, deletedNode>>
       ELSE /\ node' = [node EXCEPT ![n].child[0] = deletedNode]
            /\ deletedNode' = n
    /\ IF k = Null THEN UNCHANGED <<leaf, deletedLeaf>>
       ELSE /\ leaf' = [leaf EXCEPT ![k].value = deletedLeaf]
            /\ deletedLeaf' = k
    /\ pendingNodes' = [pendingNodes EXCEPT ![writer.del] = Null]
    /\ pendingLeaves' = [pendingLeaves EXCEPT ![writer.del] = Null]
    /\ writer' = [writer EXCEPT !.pc = "unlink"]
    /\ UNCHANGED <<root, taken, removeCount, reader, ghosts>>

RemoveMiss ==
    /\ writer.pc = "unlink"
    /\ \E at \in Stops(writer.key, Nodes) : ~ Found(writer.key, Pointer(at))
    /\ writer' = Idle
    /\ UNCHANGED <<tree, leaf, pools, removeCount, reader, ghosts>>

(* The node is left with one child when the pointer kept at a place goes. *)
LeavesOne(at) ==
    /\ at # RootPlace
    /\ Cardinality({i \in Slots \ {at[2]} : node[at[1]].child[i] # Null}) = 1

(* The key's leaf is unlinked; a node left with one child goes next. *)
RemoveUnlink ==
    /\ writer.pc = "unlink"
    /\ \E at \in Stops(writer.key, Nodes) :
        /\ Found(writer.key, Pointer(at))
        /\ Store(at, Null)
        /\ IF LeavesOne(at)
           THEN /\ \E up \in Way(writer.key, Nodes) :
                    /\ Pointer(up) = at[1]
                    /\ writer' = [pc |-> "collapse", del |-> writer.del,
                                  leaf |-> Pointer(at), node |-> at[1], parent |-> up]
                /\ UNCHANGED pendingLeaves
           ELSE /\ writer' = Idle
                /\ pendingLeaves' = [pendingLeaves EXCEPT ![writer.del] = Pointer(at)]
    /\ Write(writer.key, Null)
    /\ UNCHANGED <<leaf, deletedNode, deletedLeaf, pendingNodes, taken,
                   removeCount, reader>>

(* Mutated: the removed node rests in the slot that is reclaimed next. *)
RemoveCollapseSoon ==
    /\ writer.pc = "collapse"
    /\ \E ochild \in Slots :
        /\ node[writer.node].child[ochild] # Null
        /\ Store(writer.parent, node[writer.node].child[ochild])
    /\ pendingNodes' = [pendingNodes EXCEPT ![(writer.del + 1) % DeletedLife] = writer.node]
    /\ pendingLeaves' = [pendingLeaves EXCEPT ![writer.del] = writer.leaf]
    /\ writer' = Idle
    /\ UNCHANGED <<leaf, deletedNode, deletedLeaf, taken, removeCount, reader, ghosts>>

RemoveCollapse ==
    /\ writer.pc = "collapse"
    /\ \E ochild \in Slots :
        /\ node[writer.node].child[ochild] # Null
        /\ Store(writer.parent, node[writer.node].child[ochild])
    /\ pendingNodes' = [pendingNodes EXCEPT ![writer.del] = writer.node]
    /\ pendingLeaves' = [pendingLeaves EXCEPT ![writer.del] = writer.leaf]
    /\ writer' = Idle
    /\ UNCHANGED <<leaf, deletedNode, deletedLeaf, taken, removeCount, reader, ghosts>>

(***************************************************************************)
(* critnib_get, critnib_find_le and critnib_find                           *)
(***************************************************************************)
unread == <<tree, leaf, pools, removeCount, writer, entries>>

Downward == reader.query[1] = "le"
Sought == reader.query[2]

(* A call begins with its load of remove_count. *)
Ask(query) ==
    /\ reader = Idle
    /\ reader' = [pc |-> "root", query |-> query, wrs1 |-> removeCount]
    /\ call' = Index!Opened(query, entries)
    /\ UNCHANGED unread

CountAgain ==
    /\ reader.pc = "start"
    /\ reader' = [pc |-> "root", query |-> reader.query, wrs1 |-> removeCount]
    /\ UNCHANGED <<unread, call>>

(* The reader goes on to pointer p; frames are the calls of find_le or      *)
(* find_ge it has to come back to.                                          *)
Visit(pc, p, frames) ==
    reader' = [pc |-> pc, query |-> reader.query, wrs1 |-> reader.wrs1,
               at |-> p, frames |-> frames]

Answered(value) ==
    reader' = [pc |-> "check", query |-> reader.query, wrs1 |-> reader.wrs1,
               res |-> value]

LoadRoot ==
    /\ reader.pc = "root"
    /\ IF root = Null THEN Answered(Null)
       ELSE Visit(IF reader.query[1] = "get" THEN "get" ELSE "near", root, <<>>)
    /\ UNCHANGED <<unread, call>>

(* get: down one child, or the leaf's key. *)
Descend ==
    /\ reader.pc = "get"
    /\ reader.at \in Nodes
    /\ LET n == reader.at
           m == node[n].child[SliceIndex(Sought, node[n].shift)]
       IN  IF m = Null THEN Answered(Null) ELSE Visit("get", m, <<>>)
    /\ UNCHANGED <<unread, call>>

CompareKey ==
    /\ reader.pc = "get"
    /\ reader.at \in Leaves
    /\ IF leaf[reader.at].key = Sought THEN Visit("value", reader.at, <<>>)
       ELSE Answered(Null)
    /\ UNCHANGED <<unread, call>>

LoadValue ==
    /\ reader.pc = "value"
    /\ Answered(leaf[reader.at].value)
    /\ UNCHANGED <<unread, call>>

(* A call of find_le or find_ge returned nothing: its caller tries the next *)
(* subtree on that side.                                                    *)
ComeBack(frames) ==
    IF frames = <<>> THEN Answered(Null)
    ELSE reader' = [pc |-> "aside", query |-> reader.query, wrs1 |-> reader.wrs1,
                    frames |-> frames]

(* find_predecessor, find_successor: the last (first) child that is not     *)
(* null.                                                                    *)
EdgeFrom(n, frames) ==
    reader' = [pc |-> "edge", query |-> reader.query, wrs1 |-> reader.wrs1,
               at |-> n, frames |-> frames, nib |-> IF Downward THEN Nib ELSE 0]

Suits(key) == IF Downward THEN key <= Sought ELSE key >= Sought

(* find_le, find_ge on a leaf. *)
NearLeaf ==
    /\ reader.pc = "near"
    /\ reader.at \in Leaves
    /\ IF Suits(leaf[reader.at].key) THEN Visit("value", reader.at, <<>>)
       ELSE ComeBack(reader.frames)
    /\ UNCHANGED <<unread, call>>

(* On a node whose keys all lie on one side of the key sought. *)
NearOutside ==
    /\ reader.pc = "near"
    /\ reader.at \in Nodes
    /\ ~ Inside(Sought, reader.at)
    /\ IF Suits(node[reader.at].path) THEN EdgeFrom(reader.at, reader.frames)
       ELSE ComeBack(reader.frames)
    /\ UNCHANGED <<unread, call>>

(* On a node of the key's own path: first the subtree the key belongs to. *)
NearInside ==
    /\ reader.pc = "near"
    /\ reader.at \in Nodes
    /\ Inside(Sought, reader.at)
    /\ LET n      == reader.at
           nib    == SliceIndex(Sought, node[n].shift)
           frames == Append(reader.frames, [node |-> n, nib |-> nib])
       IN  IF node[n].child[nib] = Null THEN ComeBack(frames)
           ELSE Visit("near", node[n].child[nib], frames)
    /\ UNCHANGED <<unread, call>>

(* Then its neighbours on that side, up to the first that is not empty. *)
Aside ==
    LET last   == Len(reader.frames)
        frame  == reader.frames[last]
        outer  == SubSeq(reader.frames, 1, last - 1)
        next   == IF Downward THEN frame.nib - 1 ELSE frame.nib + 1
        m      == node[frame.node].child[next]
    IN
    /\ reader.pc = "aside"
    /\ IF frame.nib = (IF Downward THEN 0 ELSE Nib) THEN ComeBack(outer)
       ELSE IF m = Null THEN ComeBack(Append(outer, [frame EXCEPT !.nib = next]))
       ELSE IF m \in Leaves THEN Visit("value", m, <<>>)
       ELSE EdgeFrom(m, outer)
    /\ UNCHANGED <<unread, call>>

EdgeNext(m) ==
    IF m \in Leaves THEN Visit("value", m, <<>>)
    ELSE EdgeFrom(m, reader.frames)

(* The child found is read twice, first to see that it is not null and then *)
(* to follow it.  Neither is an atomic load, so a build may read it once.   *)
EdgeScan ==
    LET m == node[reader.at].child[reader.nib] IN
    /\ reader.pc = "edge"
    /\ IF m # Null
       THEN EdgeNext(m) \/ reader' = [reader EXCEPT !.pc = "again"]
       ELSE IF reader.nib = (IF Downward THEN 0 ELSE Nib)
       THEN ComeBack(reader.frames)
       ELSE reader' = [reader EXCEPT !.nib = IF Downward THEN @ - 1 ELSE @ + 1]
    /\ UNCHANGED <<unread, call>>

(* Read again, it may be null by now: the next read goes through it. *)
EdgeAgain ==
    LET m == node[reader.at].child[reader.nib] IN
    /\ reader.pc = "again"
    /\ IF m = Null THEN reader' = [pc |-> "fault"] ELSE EdgeNext(m)
    /\ UNCHANGED <<unread, call>>

(* Mutated: one removal more is let past. *)
OvertakenLate == reader.wrs1 + DeletedLife < removeCount

(* Overtaken by too many removals, the reader starts again. *)
Overtaken == reader.wrs1 + DeletedLife <= removeCount

Restart ==
    /\ reader.pc = "check"
    /\ Overtaken
    /\ reader' = [pc |-> "start", query |-> reader.query]
    /\ UNCHANGED <<unread, call>>

Return ==
    /\ reader.pc = "check"
    /\ ~ Overtaken
    /\ reader' = [pc |-> "done", res |-> reader.res]
    /\ call' = [pc |-> "done", answer |-> reader.res]
    /\ UNCHANGED unread

Leave ==
    /\ reader.pc = "done"
    /\ reader' = Idle
    /\ call' = Index!None
    /\ UNCHANGED unread

(***************************************************************************)
Init ==
    /\ root = Null
    /\ node = [n \in Nodes |-> [child |-> [i \in Slots |-> Null],
                                path |-> 0, shift |-> 0]]
    /\ leaf = [k \in Leaves |-> [key |-> 0, value |-> Null]]
    /\ deletedNode = Null
    /\ deletedLeaf = Null
    /\ pendingNodes = [d \in Ages |-> Null]
    /\ pendingLeaves = [d \in Ages |-> Null]
    /\ removeCount = 0
    /\ taken = {}
    /\ writer = Idle
    /\ reader = Idle
    /\ entries = [k \in Keys |-> Null]
    /\ call = Index!None

Insert ==
    \/ \E key \in Keys : \E value \in ValuesOf[key] : InsertBegin(key, value)
    \/ InsertLeaf
    \/ \E update \in BOOLEAN : InsertExists(update)
    \/ InsertNode
    \/ InsertNoNode
    \/ InsertLink

Remove ==
    \/ \E key \in Keys : RemoveBegin(key)
    \/ RemoveReclaim
    \/ RemoveMiss
    \/ RemoveUnlink
    \/ RemoveCollapse

Walk ==
    \/ CountAgain \/ LoadRoot
    \/ Descend \/ CompareKey
    \/ NearLeaf \/ NearOutside \/ NearInside \/ Aside
    \/ EdgeScan \/ EdgeAgain
    \/ LoadValue \/ Restart \/ Return

Next ==
    \/ Insert
    \/ Remove
    \/ \E query \in Queries : Ask(query)
    \/ Walk
    \/ Leave

Spec == Init /\ [][Next]_vars

(* A thread in the middle of a call goes on. *)
FairSpec == Spec /\ WF_vars(Walk)

(***************************************************************************)
(* Properties                                                              *)
(***************************************************************************)
Children(n) == {node[n].child[i] : i \in Slots} \ {Null}

(* The nodes and leaves that can be reached from a pointer. *)
Under(p) ==
    LET below == Reach({p}, [n \in Nodes |-> Children(n)])
    IN  ({p} \cup UNION {Children(n) : n \in below}) \ {Null}

NodePool(p) == Reach({p}, [n \in Nodes |-> {node[n].child[0]}])
LeafPool(p) == Reach({p}, [k \in Leaves |-> {leaf[k].value}])

Pending(slots) == {d \in Ages : slots[d] # Null}

(* What the writer alone has in hand. *)
InHand ==
    CASE writer.pc \in {"place", "collapse"} -> {writer.leaf}
      [] writer.pc = "link" -> {writer.leaf, writer.node}
      [] OTHER -> {}

TypeOK ==
    /\ root \in Nodes \cup Leaves \cup {Null}
    /\ \A n \in Nodes : \A i \in Slots :
           node[n].child[i] \in Nodes \cup Leaves \cup {Null}
    /\ deletedNode \in Nodes \cup {Null}
    /\ deletedLeaf \in Leaves \cup {Null}
    /\ pendingNodes \in [Ages -> Nodes \cup {Null}]
    /\ pendingLeaves \in [Ages -> Leaves \cup {Null}]
    /\ removeCount \in 0 .. MaxRemoves
    /\ taken \subseteq Nodes \cup Leaves

(* Nothing malloc gave is leaked or handed out twice: a node or leaf is in  *)
(* the tree, in a pool, at rest among the removed, or in the writer's hands *)
(* (free_node, free_leaf, alloc_node, alloc_leaf and pending_del_*, with    *)
(* all the ways out of critnib_insert and critnib_remove).  critnib_delete  *)
(* frees the tree, the pools and the removed, and so everything once.       *)
NothingLost ==
    LET nodePool == NodePool(deletedNode)
        leafPool == LeafPool(deletedLeaf)
        tree_    == Under(root)
        resting  == {pendingNodes[d] : d \in Pending(pendingNodes)}
                    \cup {pendingLeaves[d] : d \in Pending(pendingLeaves)}
    IN
    /\ TypeOK
    /\ taken = tree_ \cup InHand \cup nodePool \cup leafPool \cup resting
    /\ Cardinality(taken) =
           Cardinality(tree_) + Cardinality(InHand)
           + Cardinality(nodePool) + Cardinality(leafPool)
           + Cardinality(Pending(pendingNodes)) + Cardinality(Pending(pendingLeaves))
    /\ \A n \in nodePool : n \notin NodePool(node[n].child[0])
    /\ \A k \in leafPool : k \notin LeafPool(leaf[k].value)

(* At every moment, also between two stores of a writer, the tree a reader  *)
(* can enter is a radix tree of exactly the entries: each leaf below a node *)
(* has the node's path and its own slice, and the leaves hold the values of *)
(* the map (the publishing stores of critnib_insert and critnib_remove).    *)
TreeHoldsEntries ==
    LET tree_ == Under(root) IN
    /\ \A n \in tree_ \cap Nodes : \A i \in Slots :
           \A k \in Under(node[n].child[i]) \cap Leaves :
               /\ Inside(leaf[k].key, n)
               /\ SliceIndex(leaf[k].key, node[n].shift) = i
    /\ \A key \in Keys :
           {leaf[k].value : k \in {l \in tree_ \cap Leaves : leaf[l].key = key}}
               = {entries[key]} \ {Null}

(* What a reader returns was so at some moment of its call: critnib_get     *)
(* always, critnib_find_le and critnib_find whenever the nearest entry      *)
(* stayed the same during the call (otherwise an entry that was there at    *)
(* some moment of it, or nothing), although it may have walked through      *)
(* nodes that were removed, freed or reused meanwhile.                      *)
ImplementsIndex == Index!Spec

(* The grace period: while a reader may still return its answer, no node or *)
(* leaf that it stands on or has to come back to is in a pool or is being   *)
(* written for a new use (DELETED_LIFE, remove_count, pending_del_nodes and _leaves). *)
GracePeriod ==
    LET visited == (IF "at" \in DOMAIN reader THEN {reader.at} ELSE {})
                   \cup (IF "frames" \in DOMAIN reader
                         THEN {reader.frames[i].node : i \in DOMAIN reader.frames}
                         ELSE {})
        reusable == NodePool(deletedNode) \cup LeafPool(deletedLeaf)
                    \cup (IF writer.pc \in {"place", "link"} THEN InHand ELSE {})
    IN  "wrs1" \in DOMAIN reader /\ ~ Overtaken => visited \cap reusable = {}

(* A reader will notice that its result is bogus "only after completing the *)
(* walk" (critnib.c:254-256): it does complete it.                          *)
GetReturns == reader.pc \in {"root", "get", "value", "check"} ~> reader.pc = "done"

(* find_le answers with the nearest entry of some moment of the call. *)
FindLeIsCurrent == [][Return => reader.res \in call.exact]_vars

(* A stale read does not crash. *)
NoFault == reader.pc # "fault"
=============================================================================
