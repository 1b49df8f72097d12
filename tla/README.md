# SecretTyping: a TLA+ verification project

The repository measures data structures on NUMA machines. `src/Exprs` is the
benchmark: C++ containers (`include/`), a test suite whose threads hammer them
(`Examples/TestSuite.cpp`) and a driver (`Examples/main.cpp`). The threads and
types are pinned to NUMA nodes by `numaLib`, memory comes from
`src/unified-memory-framework` (UMF, kept in the repository as source), and
`secret-clang-tool` rewrites the sources so that types become "secret". The
modules here model the benchmark of `src/Exprs`, the transformation of the tool,
and the part of UMF that is hard to test: the index of all allocations that is read without locks,
the tracker built on it, and the provider that cuts memory into blocks.
`STExprs`, `SecretExprs`, `Output`, `mt-Data-Structures`, `Data-Structures` and
`numaed-DS` are copies, earlier versions or generated output of the benchmark.

## Inventory

| part | state | operations | what is hard | what makes it correct |
|---|---|---|---|---|
| `BinarySearchTest`, transactions | `BSTs0/1`, `BST_lk0/1` | lookup under one lock; remove and insert under two | lock order over eight copied branches, two trees changed in two calls | exclusive use, no deadlock, whole transfers |
| `BinarySearchTest`, log | `ops`, `localOps`, `globalOps0/1`, `ops0/1` | count, log an interval, merge under `globalLK`, report | late clock reads, `+=` on shared sums, repeated runs | no slot out of bounds, nothing lost, totals that only grow |
| `numa_BST_init` | the same vectors, `init_bar` | resize, make trees and mutexes, fill | two threads without locks | nothing used before it exists, nothing shared, all there at the end |
| `BinarySearchTree`, `BinaryNode` | `root`, nodes | insert, remove, lookup, getDepth, prints | pointers, deletes, reused addresses | a search tree, no use after delete |
| `Stack`, `Queue`, `LinkedList`, `Node` | `top`; `front`, `rear`; `head`, `length` | push, pop, add, del, append, prepend, insertAfter, insertAtIndex, removeHead, removeTail, lookUp | stale `rear` and `length`, null predecessors | each does what a sequence does |
| `ArrayTest`, `StackTest`, `QueueTest`, `LinkedListTest` | containers of two sides, a mutex each, `ops0/1` | a call on either side's container | crossing over, the totals | no node and no count lost |
| `main` | threads, `bar`, `num_ops0/1` | start, join, repeat, print rows | barrier counts | every run ends |
| UMF coarse provider (`provider_coarse.c`) | `all_blocks`, `free_blocks`, `upstream_blocks`, `used_size`, `alloc_size` | alloc, free, split, merge, initialise, finalise | three trees in step, alignment, failures in the middle | blocks tile the memory, lists are exact, an allocator |
| UMF critnib (`critnib.c`) | tree, pools, `remove_count`, removed nodes at rest | insert, update, remove; get, find_le, find | readers take no lock, nodes are reused under them | a reader's answer was true during its call |
| UMF tracking provider (`provider_tracking.c`) | the map, `tracker_value_t`, `splitMergeMutex`, `ipcCache` | alloc, free, split, merge, query, IPC handles, clear | several structures, several locks, none around the whole | the map is what callers hold; no value and no handle lost |
| `secret-clang-tool --secret` (`RecursiveSecretTyper.cc`, `consumer.cc`) | `specializedSecretClasses`, the rewriter, the files of `output/` | match variables, specialise a class and the classes it leads to, include a header, write | recursion through cyclic classes, one header in many units, ends in the middle | each class once and whole, the right unit has the last word |
| rest of UMF: ravl, base allocator, pools, OS and device providers, API, proxy | | | | not modelled, see below |
| container initialisation, `thread_numa`, `numa<T,N>`, allocator shim, secret types, the `--cast` half of the tool, scripts | | | | not modelled, see below |

The parts of the benchmark interact through shared memory only: test threads share the vectors of
containers, one mutex per container, `globalLK` and the barrier `bar`; the
driver waits for threads by `join`, and the initialisation threads wait for each
other on `init_bar`. In UMF a pool calls its tracking provider, which calls the
upstream provider (a coarse provider, say) and keeps the tracker, whose map is a
critnib; `umfPoolByPtr` and `umfFree` ask the tracker, from any thread. The tool
is a program of its own: it reads `input/`, a copy of the benchmark, and writes
`output/`. No messages are sent and nothing is read back after a restart, so there is no crash recovery
and no delivery to model; the faults are allocations and upstream calls that
fail, and for the tool files that cannot be opened and code it dies of.

## Modules

**BstTransactions** is the core. A tree is `<<side, index>>`. `Pick` draws an
iteration: the locks it takes, in order, the tree it removes from and the one it
inserts into (`LookupJobs`, `CrossJobs` for `txn % 4` in {0, 1}, `SameSideJobs`
for {2, 3}; the iteration with `ds_a == ds_b` does nothing to locks or trees and
is left out here). Then every `lock()`, tree call and `unlock()` is an action of
its own, `Lock1` ... `Unlock2`, with any other thread's actions in between. The
barrier is `ReachStart`, `StartTogether`, `EndTogether`. Trees are values with
a root and a key set: **TreeValues** defines what `insert` and `remove` do to
them. `remove` of the root's key empties the tree, and `remove` of any other key
finds nothing: this is what the code does, see BinarySearchTree.
**AtomicTransfers** is the abstract specification: trees change by whole
transfers. `Committed` is the refinement mapping: a transaction counts from its
`remove` on.

`BstTransactionsProofs`, `IntervalLogProofs`, `ContainerWorkloadProofs`,
`BstInitProofs`, `LinkedContainersProofs`, `CoarseProviderProofs`, `CritnibProofs` and
`TrackingProviderProofs` each extend the module of their
name and hold the theorems about it; the last of them goes from the regions of the
callers to what the tracker's map says of them.

**BinarySearchTree** has the nodes: a heap of addresses that are reused after
`delete`, and `insert`, `remove`, `deleteHelper` pointer by pointer. A method is
one step, since callers hold the tree's mutex. `DeleteHelper` returns the heap
it leaves, the pointer the C++ function returns, and whether it used a deleted
node. It implements **AbstractBst**, which is written with the operators of
TreeValues: that run is the reason why BstTransactions may use values.

**IntervalLog** has the counting and the reporting. An iteration touches only
data of its own thread, so `Work` is one step (`Skip` is the `continue`); the
merge under `globalLK` is `Lock`, `Load`, `Store`, `Publish`, `Unlock`, the `+=`
split into its load and store. `clock` is the last value a thread has read. The
history variables `base`, `merged` and `executed` are read by properties only.

**LinkedContainers** has `Stack`, `Queue` and `LinkedList` on one heap, one
action per method, a null pointer that is dereferenced ending the program
(`crashed`). It implements **AbstractContainers**, three sequences, as the code treats
them; where the headers' comments say otherwise is listed below.

**ContainerWorkload** has the four container tests. A call reads the container
and writes it, two steps; a container is its number of nodes. `OpsAccountedFor`
counts the set `Counted(n)` of the iterations of the threads that have added theirs.

**BstInit** has the two initialisation threads of a build with `PIN_INIT`, which
is what the Makefile builds. Elements are the slots of the six vectors;
`crossover` is overwritten as in the code, and the draws stay random.

**CoarseProvider** has the coarse provider. Its operations run under one mutex
and are one step each; what is hard is the bookkeeping, so the trees are
functions (`heap.blocks`, `heap.free`, `upstreamBlocks`) and every helper of the
code has its operator (`RemoveGE`, `CutAligned`, `CutTail`, `JoinBlocks`,
`Coalesce`, `Grown`). An operator that can fail returns the set of its results,
each with the heap it leaves behind. The code is the release build: assertions do
nothing, and `debug_check` is not run; `BlocksTile` and `FreeListsExact` say what
it says. Memory comes from an upstream provider with or without `free` and
`allocation_merge`, from one that is asked at once, or from a buffer. Requests of
size 0 are left out (`coarse_ravl_add_new` asserts that there are none). A sum of sizes,
as in `AllReturned`, is the number of bytes covered. It
implements **AbstractAllocator**: ranges that do not overlap and lie in owned
memory.

**Critnib** has the radix tree, store by store and load by load. The writers' mutex makes
them one process (`writer`); one `reader` walks with no lock, as `critnib_get`,
`critnib_find_le` or `critnib_find`, its recursion kept as a stack of frames. A
removal counts itself (`RemoveBegin`), reclaims what was removed `DELETED_LIFE`
removals ago (`RemoveReclaim`), unlinks the leaf and then its node. Nodes and
leaves are addresses, and pools are linked through `child[0]` and `value`, as in
the code: a reader may follow such a link. Where a walk leads is not computed by recursion:
`Reach` is the least set of nodes that holds its start and all they link to, and
`Way` and `Stops` are the places (`Pointer`) a writer looks at and ends at on its way
to a key. It implements **AbstractIndex**: each
answer was so at some moment of the call, and a nearest-entry answer that is
overtaken by a change of the nearest entry is some entry seen during the call,
or none. `entries` and `call` are history variables of that refinement.

**TrackingProvider** composes the tracker with an index of which it knows only
AbstractIndex: `Index(t)` is the query thread `t` has under way. The values the
map points to are objects that are freed and reused, so `ReadSize` and
`ReadInfo`, after `Found`, read what is there by then. `Free`, `Uncache`,
`PutCached`, `Give` and `Track` are the steps of `trackingFree`; `Lock` ...
`Unlock` those of split and merge, `Undo` their way out; `Look` ... `PutBack` the
loop of `trackingGetIpcHandle`; `Destroy` ... `Destroyed` what `umfPoolDestroy`
does to the tracker. Upstream providers, the base allocator and critnib's own
allocations may fail at any call, that of the update in `Update` too. Callers keep to what pools do: one thread frees, splits or merges a region,
nobody asks for a pointer into it meanwhile, and a destroyed pool is not used.
`held`, `untracked` and `strays` are history variables: what callers hold, what the
tracker failed to add, and where an entry outlived its pool or kept a value that was
freed. The value a split or a
merge frees is the one it found under the lock (`old`, taken in `Compare`), as in
the code. Three of the properties are about executions up to the first such entry
(`strays = {}`), see below.

**SecretTyper** has the tool. `unit` is the source file being transformed;
`MatchNew` and the like are `run` for one variable, `Construct` the start of
`constructSpecialization`, and `stack` its calls under way, each with the
members it has still to copy: `Copy`, `CopyKnown`, `CopyNew`, `CopyMethods`,
`Close`. An edit is a piece of text at its class. Then come `IncludeHeader`,
`WriteFile`, `SkipSystem`, `NoSuchPath`, `CannotOpen`, in any order of the files,
and `NextUnit`. Methods are copied if the unit sees their bodies, and of a destructor
otherwise the head (`dtors`). A field or variable whose type is no class (an enumeration, an
array, a pointer to a pointer), a constructor without a definition in the unit
and a path without `input` end the process (`Die`). The program to transform is
chosen by `Init` from `Programs`. `Needed` defines the classes a unit has to
specialise with no recursion: what is in every set closed under `Mentions`.

`MC...` modules add the symmetry sets and inputs for TLC.

## Runs

| run | instance | what it shows |
|---|---|---|
| `bst_transactions` | 1 thread on each node, 2 trees on each side, 1 key, any contents | `ExclusiveAccess`, `LockOrder`, `NotStuck`, `TransferLands`, `Serializable`, `Termination` |
| `bst_heap` | 4 keys, 5 addresses | `SearchTree`, `NoUseAfterDelete`, `LevelsAgree`, `ImplementsAbstract` |
| `interval_log` | 1 thread on each node, 2 slots, 2 runs, up to 3 operations | `LogInBounds`, `LogIsCumulative`, `NothingLost`, `ReportsAreTotals`, `Termination` |
| `rows_count` | 1 thread on each node | `RowsCountOperations` is violated |
| `containers` | 2 values, 4 addresses | `HeapPartitioned`, `EndsAndCounts`, `ImplementsPromise` |
| `workload` | 2 threads on node 0, 1 on node 1, 1 container on each side | `NodesAccountedFor`, `OpsAccountedFor`, `Termination` |
| `bst_init` | 3 elements per vector, 3 passes, 2 runs | `NoFault`, `NoSharedElement`, `ReadyForTest`, `Initialised` |
| `coarse` | 6 addresses, pages of 2, 2 upstream regions, 1 failing allocation, every strategy and source | `BlocksTile`, `FreeListsExact`, `AllReturned`, `ImplementsAllocator` |
| `critnib` | 4 keys of 4 bits, 2 nodes, 3 leaves, 3 removals, one reader | `NothingLost`, `TreeHoldsEntries`, `GracePeriod`, `ImplementsIndex` |
| `critnib_get_returns` | the same tree, a reader that asks for a key not stored, fair | `GetReturns` is violated |
| `tracking` | 2 threads, 2 pools, 2 addresses, 3 values | `TrackerIsExact`, `QueriesAreRight`, `ValuesOwned`, `HandlesBalanced` |
| `secret_typer` | 10800 programs of 3 classes, 2 source files | `UnitIsComplete`, `LastUnitDecides`, `Termination` |

The type invariant is a conjunct of the first invariant (`ExclusiveAccess`,
`SearchTree`, `HeapPartitioned`,
`NodesAccountedFor`, `NoFault`, `BlocksTile`, `NothingLost` of Critnib,
`TrackerIsExact`, `UnitIsComplete`); for IntervalLog it is the theorem
`TypeCorrect`.

*Bounds.* Two threads suffice for a transaction to meet another in every order,
and both sides have a thread because only lookups differ between nodes; two
trees on a side are the least for which `ds_a < ds_b` and `ds_b < ds_a` exist;
the one key is in the tree of the other transaction or not. The theorems hold
for any number of keys, trees and threads. Four keys reach every shape with a two-child node below the root, and the
fifth address is the leaf `insert` makes before it finds a duplicate.
`MaxOps` and `MaxTime` cap the counters of IntervalLog: three operations and two
intervals let a thread log in time, log late, and leave with a slot unwritten.
The theorems about IntervalLog hold for any number of threads on a node, where the
run has one.
`Data`, `Addr`: four nodes are a list with a head, a middle and a tail plus
one node elsewhere. In ContainerWorkload three threads can meet on one container
from both sides, one of them crossing over. `Draws` in BstInit has a value on
each side of `Crossover`. In CoarseProvider six addresses hold an aligned and an
unaligned block with a padding before and a rest behind, two regions meet or do
not, and `MaxFailures` lets one allocation fail anywhere, in `initialize` too. The failing list
element in the middle of a split is left out (see below), and so are sizes that
are no multiple of the alignment for the strategies that test sizes
(`Asked`). Critnib is scaled down, not shortened: slices of 2 bits, keys of 4 bits,
and `DELETED_LIFE` of 2 instead of 16, so that three removals are enough to
overtake a reader and reuse its nodes, and two nodes to have a tree of two
levels whose node moves. One reader is enough, as readers change nothing. In
TrackingProvider two addresses are one region that is split, merged, and freed
in halves; three values let the base allocator run out; the pools are destroyed and
created again; once `strays` has an entry, the run goes no further than a state in
which a freed value is in the map (`NoFreedEntries`): all that is left to check there
is `HandlesBalanced`, a theorem. In SecretTyper three classes refer to each other, and to
themselves, by value and by pointer, from public, private and protected fields;
two source files are one that overwrites and one that is overwritten; the
recursion is never deeper than there are classes (`MaxDepth`), or `Termination`
would fail. Symmetry is used for keys, addresses or threads of
one node, only in runs without liveness properties, and only where the module
compares them by equality alone.

*Fairness.* Weak fairness for each thread: the operating system runs every
thread. A thread that tests the loop condition again and again finds the
duration over: strong fairness of `LeaveLoop` where time is not modelled (other
steps of the thread lie between two tests), weak fairness in IntervalLog, where
the clock is. That a waiting thread gets a mutex needs no more than weak fairness
of the thread's own step where each holder takes it a bounded number of times
(`globalLK`), or where threads leave their loops (tree and container mutexes).
SecretTyper is one thread that nothing keeps waiting.
In Critnib, a reader in the middle of a call goes on
(`WF_vars(Walk)`), and nothing is asked of writers.
Weak fairness of the barrier: `pthread_barrier_wait` returns when its count is
reached.

*Deadlock* is checked in the runs of the benchmark and in `tracking`; the steps
`Joined`, `Over` and `Crashed` are the only ways to stop. CoarseProvider
and Critnib stop when their bounds are used up and the tool stops when it is
done or dead, so their runs do not check it.

## What the runs found

* `critnib_get` may walk for ever (`critnib.c:522`): a freed node's `child[0]` is
  the pool's link and its other children stay, so two freed nodes can point at
  each other, and `remove_count` is looked at only after the walk. The comment at
  254-256 says that a stalled reader will complete it.
* `BinarySearchTest` never initialises `ops` (`TestSuite.cpp:881`): rows count
  from whatever the memory held.

These are true of the code too; TLC shows each when the model is set to it, and
no run keeps them:

* `removeTail` of a list with one node and `insertAtIndex(0, ...)` write through a
  null pointer (`LinkedList.hpp:268`, `306`; `crashed`). The benchmark calls
  neither.
* Each source file of the tool's command line is transformed from the input, and
  writes all headers it includes, changed or not: what an earlier file had done to
  a header is lost when a later one includes it and declares no such secret, although
  the README of the tool invites to "specifiy more than one source file"
  (`secret-clang-tool/README.md`). `run.sh` gives `main.cpp` and then
  `TestSuite.cpp`, which declares all secrets: the other order would lose them.
* The comment `getSecretAllocatorCode` inserts has no end of line, so `public:`
  becomes part of it and every member of a specialisation is private
  (`RecursiveSecretTyper.cc:63`, `463`, `474`; `output/SecretExprs/include/Stack.hpp`
  has such a class, and `TestSuite.cpp` there calls its constructor). Public
  pointers to builtin types lose their star (487), private builtin members become
  `numa<T>`, not `secret<T>`, and protected members disappear (443-460).
* The comments of the containers contradict the code in these places, and
  AbstractContainers has what the code does: `insertAtIndex` inserts before the node
  with the index, not "after" it (`LinkedList.hpp:113-114`, code 305-306);
  `removeHead` removes the first node, not "the least recently added", and neither it
  nor `removeTail` uses or updates `tail`, which stays null (49-51, 101); `Queue::add`
  adds at the rear, not to "the top" or "front" (`Queue.hpp:48-50`); and no method
  returns when an allocation fails, since `new` throws (`Stack.hpp:71` and the
  like): the models let `new` succeed as long as there are free addresses.
* `lookup` returns a level, not whether the data is in the tree
  (`BinarySearch.hpp:282`, against the comment at 67).
* When the list element of the second half cannot be allocated,
  `split_current_block` leaves two overlapping blocks (`provider_coarse.c:1155`,
  `splitList` in `FailingAt`).
* An "aligned" free block is chosen by its size, not its address
  (`provider_coarse.c:309`, `337`), and may become smaller than asked for; the
  assertion at 1134 says otherwise (`AlignedBlockFits` with `AskedFreely`).
* `initialize` takes a failure for success: when the region of an immediate
  initialisation cannot be adopted, `coarse_memory_provider_alloc` gives it back
  but leaves its address in `*resultPtr` (`provider_coarse.c:1304-1321`), so the test
  at 978 passes, the free of a block that is not there fails unnoticed (983), and the
  provider is up and empty (`InitializeEmpty`). The assertion at 1004 says that
  `alloc_size` is `init_buffer_size`: a debug build would stop there. Blocks, lists and
  counters are right all the same, as `BlocksTile` and the refinement say.
* The update of an entry in a split or a merge can fail, against the comment "this
  cannot fail since we know the element exists (nothing to allocate)"
  (`provider_tracking.c:240`, `314`): `critnib_insert` allocates a leaf before it looks
  for the key (`critnib.c:330-335`). A debug build stops; the release build ignores
  the result, frees the old value, which the map still has, loses the new one, and
  returns success (238-245, 312-319). A query may then read the freed value, and the
  next free of the region frees it again. `Update` has this branch and notes the entry in
  `strays`; `ValuesOwned` without its condition is violated as soon as it is taken.
* `critnib_find_le` may return nothing although some smaller key was stored
  throughout its call (`FindLeIsCurrent`), and `find_predecessor` may follow a null
  pointer it has just found not null (`critnib.c:543`, `552`; `NoFault`).
* `clear_tracker_for_the_pool`, whose search is such a query, may leave
  entries of a destroyed pool in the tracker; a region later allocated there is
  not tracked. A simulation
  with three addresses has a region that is allocated where such an entry is, and is
  split by that entry while the pool, created and destroyed again, frees its value,
  which the split then frees too. So `TrackerIsExact`, `QueriesAreRight` and
  `ValuesOwned` say nothing once there is a stray entry (`strays`), of this kind or
  left by a failed update. That holds for their theorems too. Every other failure,
  of an insert, of the upstream provider, of a free, a split or a merge, is within them.
* A merge leaves the upper region's IPC handle in `ipcCache`, where a later region
  at that address finds it; `HandlesBalanced` counts it as cached. After a
  split whose upper half cannot be added, the upstream provider and the tracker
  disagree (`TODO` at `provider_tracking.c:232`).

Two more facts shape the models. `remove` looks for a key larger than the root's
in the left subtree and its branch for smaller ones is unreachable
(`BinarySearch.hpp:167-172`), so only the root's key is ever removed, with the
whole tree; and the two-child case of `deleteHelper` would use a node after
deleting it, were it reached. `NoUseAfterDelete` holds because of the first, and
correcting `remove` alone breaks it.

## What is proved

`BstTransactionsProofs`, for any sets of threads, any number of trees and
any keys, from `TransactionAssumption` (the number of trees is a natural number,
the two sets of threads are disjoint, `NoThread` is no thread) and
`NoKeyAssumption`:

* `Invariance`: `Spec => []IInv`, the inductive invariant
  `TypeOK /\ JobInv /\ OwnerInv /\ PhaseInv /\ RemovedInv /\ TransferLands`.
* `TypeCorrect`, `Exclusion`, `Ordered`, `Landing`, `DeadlockFree`: the types
  and the four invariants of `bst_transactions`.
* `Refinement`: `Spec => Serializable`.

The properties are not inductive alone. `ExclusiveAccess` needs to know that a
thread in the middle of a transaction still owns both mutexes; so `OwnerInv`
says that a mutex belongs to a thread exactly between its `lock()` and its
`unlock()`, and `JobInv` that the trees a transaction works on are the two it
has locked, in order. `TransferLands` needs that nobody else changes the trees
between insert and unlock, which follows from these two, and `RemovedInv`, its
first half: after `remove` the key is not the root of the source. `NotStuck`
argues by the order of trees: if all threads wait, take the one that waits for
the greatest tree; its holder waits for a greater one, a contradiction; there
`PhaseInv` rules out threads split between the two barriers. For
`Refinement` each action maps to a transfer (`Remove`) or to no change:
`Insert` changes the tree but not its committed value, because by `OwnerInv` at
most one transaction is on its way into a tree.

`IntervalLogProofs`, for any numbers of threads on the two nodes, any number of
slots and runs, from `LogAssumption` (an interval no longer than the duration,
as many threads on each node as the barrier expects); `LogInBounds` speaks of
intervals that divide the duration:

* `Invariance`: `Spec => []IInv`, with `IInv` the conjunction of `TypeOK`,
  `MutexInv`, `IndexInv`, `SumsInv`, `ClockInv`, `LogInBounds`, `CountInv` and
  `ReportInv`.
* `TypeCorrect`, `LogStaysInBounds`, `LogCountsUp`, `MergeIsExact`: type
  correctness and the three invariants of `interval_log`.
* `ReportsTotal`: its action property, what `main` reports.

`LogInBounds` needs arithmetic: a slot is written when the clock has passed its
time, the loop is entered only before the duration is over, and there are as many
multiples of the interval (`SlotCount`, `FewerMultiples`). `NothingLost` needs
`MutexInv` (only the holder of `globalLK` is between `Load` and `Publish`) and
`SumsInv`: the sums of a node are those of the threads that have merged, and of
the one that is merging for the slots below its index. `ReportsAreTotals` needs
that the sums of a run start from those of the runs before.

`ContainerWorkloadProofs`, for any threads, any number of containers and any
number of iterations, from `WorkloadAssumption` (there is a container and finitely
many threads, the two sets of threads are disjoint):

* `Invariance`, with `IInv` the conjunction of `NodesAccountedFor`, `HistoryInv`,
  `OwnerInv`, `GlobalInv`, `SeenInv` and `OpsAccountedFor`.
* `NoNodeIsLost`, `TotalsAreExact`: the two invariants of `workload`.
* `CallsRunAlone`: two calls are never inside the same container.

The argument is the same for containers and totals: by `OwnerInv` and `GlobalInv` the
mutex is held from the read to the write, so by `SeenInv` what has been read is
still there when the write comes.

`BstInitProofs`, for any number of trees, passes and runs, any draws and any
crossover, from `InitAssumption` (there is a tree, the crossover is a percentage, draws are
positive, the frequency of runs is not 0):

* `Invariance`, with `IInv` the conjunction of `NoFault`, `PhaseInv`, `CounterInv`,
  `SideInv`, `ResizedInv`, `MadeInv` and `TouchedInv`.
* `NoFaultEver`, `NothingIsShared`, `TestFindsAll`: the three invariants of `bst_init`.

No mutex is taken there. The threads are always between the same two waits
(`PhaseInv`), so node 0's resizes are complete (`ResizedInv`) and a thread's own trees
and mutexes exist (`MadeInv`) before anything is drawn; and both threads clear
`crossover` before they draw, so neither draws from the other side (`SideInv`).

`TrackingProviderProofs`, for any pools, threads and values, any number of
addresses and any largest request, from `TrackingAssumption` (the bounds are natural
numbers, there are finitely many threads, `Null` is no pool, value, thread or entry):

* `RegionsApart`: `Spec => []RegionInv`, with `RegionInv` the conjunction of
  `GivenInv`, `ThreadInv`, `ShapeInv`, `HeldInv`, `CarriedInv`, `HighInv` and
  `UsedInv`. Regions that are held, freed, split or merged lie in what the provider
  of their own pool has given and do not overlap.
* `HandlesAreBalanced`: the invariant `HandlesBalanced` of `tracking`.

The upstream provider's books do not follow the callers': a region may be
one block for the provider and two for the tracker after a split that was undone, so `RegionInv`
speaks of the bytes a pool has been given (`Land`), in whatever blocks.
`HandlesBalanced` needs it because a thread counts under the pool its region has, which must
not change or end under it; `HandleInv` is the balance itself and, for pools
that do not exist, that nothing of them is cached and that their handles are 0 once
`clear_tracker_for_the_pool` is over, so that the pool may be created again.

The second half of `TrackingProviderProofs`, from the same assumption:

* `TrackerAgrees`: `Spec => []TrackerInv`, with `TrackerInv` the conjunction of
  `RegionInv`, `HandleInv`, `Types` and `MapInv`. `MapInv` is types (`MapTyped`, and
  `FieldInv`, what a thread's record has at each point) and, as long as
  `strays = {}`, `ExactInv`, `ValueInv`, `ClearInv` and `QueryInv`.
* `EveryValueHasOneOwner`, `QueriesFindTheirRegion`, `TrackerStaysExact`: the other
  three invariants of `tracking`.

None of the three is inductive alone. `ExactInv` says who answers for each
entry of the map: a caller's region (`held \ untracked`), a thread in the middle of
a split or a merge, for one or both of its halves (`LowKnown`, `HighKnown`), or a pool
that is being destroyed (`Leaves`); by `RegionInv` these lie apart, so a step
disturbs only what its own thread answers for. `ValueInv` is `ValuesOwned` with
what a split or a merge has seen and made (`SeenOf`): the value it frees after
`Update` is the one `Compare` read under `splitMergeMutex`, and still the region's.
`ClearInv` is the argument for `clear_tracker_for_the_pool`, which walks the map
by queries that take no lock while other pools change it: an entry of the pool
stays where it is (`Stands`) and, unless a query was overtaken, nothing of
the pool is left below the key the walk has reached (`Floor`). `QueryInv` follows a query for a pointer:
the entry of a region that stays is the nearest at or below the pointer
throughout (`NearestHeld`), so the one that is found. What AbstractIndex answers
is in the lemmas `AnswersAre`, `ExactCases` and `WatchOpen`. All four
need the others and `strays = {}`, without which they fail, as said above: they say
that the tracker is exact up to the first entry that outlives its pool or whose update
fails, and that nothing else makes it wrong. `HandlesBalanced` has no such condition.

`CritnibProofs`, for any slices and widths of keys, any keys and values and any numbers of
nodes, leaves and removals, from `CritnibAssumption` (among its conjuncts: null is no
value, no node and no leaf, and a value tells its key):

* `CritnibNothingLost`: `Spec => []NothingLost`, by the inductive invariant `Core`,
  the conjunction of `Typed`, `OwnedOnce`, `PoolsEnd`, `Unique` and `HandReady`.
* `CritnibGracePeriod`: `Spec => []GracePeriod`, by `GraceInv`, which is `Grace` (`Core`,
  `CountOwn` and `RestsInOrder`) with `ReaderInv`.
* `CritnibTreeHoldsEntries`: `Spec => []TreeHoldsEntries`, by `Whole`, which is
  `Grace` with `Ranked`, `EntriesKept` and `HandFits`.
* `CritnibImplementsIndex`: `Spec => ImplementsIndex`, by `ReadsRight`, which is `Whole`
  with `ReaderInv`, `Populated`, `CallInv`, `Spans`, `SeenInv`, `AheadInv` and
  `AnswerInv`.

`NothingLost` needs that every pointer of the tree is kept in one place (`Unique`),
or the store that unlinks a node would not unlink it; that the pools' links end
(`PoolsEnd`), or a reclaimed node would never be given again; and what the
writer found on its way is still so when it stores (`HandReady`). `GracePeriod` counts
removals: a slot of `pending_del_*` has a number (`Stamp`), that of the removal
that filled it, and a node, a leaf or what they link to is `Safe` for a reader if it is in the
tree or its number is no less than the reader's. `RestsInOrder` says that a node at
rest links to nothing that is reclaimed before it, so a reader that goes from one
safe node to another stays safe (`ReaderInv`) until it is overtaken.
`TreeHoldsEntries` needs that shifts fall on the way down (`Ranked`), also in nodes at
rest, which share their children with the tree, and that the two keys a new node tells
apart differ in its slice and agree above it (`FirstDifference`).

`ImplementsIndex` is about a reader that may return, one that is not overtaken (`Live`).
The publishing store of an insertion and the store that unlinks a leaf are one
write of the index each, and `Return` is its answer; every other step changes neither
`entries` nor what the call has seen. That the answer is one the index may give has two
halves. `SeenInv`: every leaf that the reader can still come to, in the tree or below
where it stands (`Below`), has a key and value that were an entry during the call, or
the key is on the wrong side. So nothing found is made up. `AheadInv`: if the
nearest entry has been the same since the call began (`Steady`), its leaf lies below
the reader's pointer, or below a frame on the side that frame has still to search
(`Ahead`). So it is not missed. It holds across the stores of writers because a
slot of a safe node only changes to what leads to the same leaves, but for the leaf
that was unlinked (`FollowsSafe`, `BelowKeeps`), and an entry that stays keeps its leaf
(`SameLeaf`). It holds across the reader's steps because frames hold ever
closer keys towards the top and a subtree met before them only closer ones (`Stacked`,
`Before`, in `Spans`), and because a subtree that a walk for the last or first leaf
enters has a leaf: no node is ever empty (`Populated`, `HasLeaf`). That last fact is what
makes it right that `find_le` does not look any further once it has gone aside.

`CoarseProviderProofs`, for any size of the memory and the pages, any requests and any
numbers of regions and failures, from `CoarseAssumption`:

* `CoarseBlocksTile`, `CoarseFreeListsExact`, `CoarseAllReturned`: the three invariants
  of `coarse`, by the inductive invariant `IInv`, the conjunction of `TypeInv`, `HeapInv`,
  `HeldInv`, `DownInv`, `CountInv`, `GivenInv`, `NeatInv` and `DividedInv`.
* `CoarseImplementsAllocator`: `Spec => ImplementsAllocator`.

These four have two hypotheses, as the run has, and both are limits of the code listed above: `splitList` is
not among the allocations that fail (after that failure two blocks overlap), and
`SizesAligned` (where a strategy looks for an aligned block by its size,
pages and sizes are multiples of the alignments asked for, or the block may become smaller
than the request). `HeapInv` says that the blocks are ranges that tile the upstream
blocks (`Tiles`) and that a free list has unused blocks of its size, each once
(`Lists`). `NeatInv`, that every unused block is listed and no two neighbours could
be merged, holds while nothing has failed: a merge or a split whose list element
cannot be allocated leaves a block that no list has, and `AllReturned` says
no more of that case than the code does. `CountInv` ties `used_size` and `alloc_size` to
the bytes held and owned, and `DividedInv` is what makes a test of sizes a test
of addresses. Each helper of the code has its lemma (`FindFreeIs`,
`CutAlignedIs`, `CutTailIs`, `CoalesceIs`, `GrownCovering` and so on), which says of every
result what the heap it leaves has: the failures too. For the
refinement `Alloc` maps to a step of growth with an allocation, `Free` to a release,
`Initialize` and `InitializeEmpty` to growth and `Finalize` to the return of everything.

`LinkedContainersProofs`, for any values and any finite set of addresses, from
`ContainerAssumption` (null is no address, memory is finite, the values are natural
numbers, so -1 is none of them):

* `SpecInv`: `Spec => []Inv`. `Inv` says that the chains of stack, queue and list
  are `Linked`, that they divide the heap (`Three`), and that `rear` and `length` are
  what the chains say (`Parts`).
* `ObjectsDivideHeap`, `RearAndLength`: the two invariants of `containers`.
* `ContainersImplementSequences`: `Spec => ImplementsPromise`.

`Linked(h, p, c)` says that the links lead from `p` through the nodes of `c`, each
once, to null. The walk of the model is cut off after more steps than there are
addresses; `ChainIs` shows that a linked chain never gets there, since its nodes are
different addresses (`ChainFits`). Every call is then one of five changes of one
chain: a node before the first (`ThreePush`), behind the k-th (`ThreeInsert`), without
the first (`ThreeTail`), without the last (`ThreeFront`) or without any (`ThreeDrop`),
each of which leaves the other two chains and their values alone because the three are
apart. The lemmas named `...Done` say of each method that it keeps `Inv` and is the
step of AbstractContainers, or, where it crashes, no step. `add` needs `rear`: the
first node of an empty queue gets `rear` as its link, which must be null, and
every other is linked behind `rear`, which must be the last. `insertAtIndex`
needs `length`: a longer one would let it walk off the end.

Only model-checked: liveness; everything about BinarySearchTree, whose methods are
recursive operators; SecretTyper.

## Not modelled

* Container initialisation (`numa_Stack_init` and the like): sequential, before any
  thread exists; the initial states of ContainerWorkload.
* `thread_numa`, `numa<T,N>`, the allocator shim: placement on nodes, which
  changes speed and not results. `new` returns any free address.
* `secret` types: compile-time wrappers.
* `secret-clang-tool`: clang's own part (parsing, matching, rewriting); the text
  of copied methods, constructors and initialisers, which SecretTyper takes as one
  piece; `extractNumaDecls`, which has no caller; `--cast`, whose lines in `main`
  are commented out. A header with two classes is taken as two headers.
* Of UMF: `ravl` (CoarseProvider uses what it stores), the base allocator (a set
  of free objects, or a failure), the disjoint pool (planned), the adapters to
  jemalloc and TBB, the OS, file, CUDA and Level Zero providers (system and
  driver calls), memory spaces and targets, the API layer, the proxy library. Of
  critnib, `critnib_iter` has no caller and `critnib_delete` runs alone. Of the
  tracking provider, what it passes on unchanged, and the tracker's own creation
  and destruction at the start and end of the program.
* Tests, headers of vendored APIs, and the copies of the benchmark, which are most
  of the repository's lines: the modules cover a small share of them for this
  reason, and most of the code that is the benchmark's own logic.
* Options and printing of `main`, scripts, plots: input and output.
* Overflow of `int ops`; `num_DS < 2`; an interval longer than the duration
  or not dividing it (the write at `TestSuite.cpp:1030` may then be one past the
  end; the scripts use 800 and 10). Each is listed as a hazard.
* Weak memory: the benchmark's shared data is accessed under a mutex or apart by
  a barrier, which the invariants above establish for interleavings. Critnib's
  loads and stores are those of its `load` and `store` macros, in program order;
  the plain reads of `find_predecessor` and `find_successor` may be one or two.

## Plan

1. Done: BstTransactions with its abstract specification, runs and proofs;
   BinarySearchTree below it; IntervalLog with its proofs, ContainerWorkload,
   LinkedContainers, BstInit; of UMF, CoarseProvider, Critnib and TrackingProvider
   with AbstractAllocator and AbstractIndex; SecretTyper.
2. Next: the disjoint pool over a provider that is an AbstractAllocator; `ravl`.
3. Proofs: `UnitIsComplete` and `LastUnitDecides` of SecretTyper.
