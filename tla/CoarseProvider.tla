--------------------------- MODULE CoarseProvider ---------------------------
(***************************************************************************)
(* The coarse memory provider of the unified memory framework              *)
(* (src/provider/provider_coarse.c): it takes regions from an upstream     *)
(* provider, or one buffer, and cuts them into blocks.                     *)
(*                                                                         *)
(* The trees all_blocks, upstream_blocks and free_blocks are functions on  *)
(* their keys.  Every operation runs under the provider's mutex and is one *)
(* step.  The host allocations inside an operation may fail, at any of the *)
(* places in FailingAt, and the operation then returns from there: what it *)
(* has changed until then stays.  The code is the release build: an assert *)
(* does nothing.                                                           *)
(***************************************************************************)
EXTENDS Integers, FiniteSets, FiniteSetsExt, Sequences, SequencesExt

CONSTANTS Memory,       \* the number of addresses
          PageSize,     \* the upstream provider's regions start at multiples
          Word,         \* the modulus of size_t
          Requests,     \* strategy -> the pairs <<size, alignment>> asked for
          InitSize,     \* init_buffer_size
          FailingAt,    \* the host allocations that may fail
          MaxFailures,  \* bound: how many of them do
          MaxRegions    \* bound: regions taken from the upstream provider

Strategies == {"FASTEST", "FASTEST_BUT_ONE", "CHECK_ALL_SIZE"}
Sources    == {"upstream", "immediate", "buffer"}
Sites      == {"upstreamNode", "regionNode", "alignedNode", "paddingList",
               "splitNode", "splitList", "freeList", "allocationSplit"}

\* coarse_ravl_add_new asserts that a block is not empty.
ASSUME CoarseAssumption ==
  /\ Memory \in Nat /\ PageSize \in Nat \ {0} /\ Word \in Nat /\ Word > Memory
  /\ DOMAIN Requests = Strategies
  /\ \A s \in Strategies : Requests[s] \subseteq (Nat \ {0}) \X Nat
  /\ InitSize \in 1 .. Memory /\ FailingAt \subseteq Sites
  /\ MaxFailures \in Nat /\ MaxRegions \in Nat

\* The strategies that look for an aligned block test its size, so they are
\* asked for sizes, and given memory, that the alignment divides.
SizesAligned ==
  \A s \in Strategies \ {"FASTEST"} : \A r, q \in Requests[s] :
    r[2] # 0 => q[1] % r[2] = 0 /\ InitSize % r[2] = 0 /\ PageSize % r[2] = 0

VARIABLES
  params,          \* allocation_strategy and the source of memory
  traits,          \* what the upstream provider supports: "free", "merge"
  heap,            \* all_blocks and free_blocks
  upstreamBlocks,  \* upstream_blocks: address -> size
  usedSize, allocSize,
  given,           \* the upstream provider's books: address -> size handed out
  held,            \* history: address -> size of what callers were given
  failures         \* how many host allocations have failed

vars == <<params, traits, heap, upstreamBlocks, usedSize, allocSize, given, held, failures>>

Addresses   == 0 .. Memory - 1
Bytes(a, n) == a .. a + n - 1
Down        == [strategy |-> "FASTEST", source |-> "none"]
Up          == params.source # "none"
HasUpstream == params.source # "buffer"

Aligned(v, al) == al # 0 => v % al = 0
AlignUp(v, al) == ((v + al - 1) \div al) * al

\* The sum of f, counted one by one.
Total(f)        == Cardinality(UNION {{a} \X (1 .. f[a]) : a \in DOMAIN f})
Sizes(bs, S)    == [a \in S |-> bs[a].size]
Empty           == [a \in {} |-> 0]
Extend(f, a, v) == [x \in DOMAIN f \cup {a} |-> IF x = a THEN v ELSE f[x]]
Without(f, a)   == [x \in DOMAIN f \ {a} |-> f[x]]
CanFail(site)   == site \in FailingAt /\ failures < MaxFailures
Result(h, a, s) == [heap |-> h, at |-> a, ok |-> s]

UsedBlocks      == {a \in DOMAIN heap.blocks : heap.blocks[a].used}

EmptyHeap == [blocks |-> Empty, free |-> Empty]

Init ==
  /\ params = Down
  /\ traits \in SUBSET {"free", "merge"}
  /\ heap = EmptyHeap /\ upstreamBlocks = Empty
  /\ usedSize = 0 /\ allocSize = 0
  /\ given = Empty /\ held = Empty /\ failures = 0
-----------------------------------------------------------------------------
(* Blocks and the lists of free blocks.  free_blocks has a list for every  *)
(* size it has met; the newest block comes first.                          *)

\* coarse_ravl_add_new refuses an address that is in the tree, and leaves the
\* new block's used flag as it finds it.
AddNew(h, a, n, site) ==
  (IF a \in DOMAIN h.blocks THEN {}
   ELSE {Result([h EXCEPT !.blocks = Extend(@, a, [size |-> n, used |-> u])], a, TRUE) :
           u \in BOOLEAN})
  \cup (IF a \in DOMAIN h.blocks \/ CanFail(site) THEN {Result(h, a, FALSE)} ELSE {})

SetUsed(h, a, u) == [h EXCEPT !.blocks[a].used = u]
SetSize(h, a, n) == [h EXCEPT !.blocks[a].size = n]

ListOf(h, n) == IF n \in DOMAIN h.free THEN h.free[n] ELSE <<>>
WithList(h, n, list) == [h EXCEPT !.free = Extend(@, n, list)]

\* free_blocks_add.  When the list's element cannot be allocated, a head made
\* for it stays in the tree, with an empty list.
AddFree(h, a, site) ==
  LET n == h.blocks[a].size IN
  {Result(WithList(h, n, <<a>> \o ListOf(h, n)), a, TRUE)}
  \cup (IF CanFail(site)
        THEN {Result(h, a, FALSE), Result(WithList(h, n, ListOf(h, n)), a, FALSE)}
        ELSE {})

DropEmptyHead(h, n) == IF h.free[n] = <<>> THEN [h EXCEPT !.free = Without(@, n)] ELSE h

\* free_blocks_rm_node and node_list_rm; free_list_ptr is the block's element.
Unlist(h, a) ==
  LET n    == h.blocks[a].size
      list == ListOf(h, n)
      elem == CHOOSE i \in DOMAIN list : list[i] = a
  IN IF a \in ToSet(list) THEN DropEmptyHead(WithList(h, n, RemoveAt(list, elem)), n) ELSE h

\* free_blocks_rm_ge: the smallest size that is large enough, and of its list
\* the first block, or with all the first block that fits.  What is tested
\* against the alignment is the size of the block.
RemoveGE(h, size, al, all) ==
  LET large == {n \in DOMAIN h.free : n >= size} IN
  IF large = {} THEN [heap |-> h, found |-> {}]
  ELSE LET n    == Min(large)
           list == h.free[n]
           fits == {i \in DOMAIN list : /\ Aligned(h.blocks[list[i]].size, al)
                                        /\ all \/ i = 1}
       IN IF fits = {} THEN [heap |-> DropEmptyHead(h, n), found |-> {}]
          ELSE [heap |-> Unlist(h, list[Min(fits)]), found |-> {list[Min(fits)]}]

FindFreeTight(h, size, al) ==  \* faulty: no room for the alignment
  RemoveGE(h, size, 0, FALSE)

FindFree(h, size, al) ==
  LET exact == RemoveGE(h, size, al, params.strategy = "CHECK_ALL_SIZE") IN
  IF params.strategy # "FASTEST" /\ exact.found # {} THEN exact
  ELSE RemoveGE(IF params.strategy = "FASTEST" THEN h ELSE exact.heap, size + al, 0, FALSE)

\* create_aligned_block: the block found keeps the padding and is free again.
CutAligned(h, a, al) ==
  LET start   == AlignUp(a, al)
      padding == start - a
  IN IF al = 0 \/ padding = 0 THEN {Result(h, a, TRUE)}
     ELSE UNION {
       IF ~new.ok THEN {Result(h, a, FALSE)}
       ELSE {Result(r.heap, start, r.ok) :
               r \in AddFree(SetUsed(SetSize(new.heap, a, padding), a, FALSE), a, "paddingList")} :
       new \in AddNew(h, start, h.blocks[a].size - padding, "alignedNode")}

CutTailWhole(h, a, size) ==  \* faulty: the block that is split keeps its size
  UNION {IF ~new.ok THEN {Result(h, a, FALSE)}
         ELSE AddFree(SetUsed(new.heap, a + size, FALSE), a + size, "splitList") :
         new \in AddNew(h, a + size, (h.blocks[a].size - size) % Word, "splitNode")}

\* split_current_block, and the new size of the block that is split, which is
\* set only when all has gone well.
CutTail(h, a, size) ==
  UNION {
    IF ~new.ok THEN {Result(h, a, FALSE)}
    ELSE {Result(IF r.ok THEN SetSize(r.heap, a, size) ELSE r.heap, a, r.ok) :
            r \in AddFree(SetUsed(new.heap, a + size, FALSE), a + size, "splitList")} :
    new \in AddNew(h, a + size, (h.blocks[a].size - size) % Word, "splitNode")}

\* What becomes of the block a that was found: whether it is split is decided
\* on its size before it is aligned.
Reuse(h, a, size, al) ==
  UNION {IF cut.ok /\ h.blocks[a].size > size
         THEN CutTail(cut.heap, cut.at, size) ELSE {cut} :
         cut \in CutAligned(h, a, al)}
-----------------------------------------------------------------------------
(* Merging.                                                                *)

Before(f, a) == {x \in DOMAIN f : x < a}
After(f, a)  == {x \in DOMAIN f : x > a}

\* The upstream block with the largest address up to a's has to contain b.
SameOrigin(up, h, a, b) ==
  LET origin == Max({x \in DOMAIN up : x <= a}) IN
  b >= origin /\ b + h.blocks[b].size <= origin + up[origin]

Mergeable(up, h, a, b, used) ==
  /\ h.blocks[a].used = used /\ h.blocks[b].used = used
  /\ a + h.blocks[a].size = b
  /\ SameOrigin(up, h, a, b)

JoinListed(h, a, b) ==  \* faulty: the block that goes stays in its free list
  LET u   == Unlist(h, a)
      sum == h.blocks[a].size + h.blocks[b].size
  IN [u EXCEPT !.blocks = [Without(@, b) EXCEPT ![a].size = sum]]

\* user_block_merge of two neighbours: the lower one grows.
JoinBlocks(h, a, b) ==
  LET u   == Unlist(Unlist(h, a), b)
      sum == h.blocks[a].size + h.blocks[b].size
  IN [u EXCEPT !.blocks = [Without(@, b) EXCEPT ![a].size = sum]]

\* free_block_merge_with_prev, then free_block_merge_with_next.
Coalesce(up, h, a) ==
  LET prev == {x \in Before(h.blocks, a) :
                 x = Max(Before(h.blocks, a)) /\ Mergeable(up, h, x, a, FALSE)}
      low  == IF prev = {} THEN a ELSE Min(prev)
      h1   == IF prev = {} THEN h ELSE JoinBlocks(h, low, a)
      next == {x \in After(h1.blocks, low) :
                 x = Min(After(h1.blocks, low)) /\ Mergeable(up, h1, low, x, FALSE)}
  IN [heap |-> IF next = {} THEN h1 ELSE JoinBlocks(h1, low, Min(next)), at |-> low]

\* upstream_block_merge of a new region with the one before, then with the
\* one after, if the upstream provider agrees: the range it becomes.
Grown(a, n) ==
  LET prev  == {x \in DOMAIN upstreamBlocks :
                  "merge" \in traits /\ x + upstreamBlocks[x] = a}
      next  == {x \in DOMAIN upstreamBlocks : "merge" \in traits /\ a + n = x}
      start == Min(prev \cup {a})
  IN [at |-> start,
      size |-> a + n - start + IF next = {} THEN 0 ELSE upstreamBlocks[a + n]]

PutOver(f, range) == Extend(f, range.at, range.size)  \* faulty: the second region stays

Put(f, range) ==
  Extend([x \in DOMAIN f \ Bytes(range.at, range.size) |-> f[x]], range.at, range.size)
-----------------------------------------------------------------------------
(* The operations.                                                         *)

Fail(n) == failures' = failures + n

\* A region the upstream provider has free, and where it may start.
Region(a, n) ==
  /\ a + n <= Memory /\ a % PageSize = 0
  /\ \A x \in DOMAIN given : Bytes(a, n) \cap Bytes(x, given[x]) = {}

\* coarse_add_upstream_block in a heap h, all or nothing.
Adopt(h, a, n) ==
  /\ upstreamBlocks' = Put(upstreamBlocks, Grown(a, n))
  /\ heap' = [h EXCEPT !.blocks = Extend(@, a, [size |-> n, used |-> TRUE])]
  /\ allocSize' = allocSize + n /\ usedSize' = usedSize + n
  /\ Fail(0)

AdoptFails == CanFail("upstreamNode") \/ CanFail("regionNode")

\* coarse_memory_provider_alloc when a free block is found: ...
AllocBlock(size, al) ==
  LET free == FindFree(heap, size, al) IN
  \E a \in free.found : \E r \in Reuse(free.heap, a, size, al) :
    /\ IF r.ok
       THEN /\ heap' = SetUsed(r.heap, r.at, TRUE)
            /\ usedSize' = usedSize + size
            /\ held' = Extend(held, r.at, size)
            /\ Fail(0)
       ELSE heap' = r.heap /\ Fail(1) /\ UNCHANGED <<usedSize, held>>
    /\ UNCHANGED <<upstreamBlocks, allocSize, given>>

\* ... and when none is, and the upstream provider is asked ...
AllocRegion(size, al) ==
  LET free == FindFree(heap, size, al) IN
  /\ free.found = {} /\ HasUpstream /\ Cardinality(DOMAIN given) < MaxRegions
  /\ \E a \in Addresses :
       /\ Region(a, size) /\ Aligned(a, al)
       /\ \/ /\ Adopt(free.heap, a, size)
             /\ given' = Put(given, Grown(a, size))
             /\ held' = Extend(held, a, size)
          \/ /\ AdoptFails /\ Fail(1)
             /\ heap' = free.heap
             /\ given' = IF "free" \in traits THEN given ELSE Extend(given, a, size)
             /\ UNCHANGED <<upstreamBlocks, usedSize, allocSize, held>>

\* ... or there is none, or it has no memory.
AllocNothing(size, al) ==
  LET free == FindFree(heap, size, al) IN
  /\ free.found = {} /\ heap' = free.heap
  /\ UNCHANGED <<upstreamBlocks, usedSize, allocSize, given, held, failures>>

Alloc(size, al) ==
  /\ Up /\ <<size, al>> \in Requests[params.strategy]
  /\ AllocBlock(size, al) \/ AllocRegion(size, al) \/ AllocNothing(size, al)
  /\ UNCHANGED <<params, traits>>

\* coarse_memory_provider_free of a block that is used, or in an error (the
\* result of free_blocks_add is returned when all else is done).
FreeIn(h, up, a) ==
  LET merged == Coalesce(up, SetUsed(h, a, FALSE), a) IN
  AddFree(merged.heap, merged.at, "freeList")

\* A caller frees what it holds, with its size or 0 for a size unknown.  Any
\* other call (a wrong size, an address of no block or of a free one) returns
\* an error and changes nothing.
Free(a) ==
  /\ Up /\ a \in DOMAIN held
  /\ \E r \in FreeIn(heap, upstreamBlocks, a) :
        heap' = r.heap /\ Fail(IF r.ok THEN 0 ELSE 1)
  /\ usedSize' = usedSize - heap.blocks[a].size
  /\ held' = Without(held, a)
  /\ UNCHANGED <<params, traits, upstreamBlocks, allocSize, given>>

\* coarse_memory_provider_allocation_split.
AllocationSplit(a, first) ==
  /\ Up /\ a \in DOMAIN held /\ first < heap.blocks[a].size
  /\ \E r \in AddNew(heap, a + first, heap.blocks[a].size - first, "allocationSplit") :
       IF r.ok
       THEN /\ heap' = SetUsed(SetSize(r.heap, a, first), a + first, TRUE)
            /\ held' = Extend(Extend(held, a + first, heap.blocks[a].size - first), a, first)
            /\ Fail(0)
       ELSE Fail(1) /\ UNCHANGED <<heap, held>>
  /\ UNCHANGED <<params, traits, upstreamBlocks, usedSize, allocSize, given>>

\* coarse_memory_provider_allocation_merge; refused if not mergeable.
AllocationMerge(low, high) ==
  /\ Up /\ {low, high} \subseteq DOMAIN held /\ low < high
  /\ high = Min(After(heap.blocks, low))
  /\ Mergeable(upstreamBlocks, heap, low, high, TRUE)
  /\ heap' = JoinBlocks(heap, low, high)
  /\ held' = Extend(Without(held, high), low, heap.blocks[low].size + heap.blocks[high].size)
  /\ UNCHANGED <<params, traits, upstreamBlocks, usedSize, allocSize, given, failures>>

\* coarse_memory_provider_initialize.  An initial region is adopted as used,
\* then freed; an error of that free is ignored.
Initialize(p) ==
  /\ ~Up /\ params' = p /\ held' = Empty
  /\ \/ /\ p.source = "upstream"
        /\ heap' = EmptyHeap /\ upstreamBlocks' = Empty
        /\ usedSize' = 0 /\ allocSize' = 0 /\ UNCHANGED <<given, failures>>
     \/ /\ p.source # "upstream" /\ Cardinality(DOMAIN given) < MaxRegions
        /\ \E a \in Addresses :
             /\ Region(a, InitSize)
             /\ given' = IF p.source = "buffer" THEN given ELSE Extend(given, a, InitSize)
             /\ upstreamBlocks' = Extend(Empty, a, InitSize)
             /\ \E r \in FreeIn([EmptyHeap EXCEPT !.blocks = Extend(Empty, a, [size |-> InitSize, used |-> TRUE])],
                                Extend(Empty, a, InitSize), a) :
                  heap' = r.heap /\ Fail(IF r.ok THEN 0 ELSE 1)
        /\ usedSize' = 0 /\ allocSize' = InitSize
  /\ UNCHANGED traits

\* A buffer that cannot be adopted: there is no provider.
InitializeFails ==
  /\ ~Up /\ AdoptFails /\ Fail(1)
  /\ \E a \in Addresses : Region(a, InitSize)
  /\ UNCHANGED <<params, traits, heap, upstreamBlocks, usedSize, allocSize, given, held>>

\* A region of the upstream provider that cannot be adopted is given back, if
\* that can be done, but stays where coarse_memory_provider_alloc returns its
\* result: its caller takes that for success, the free of a block that does
\* not exist is an error it ignores, and the provider starts with nothing.
InitializeEmpty(p) ==
  /\ ~Up /\ p.source = "immediate" /\ AdoptFails /\ Fail(1)
  /\ \E a \in Addresses :
       /\ Region(a, InitSize)
       /\ given' = IF "free" \in traits THEN given ELSE Extend(given, a, InitSize)
  /\ params' = p /\ held' = Empty
  /\ heap' = EmptyHeap /\ upstreamBlocks' = Empty
  /\ usedSize' = 0 /\ allocSize' = 0
  /\ UNCHANGED traits

\* coarse_memory_provider_finalize gives every upstream block back, if the
\* upstream provider takes it.
Finalize ==
  /\ Up /\ params' = Down /\ held' = Empty
  /\ heap' = EmptyHeap /\ upstreamBlocks' = Empty
  /\ usedSize' = usedSize - Total(Sizes(heap.blocks, UsedBlocks))
  /\ allocSize' = allocSize - Total(upstreamBlocks)
  /\ given' = IF HasUpstream /\ "free" \in traits
              THEN [a \in {x \in DOMAIN given :
                             ~(x \in DOMAIN upstreamBlocks /\ upstreamBlocks[x] = given[x])}
                      |-> given[a]]
              ELSE given
  /\ UNCHANGED <<traits, failures>>

Next ==
  \/ \E p \in [strategy : Strategies, source : Sources] : Initialize(p) \/ InitializeEmpty(p)
  \/ InitializeFails
  \/ \E r \in Requests[params.strategy] : Alloc(r[1], r[2])
  \/ \E a \in DOMAIN held :
        \/ Free(a)
        \/ \E r \in Requests[params.strategy] : AllocationSplit(a, r[1])
        \/ \E b \in DOMAIN held : AllocationMerge(a, b)
  \/ Finalize

Spec == Init /\ [][Next]_vars
-----------------------------------------------------------------------------
(* Properties.  What debug_check asserts, where it is true also after host *)
(* allocations have failed.                                                *)

Blocks(a) == Bytes(a, heap.blocks[a].size)

\* The trees hold blocks of the program, and nothing is empty.
TypeOK ==
  /\ params \in [strategy : Strategies, source : Sources \cup {"none"}]
  /\ DOMAIN heap.blocks \subseteq Addresses
  /\ \A a \in DOMAIN heap.blocks : heap.blocks[a] \in [size : 1 .. Memory, used : BOOLEAN]
  /\ DOMAIN heap.free \subseteq 1 .. Memory
  /\ \A n \in DOMAIN heap.free : heap.free[n] \in Seq(DOMAIN heap.blocks)
  /\ usedSize \in Int /\ allocSize \in Int /\ failures \in 0 .. MaxFailures

\* Every byte of the upstream blocks is in exactly one block, no block lies
\* across two of them or outside, and alloc_size is their total size.  What
\* callers hold are used blocks of the size they asked for, which used_size
\* counts.
BlocksTile ==
  /\ TypeOK
  /\ \A a \in DOMAIN heap.blocks :
       \E o \in DOMAIN upstreamBlocks : Blocks(a) \subseteq Bytes(o, upstreamBlocks[o])
  /\ \A a, b \in DOMAIN heap.blocks : a # b => Blocks(a) \cap Blocks(b) = {}
  /\ Up => /\ Total(Sizes(heap.blocks, DOMAIN heap.blocks)) = allocSize
           /\ Total(upstreamBlocks) = allocSize
           /\ Total(held) = usedSize
  /\ \A a \in DOMAIN held : a \in UsedBlocks /\ heap.blocks[a].size = held[a]

\* A free list holds unused blocks of its size, each once.  As long as no
\* host allocation has failed it holds all of them, no head is empty, and no
\* two neighbours that could be merged are both unused.
FreeListsExact ==
  /\ \A n \in DOMAIN heap.free :
       /\ IsInjective(heap.free[n])
       /\ \A a \in ToSet(heap.free[n]) :
            a \in DOMAIN heap.blocks /\ heap.blocks[a] = [size |-> n, used |-> FALSE]
  /\ failures = 0 =>
       /\ <<>> \notin Range(heap.free)
       /\ \A a \in DOMAIN heap.blocks :
            /\ heap.blocks[a].used \/ a \in ToSet(ListOf(heap, heap.blocks[a].size))
            /\ a \in UsedBlocks <=> a \in DOMAIN held
            /\ \A b \in DOMAIN heap.blocks : ~Mergeable(upstreamBlocks, heap, a, b, FALSE)

\* When the provider is down the upstream provider has all its regions back,
\* and the counters have come out at 0, unless a host allocation failed.
AllReturned ==
  ~Up /\ failures = 0 =>
    usedSize = 0 /\ allocSize = 0 /\ ("free" \in traits => given = Empty)

\* The provider does what its callers rely on.
Allocator == INSTANCE AbstractAllocator
               WITH owned <- UNION {Bytes(o, upstreamBlocks[o]) : o \in DOMAIN upstreamBlocks}
ImplementsAllocator == Allocator!Spec
-----------------------------------------------------------------------------
(* What the assertion after the alignment of a block says, and the code    *)
(* does not guarantee: it tests the size of the block, not its address.    *)

\* An aligned block is at least as large as was asked for.
AlignedBlockFits == \A a \in DOMAIN held : heap.blocks[a].size >= held[a]
=============================================================================
