-------------------------- MODULE TrackingProvider --------------------------
(***************************************************************************)
(* The tracking provider of the unified memory framework                   *)
(* (src/provider/provider_tracking.c).  It stands between a memory pool    *)
(* and the pool's upstream provider and keeps, for all pools of a program, *)
(* which pool every region belongs to, so that umfPoolByPtr and umfFree    *)
(* can find the pool of a pointer.                                         *)
(*                                                                         *)
(* The tracker's map is a critnib.  It is used here by what it promises:   *)
(* insert, remove and get are one step each, and a nearest-entry query is  *)
(* answered as in AbstractIndex.  The values in the map are objects of the *)
(* tracker's base allocator and are reused.  No two calls of the critnib,  *)
(* the base allocator or the upstream provider are one step, except for    *)
(* those on an object that nobody else can reach.                          *)
(*                                                                         *)
(* Callers keep to what a pool does: a region is freed, split or merged by *)
(* one thread, while nobody asks for a pointer into it, and a pool that is *)
(* destroyed is not used any more.  Everything else is concurrent.         *)
(***************************************************************************)
EXTENDS Naturals, FiniteSets

CONSTANTS Pools, Threads,
          Memory,   \* the number of addresses; 0 is the null pointer
          MaxSize,  \* bound: the largest region asked for
          Values,   \* bound: the tracker_value_t the base allocator can give
          Null

Addresses   == 1 .. Memory

ASSUME TrackingAssumption ==
  /\ Memory \in Nat /\ MaxSize \in Nat /\ IsFiniteSet(Threads)
  /\ Null \notin Pools \cup Values \cup Threads \cup (Addresses \X Values)

Bytes(a, n) == a .. a + n - 1

VARIABLES
  given,      \* the upstream providers' books: address -> region handed out
  map,        \* hTracker->map: address -> <<address, value>>, or Null
  value,      \* the contents of the values: pool and size
  spare,      \* the values the base allocator has free
  splitMerge, \* the holder of splitMergeMutex
  cache,      \* the ipcCache of every pool: <<pool, address>>
  handles,    \* their IPC handles: <<pool, address>> -> how many
  live,       \* the pools that exist
  th,         \* what each thread is doing
  find,       \* the query of the map each thread has under way
  held,       \* history: the regions callers hold and use in no operation
  untracked,  \* history: those of them whose TrackerAdd failed
  strays      \* history: addresses of entries that outlived their pool, or
              \* whose value was freed because it could not be replaced

upstream == <<given, handles>>
index    == <<map, find>>
objects  == <<value, spare>>
callers  == <<live, held, untracked, strays>>
vars     == <<upstream, index, objects, splitMerge, cache, callers, th>>

\* critnib, by its specification.
Index(t) == INSTANCE AbstractIndex
              WITH Keys <- Addresses, Queries <- {"le", "ge"} \X Addresses,
                   ValuesOf <- [a \in Addresses |-> {a} \X Values],
                   NoValue <- Null, entries <- map, call <- find[t]

NoQuery == [pc |-> "idle"]

Init ==
  /\ given = <<>> /\ handles = [h \in Pools \X Addresses |-> 0]
  /\ map = [a \in Addresses |-> Null]
  /\ value \in [Values -> [pool : {Null}, size : {0}]] /\ spare = Values
  /\ splitMerge = Null /\ cache = {}
  /\ live = Pools /\ held = <<>> /\ untracked = {} /\ strays = {}
  /\ th = [t \in Threads |-> NoQuery] /\ find = [t \in Threads |-> NoQuery]

\* Functions of one argument, on top of others and without some of theirs.
Only(a, r)     == [x \in {a} |-> r]
Over(g, f)     == [x \in DOMAIN g \cup DOMAIN f |-> IF x \in DOMAIN g THEN g[x] ELSE f[x]]
Without(f, S)  == [x \in DOMAIN f \ S |-> f[x]]

Tracked(a)     == map[a] # Null
ValueAt(a)     == map[a][2]
SizeOf(a)      == value[ValueAt(a)].size
PoolOf(a)      == value[ValueAt(a)].pool

Idle(t)        == th[t].pc = "idle"
At(t, pc)      == th[t].pc = pc
Become(t, r)   == th' = [th EXCEPT ![t] = r]
Goto(t, pc)    == th' = [th EXCEPT ![t].pc = pc]
Done(t)        == Become(t, NoQuery)

\* The operations under way on a region, or for a pool.
Users(a) == {t \in Threads : "at" \in DOMAIN th[t] /\ th[t].at = a}
Busy(p)  == {t \in Threads : ~Idle(t) /\ p = IF "pool" \in DOMAIN th[t] THEN th[t].pool
                                              ELSE given[th[t].at].pool}

Hold(regions)  == held' = Over(regions, held)
Drop(S)        == held' = Without(held, S)
Region(p, n, o) == [pool |-> p, size |-> n, opened |-> o]

\* A change of the map, which the queries under way see.
SetMap(a, entry) ==
  /\ map' = [map EXCEPT ![a] = entry]
  /\ find' = [t \in Threads |-> Index(t)!Watch(find[t], map')]
-----------------------------------------------------------------------------
(* umfMemoryTrackerAdd: a new value, inserted unless the address is in the *)
(* map.  The base allocator and the critnib may be without memory.         *)

Add(a, p, n) ==
  /\ ~Tracked(a)
  /\ \E v \in spare :
       /\ value' = [value EXCEPT ![v] = [pool |-> p, size |-> n]]
       /\ spare' = spare \ {v}
       /\ SetMap(a, <<a, v>>)

CannotAdd(a) == UNCHANGED <<objects, index>>

\* umf_ba_free: the base allocator's link takes the place of the pool.
FreeValue(v) ==
  /\ spare' = spare \cup {v}
  /\ value' = [value EXCEPT ![v].pool = Null]

\* umfMemoryTrackerRemove.
Forget(a) ==
  IF Tracked(a)
  THEN SetMap(a, Null) /\ FreeValue(ValueAt(a))
  ELSE UNCHANGED <<objects, index>>
-----------------------------------------------------------------------------
(* trackingAlloc and trackingOpenIpcHandle.                                *)

Unused(a, n) ==
  /\ Bytes(a, n) \subseteq Addresses
  /\ \A x \in DOMAIN given : Bytes(a, n) \cap Bytes(x, given[x].size) = {}

Alloc(t, p, n, opened) ==
  /\ Idle(t) /\ p \in live
  /\ \E a \in Addresses :
       /\ Unused(a, n)
       /\ given' = Over(Only(a, Region(p, n, opened)), given)
       /\ Become(t, [pc |-> "track", at |-> a, region |-> Region(p, n, opened)])
  /\ UNCHANGED <<handles, index, objects, splitMerge, cache, callers>>

\* trackingAlloc returns the region even when it could not be added;
\* trackingOpenIpcHandle closes it.  trackingFree comes here too, to add back
\* what the upstream provider did not free.
Track(t) ==
  LET a == th[t].at
      r == th[t].region
  IN /\ At(t, "track")
     /\ \/ /\ Add(a, r.pool, r.size)
           /\ Hold(Only(a, r)) /\ Done(t) /\ UNCHANGED <<given, untracked>>
        \/ /\ CannotAdd(a) /\ ~r.opened
           /\ Hold(Only(a, r)) /\ Done(t)
           /\ untracked' = untracked \cup {a} /\ UNCHANGED given
        \/ /\ CannotAdd(a) /\ r.opened
           /\ given' = Without(given, {a}) /\ Done(t)
           /\ UNCHANGED <<held, untracked>>
     /\ UNCHANGED <<handles, splitMerge, cache, live, strays>>
-----------------------------------------------------------------------------
(* trackingFree and trackingCloseIpcHandle: out of the tracker first.      *)

Free(t, a) ==
  /\ Idle(t) /\ a \in DOMAIN held /\ Users(a) = {}
  /\ Forget(a) /\ Drop({a}) /\ untracked' = untracked \ {a}
  /\ Become(t, [pc |-> IF held[a].opened THEN "give" ELSE "uncache", at |-> a,
                region |-> held[a], removed |-> Tracked(a)])
  /\ UNCHANGED <<upstream, splitMerge, cache, live, strays>>

Uncache(t) ==
  LET entry == <<th[t].region.pool, th[t].at>> IN
  /\ At(t, "uncache")
  /\ cache' = cache \ {entry}
  /\ Goto(t, IF entry \in cache THEN "put" ELSE "give")
  /\ UNCHANGED <<upstream, index, objects, splitMerge, callers>>

Put(p, a) == handles' = [handles EXCEPT ![<<p, a>>] = @ - 1]

PutCached(t) ==
  /\ At(t, "put") /\ Put(th[t].region.pool, th[t].at) /\ Goto(t, "give")
  /\ UNCHANGED <<given, index, objects, splitMerge, cache, callers>>

GiveOnly(t) ==  \* faulty: what could not be freed is not added back
  LET a == th[t].at
      r == th[t].region
  IN /\ At(t, "give") /\ Done(t)
     /\ \/ given[a] = r /\ given' = Without(given, {a}) /\ UNCHANGED held
        \/ Hold(Only(a, r)) /\ UNCHANGED given
     /\ UNCHANGED <<handles, index, objects, splitMerge, cache, live, untracked, strays>>

\* The upstream provider refuses a size that is not the region's.
Give(t) ==
  LET a == th[t].at
      r == th[t].region
  IN /\ At(t, "give")
     /\ \/ /\ given[a] = r /\ given' = Without(given, {a}) /\ Done(t)
           /\ UNCHANGED <<held, untracked>>
        \/ /\ th[t].removed /\ ~r.opened
           /\ Become(t, [pc |-> "track", at |-> a, region |-> r])
           /\ UNCHANGED <<given, held, untracked>>
        \/ /\ ~(th[t].removed /\ ~r.opened)
           /\ Hold(Only(a, r)) /\ untracked' = untracked \cup {a} /\ Done(t)
           /\ UNCHANGED given
     /\ UNCHANGED <<handles, index, objects, splitMerge, cache, live, strays>>
-----------------------------------------------------------------------------
(* trackingAllocationSplit and trackingAllocationMerge.  A new value is     *)
(* made for the low part before splitMergeMutex is taken.                  *)

Reshape(t, op, a, b, regions, shaped) ==
  /\ Idle(t) /\ DOMAIN regions \subseteq DOMAIN held
  /\ \A x \in DOMAIN regions : Users(x) = {} /\ held[x] = regions[x] /\ ~held[x].opened
  /\ \E v \in spare :
       /\ value' = [value EXCEPT ![v] = [pool |-> shaped[a].pool, size |-> shaped[a].size]]
       /\ spare' = spare \ {v}
       /\ Become(t, [pc |-> "lock", op |-> op, at |-> a, high |-> b, new |-> v,
                     old |-> Null, before |-> regions, after |-> shaped])
  /\ Drop(DOMAIN regions)
  /\ UNCHANGED <<upstream, index, splitMerge, cache, live, untracked, strays>>

Split(t, a, first) ==
  LET r == held[a] IN
  /\ first < r.size
  /\ Reshape(t, "split", a, a + first, Only(a, r),
             Over(Only(a, [r EXCEPT !.size = first]),
                  Only(a + first, [r EXCEPT !.size = @ - first])))

Merge(t, a, b) ==
  LET r == held[a] IN
  /\ b = a + r.size /\ b \in DOMAIN held /\ r.pool = held[b].pool
  /\ Reshape(t, "merge", a, b, Over(Only(a, r), Only(b, held[b])),
             Only(a, [r EXCEPT !.size = @ + held[b].size]))

Lock(t) ==
  /\ At(t, "lock") /\ splitMerge = Null
  /\ splitMerge' = t /\ Goto(t, "compare")
  /\ UNCHANGED <<upstream, index, objects, cache, callers>>

\* What the tracker knows has to agree with what the caller says.  The value
\* found here is the one that is freed when it has been replaced.
Compare(t) ==
  LET a == th[t].at
      b == th[t].high
      agrees == IF th[t].op = "split" THEN Tracked(a) /\ SizeOf(a) = th[t].before[a].size
                ELSE /\ Tracked(a) /\ Tracked(b) /\ PoolOf(a) = PoolOf(b)
                     /\ SizeOf(a) + SizeOf(b) = th[t].after[a].size
  IN /\ At(t, "compare")
     /\ IF agrees THEN Become(t, [th[t] EXCEPT !.pc = "upstream", !.old = ValueAt(a)])
        ELSE Goto(t, "undo")
     /\ UNCHANGED <<upstream, index, objects, splitMerge, cache, callers>>

\* The upstream provider may refuse.
ShapeUpstream(t) ==
  /\ At(t, "upstream")
  /\ \/ /\ \A x \in DOMAIN th[t].before : given[x] = th[t].before[x]
        /\ given' = Over(th[t].after, Without(given, DOMAIN th[t].before))
        /\ Goto(t, IF th[t].op = "split" THEN "add" ELSE "update")
     \/ Goto(t, "undo") /\ UNCHANGED given
  /\ UNCHANGED <<handles, index, objects, splitMerge, cache, callers>>

\* A split whose high part cannot be added is undone in the tracker only.
AddHigh(t) ==
  LET b == th[t].high IN
  /\ At(t, "add")
  /\ \/ Add(b, th[t].after[b].pool, th[t].after[b].size) /\ Goto(t, "update")
     \/ CannotAdd(b) /\ Goto(t, "undo")
  /\ UNCHANGED <<upstream, splitMerge, cache, callers>>

\* critnib_insert with update, which needs memory for a leaf before it looks
\* for the key.  Nothing is done about its failure: the new value is lost, and
\* the old one is freed while it is in the map.  A value that is then freed
\* twice is spare once here: of the values nothing is claimed from there on.
Update(t) ==
  LET a == th[t].at IN
  /\ At(t, "update")
  /\ \/ SetMap(a, <<a, th[t].new>>) /\ UNCHANGED strays
     \/ strays' = strays \cup {a} /\ UNCHANGED index
  /\ Become(t, [pc |-> "retire", op |-> th[t].op, at |-> a, high |-> th[t].high,
                old |-> th[t].old, before |-> th[t].before, after |-> th[t].after])
  /\ UNCHANGED <<upstream, objects, splitMerge, cache, live, held, untracked>>

RetireNew(t) ==  \* faulty: the value that took its place is freed
  /\ At(t, "retire")
  /\ FreeValue(ValueAt(th[t].at))
  /\ Goto(t, IF th[t].op = "split" THEN "unlock" ELSE "remove")
  /\ UNCHANGED <<upstream, index, splitMerge, cache, callers>>

\* The value that was to be replaced is freed.
Retire(t) ==
  /\ At(t, "retire")
  /\ FreeValue(th[t].old)
  /\ Goto(t, IF th[t].op = "split" THEN "unlock" ELSE "remove")
  /\ UNCHANGED <<upstream, index, splitMerge, cache, callers>>

RemoveHigh(t) ==
  /\ At(t, "remove") /\ Forget(th[t].high) /\ Goto(t, "unlock")
  /\ UNCHANGED <<upstream, splitMerge, cache, callers>>

Unlock(t) ==
  /\ At(t, "unlock") /\ splitMerge' = Null
  /\ Hold(th[t].after) /\ Done(t)
  /\ untracked' = untracked \ {th[t].at, th[t].high}
  /\ UNCHANGED <<upstream, index, objects, cache, live, strays>>

UndoLeaking(t) ==  \* faulty: the value made for the operation is forgotten
  /\ At(t, "undo") /\ splitMerge' = Null
  /\ Hold(th[t].before) /\ Done(t)
  /\ UNCHANGED <<upstream, index, objects, cache, live, untracked, strays>>

\* The way out after an error.
Undo(t) ==
  /\ At(t, "undo") /\ splitMerge' = Null
  /\ FreeValue(th[t].new)
  /\ Hold(th[t].before) /\ Done(t)
  /\ UNCHANGED <<upstream, index, cache, live, untracked, strays>>
-----------------------------------------------------------------------------
(* umfMemoryTrackerGetAllocInfo, of a pointer into a region that is held.  *)

Ask(t, a, ptr) ==
  /\ Idle(t) /\ a \in DOMAIN held /\ ptr \in Bytes(a, held[a].size)
  /\ find' = [find EXCEPT ![t] = Index(t)!Opened(<<"le", ptr>>, map)]
  /\ Become(t, [pc |-> "find", at |-> a, ptr |-> ptr])
  /\ UNCHANGED <<upstream, map, objects, splitMerge, cache, callers>>

Answered(t, answer) ==
  Become(t, [pc |-> "answer", at |-> th[t].at, answer |-> answer])

Found(t) ==
  /\ At(t, "find")
  /\ \E e \in Index(t)!Answers(find[t]) :
       IF e = Null THEN Answered(t, Null)
       ELSE Become(t, [pc |-> "size", at |-> th[t].at, ptr |-> th[t].ptr, entry |-> e])
  /\ find' = [find EXCEPT ![t] = NoQuery]
  /\ UNCHANGED <<upstream, map, objects, splitMerge, cache, callers>>

ReadSize(t) ==
  LET e == th[t].entry IN
  /\ At(t, "size")
  /\ IF th[t].ptr >= e[1] + value[e[2]].size THEN Answered(t, Null) ELSE Goto(t, "read")
  /\ UNCHANGED <<upstream, index, objects, splitMerge, cache, callers>>

ReadInfo(t) ==
  LET e == th[t].entry IN
  /\ At(t, "read")
  /\ Answered(t, [base |-> e[1], pool |-> value[e[2]].pool, size |-> value[e[2]].size])
  /\ UNCHANGED <<upstream, index, objects, splitMerge, cache, callers>>

Return(t) ==
  /\ At(t, "answer") /\ Done(t)
  /\ UNCHANGED <<upstream, index, objects, splitMerge, cache, callers>>
-----------------------------------------------------------------------------
(* trackingGetIpcHandle.  trackingPutIpcHandle does nothing: a handle stays *)
(* in the cache until its region is freed.                                 *)

GetHandle(t, a) ==
  /\ Idle(t) /\ a \in DOMAIN held /\ ~held[a].opened
  /\ Become(t, [pc |-> "look", at |-> a])
  /\ UNCHANGED <<upstream, index, objects, splitMerge, cache, callers>>

Cached(t) == <<held[th[t].at].pool, th[t].at>>

Look(t) ==
  /\ At(t, "look")
  /\ IF Cached(t) \in cache THEN Done(t) ELSE Goto(t, "get")
  /\ UNCHANGED <<upstream, index, objects, splitMerge, cache, callers>>

GetUpstream(t) ==
  /\ At(t, "get")
  /\ \/ handles' = [handles EXCEPT ![Cached(t)] = @ + 1] /\ Goto(t, "insert")
     \/ Done(t) /\ UNCHANGED handles
  /\ UNCHANGED <<given, index, objects, splitMerge, cache, callers>>

InsertOver(t) ==  \* faulty: the handle another thread has cached is replaced
  /\ At(t, "insert")
  /\ cache' = cache \cup {Cached(t)} /\ Done(t)
  /\ UNCHANGED <<upstream, index, objects, splitMerge, callers>>

\* Another thread may have been first, or there is no memory.
Insert(t) ==
  /\ At(t, "insert")
  /\ \/ Cached(t) \notin cache /\ cache' = cache \cup {Cached(t)} /\ Done(t)
     \/ Cached(t) \in cache /\ Goto(t, "putAndLook") /\ UNCHANGED cache
     \/ Goto(t, "putAndFail") /\ UNCHANGED cache
  /\ UNCHANGED <<upstream, index, objects, splitMerge, callers>>

PutBack(t) ==
  /\ \/ At(t, "putAndLook") /\ Goto(t, "look")
     \/ At(t, "putAndFail") /\ Done(t)
  /\ Put(held[th[t].at].pool, th[t].at)
  /\ UNCHANGED <<given, index, objects, splitMerge, cache, callers>>
-----------------------------------------------------------------------------
(* trackingFinalize, when umfPoolDestroy destroys the pool: what is left of *)
(* the pool in the map is looked for from key to key.                      *)

Of(p, regions) == {a \in DOMAIN regions : regions[a].pool = p}

Seek(t, key) == find' = [find EXCEPT ![t] = Index(t)!Opened(<<"ge", key>>, map)]

Destroy(t, p) ==
  /\ Idle(t) /\ p \in live /\ Busy(p) = {}
  /\ live' = live \ {p}
  /\ Drop(Of(p, held)) /\ untracked' = untracked \ Of(p, held)
  /\ cache' = {c \in cache : c[1] # p}
  /\ Become(t, [pc |-> "seek", pool |-> p, overtaken |-> FALSE])
  /\ Seek(t, 1)
  /\ UNCHANGED <<upstream, map, objects, splitMerge, strays>>

NextKey(t) ==
  /\ At(t, "seek")
  /\ \E e \in Index(t)!Answers(find[t]) :
       Become(t, [pc |-> IF e = Null THEN "cleared" ELSE "match", pool |-> th[t].pool,
                  entry |-> e, overtaken |-> th[t].overtaken \/ Cardinality(find[t].exact) > 1])
  /\ find' = [find EXCEPT ![t] = NoQuery]
  /\ UNCHANGED <<upstream, map, objects, splitMerge, cache, callers>>

SeekOn(t) ==
  /\ Become(t, [pc |-> "seek", pool |-> th[t].pool, overtaken |-> th[t].overtaken])
  /\ Seek(t, th[t].entry[1] + 1)

\* The value may be another pool's, and freed by now.
Match(t) ==
  LET v == th[t].entry[2] IN
  /\ At(t, "match")
  /\ IF value[v].pool = th[t].pool
     THEN Goto(t, "drop") /\ UNCHANGED find
     ELSE SeekOn(t)
  /\ UNCHANGED <<upstream, map, objects, splitMerge, cache, callers>>

DropEntry(t) ==
  /\ At(t, "drop") /\ Forget(th[t].entry[1]) /\ Goto(t, "on")
  /\ UNCHANGED <<upstream, splitMerge, cache, callers>>

GoOn(t) ==
  /\ At(t, "on") /\ SeekOn(t)
  /\ UNCHANGED <<upstream, map, objects, splitMerge, cache, callers>>

\* The upstream provider goes too, with its regions and handles.
Destroyed(t) ==
  LET p == th[t].pool IN
  /\ At(t, "cleared") /\ Done(t)
  /\ given' = Without(given, Of(p, given))
  /\ handles' = [h \in DOMAIN handles |-> IF h[1] = p THEN 0 ELSE handles[h]]
  /\ strays' = strays \cup {a \in Addresses : Tracked(a) /\ PoolOf(a) = p}
  /\ UNCHANGED <<index, objects, splitMerge, cache, live, held, untracked>>

Create(p) ==
  /\ p \notin live /\ Busy(p) = {}
  /\ live' = live \cup {p}
  /\ UNCHANGED <<upstream, index, objects, splitMerge, cache, held, untracked, strays, th>>
-----------------------------------------------------------------------------
Next ==
  \/ \E t \in Threads :
       \/ \E p \in live : Destroy(t, p)
                          \/ \E n \in 1 .. MaxSize, o \in BOOLEAN : Alloc(t, p, n, o)
       \/ \E a \in DOMAIN held :
            \/ Free(t, a) \/ GetHandle(t, a)
            \/ \E first \in 1 .. MaxSize : Split(t, a, first)
            \/ \E b \in DOMAIN held : Merge(t, a, b)
            \/ \E ptr \in Bytes(a, held[a].size) : Ask(t, a, ptr)
       \/ Track(t) \/ Uncache(t) \/ PutCached(t) \/ Give(t)
       \/ Lock(t) \/ Compare(t) \/ ShapeUpstream(t) \/ AddHigh(t) \/ Update(t)
       \/ Retire(t) \/ RemoveHigh(t) \/ Unlock(t) \/ Undo(t)
       \/ Found(t) \/ ReadSize(t) \/ ReadInfo(t) \/ Return(t)
       \/ Look(t) \/ GetUpstream(t) \/ Insert(t) \/ PutBack(t)
       \/ NextKey(t) \/ Match(t) \/ DropEntry(t) \/ GoOn(t) \/ Destroyed(t)
  \/ \E p \in Pools : Create(p)

Spec == Init /\ [][Next]_vars
-----------------------------------------------------------------------------
TypeOK ==
  /\ \A a \in DOMAIN given : given[a] \in [pool : Pools, size : 1 .. Memory, opened : BOOLEAN]
  /\ \A a \in Addresses : map[a] \in {Null} \cup {a} \X Values
  /\ value \in [Values -> [pool : Pools \cup {Null}, size : 0 .. Memory]]
  /\ splitMerge \in Threads \cup {Null} /\ cache \subseteq Pools \X Addresses
  /\ \A h \in DOMAIN handles : handles[h] \in 0 .. Cardinality(Threads) + 1
  /\ untracked \subseteq Addresses /\ DOMAIN held \subseteq Addresses

\* Regions that are being split or merged, or left to a pool's destruction.
InTransit(a) ==
  \/ \E t \in Threads : "after" \in DOMAIN th[t] /\ a \in {th[t].at, th[t].high}
  \/ Tracked(a) /\ PoolOf(a) \notin live

\* The tracker agrees with the callers: a region that is held and that
\* trackingAlloc did not warn about is in the map with its pool and its size,
\* the map has nothing else, and a pool whose clear_tracker_for_the_pool was
\* never overtaken by a change of the map leaves nothing there.  The order of
\* trackingFree, the undoing of a failed free and the reuse of the values in a
\* split and a merge are what it rests on.  Once a pool has left an entry
\* behind nothing is sure: the region that is allocated there next can be
\* split by that entry while the pool, created and destroyed again, frees it.
\* Neither is it when the value of a split or merged region was not replaced.
TrackerIsExact ==
  /\ TypeOK
  /\ strays = {} =>
       /\ \A a \in DOMAIN held \ untracked :
            Tracked(a) /\ PoolOf(a) = held[a].pool /\ SizeOf(a) = held[a].size
       /\ \A a \in Addresses :
            Tracked(a) => a \in DOMAIN held \ untracked \/ InTransit(a)
       /\ \A t \in Threads : At(t, "cleared") /\ ~th[t].overtaken =>
            \A a \in Addresses : Tracked(a) => PoolOf(a) # th[t].pool

\* umfPoolByPtr is right about a pointer into a region that stays where it
\* is, whatever the other threads allocate, free, split and merge meanwhile:
\* the value umfMemoryTrackerGetAllocInfo reads after critnib_find has
\* returned is still the region's.
QueriesAreRight ==
  strays = {} => \A t \in Threads : At(t, "answer") =>
    LET a == th[t].at
        r == held[a]
    IN a \notin untracked =>
         th[t].answer = [base |-> a, pool |-> r.pool, size |-> r.size]

Hands(t) == {th[t][f] : f \in (DOMAIN th[t] \cap {"new"})
                                \cup (IF At(t, "retire") THEN {"old"} ELSE {})}

\* Every tracker_value_t has one owner: the base allocator, one entry of the
\* map, or one operation under way.  No path through a failed insert, split,
\* merge or free loses a value or frees it twice, with one exception: the
\* update of an entry for which critnib has no memory, after which the entry
\* has a value that is freed and its new one belongs to nobody.
ValuesOwned ==
  strays = {} => \A v \in Values :
    Cardinality({a \in Addresses : Tracked(a) /\ ValueAt(a) = v})
      + Cardinality({t \in Threads : v \in Hands(t)})
      + (IF v \in spare THEN 1 ELSE 0) = 1

\* Every IPC handle an upstream provider has given is either in the pool's
\* ipcCache, where trackingFree will find it, or about to go there or back,
\* however many threads ask for a handle of the region at the same time.
HandlesBalanced ==
  \A h \in DOMAIN handles : h[1] \in live =>
    handles[h] = (IF h \in cache THEN 1 ELSE 0)
      + Cardinality({t \in Threads :
          \/ At(t, "put") /\ h = <<th[t].region.pool, th[t].at>>
          \/ th[t].pc \in {"insert", "putAndLook", "putAndFail"} /\ h = Cached(t)})
=============================================================================
