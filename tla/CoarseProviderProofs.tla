------------------------ MODULE CoarseProviderProofs ------------------------
(* What is proved of the coarse provider for every size of the memory, every *)
(* set of requests and every number of regions and of failures: its blocks   *)
(* tile the upstream blocks, its free lists are exact, everything is given   *)
(* back, and it implements the abstract allocator.                           *)
EXTENDS CoarseProvider, FiniteSetTheorems, FunctionTheorems, SequenceTheorems,
        WellFoundedInduction, TLAPS

(***************************************************************************)
(* The inductive invariant                                                 *)
(***************************************************************************)
(* Ranges, given by a function from their first byte to their size, that lie *)
(* in the memory, are not empty and do not overlap.                          *)
Ranges(f) ==
  /\ f = [a \in DOMAIN f |-> f[a]]
  /\ DOMAIN f \subseteq Nat
  /\ \A a \in DOMAIN f : f[a] \in Nat /\ f[a] > 0 /\ a + f[a] <= Memory
  /\ \A a, b \in DOMAIN f : a < b => a + f[a] <= b

(* The bytes in them. *)
Cells(f) == UNION {Bytes(a, f[a]) : a \in DOMAIN f}

(* Block a of B lies in the upstream block o. *)
Lies(B, U, a, o) == o <= a /\ a + B[a].size <= o + U[o]

(* The blocks are ranges, each in one upstream block, and leave no byte out. *)
Tiles(B, U) ==
  /\ Ranges(U) /\ Ranges(Sizes(B, DOMAIN B))
  /\ \A a \in DOMAIN B : \E o \in DOMAIN U : Lies(B, U, a, o)
  /\ \A o \in DOMAIN U : \A x \in o .. o + U[o] - 1 : \E a \in DOMAIN B : x \in Bytes(a, B[a].size)

Shape(h) ==
  /\ h = [blocks |-> h.blocks, free |-> h.free]
  /\ h.blocks \in [DOMAIN h.blocks -> [size : Nat, used : BOOLEAN]]
  /\ h.free \in [DOMAIN h.free -> Seq(Nat)]
  /\ DOMAIN h.free \subseteq 1 .. Memory

Listed(h, a) == a \in ToSet(ListOf(h, h.blocks[a].size))

(* A free list has unused blocks of its size, each once. *)
Lists(h) ==
  \A n \in DOMAIN h.free :
    /\ IsInjective(h.free[n])
    /\ \A a \in ToSet(h.free[n]) :
         a \in DOMAIN h.blocks /\ h.blocks[a].size = n /\ ~ h.blocks[a].used

Sound(h, U) == Shape(h) /\ Tiles(h.blocks, U) /\ Lists(h)

(* Two blocks that could be merged. *)
Joins(B, U, a, b) ==
  /\ ~ B[a].used /\ ~ B[b].used
  /\ a + B[a].size = b
  /\ \E o \in DOMAIN U : Lies(B, U, a, o) /\ Lies(B, U, b, o)

(* With no failure: no head is empty, every unused block is listed but those *)
(* in X, and no two that are not in X could be merged.                       *)
Neat(h, U, X) ==
  /\ \A n \in DOMAIN h.free : h.free[n] # <<>>
  /\ \A a \in DOMAIN h.blocks \ X : h.blocks[a].used \/ Listed(h, a)
  /\ \A a, b \in DOMAIN h.blocks \ X : ~ Joins(h.blocks, U, a, b)

Divided(B, al) == \A a \in DOMAIN B : a % al = 0 /\ B[a].size % al = 0

(* The alignments that are looked for by size. *)
Tested(s) == {al \in Nat \ {0} : s # "FASTEST" /\ \E r \in Requests[s] : r[2] = al}

TypeInv ==
  /\ params \in [strategy : Strategies, source : Sources \cup {"none"}]
  /\ usedSize \in Int /\ allocSize \in Int /\ failures \in 0 .. MaxFailures

HeapInv == Sound(heap, upstreamBlocks)

(* What callers hold is used. *)
HeldInv ==
  /\ held = [a \in DOMAIN held |-> held[a]]
  /\ \A a \in DOMAIN held :
       a \in DOMAIN heap.blocks /\ heap.blocks[a].used /\ heap.blocks[a].size = held[a]

DownInv == ~ Up => heap = EmptyHeap /\ upstreamBlocks = Empty /\ held = Empty

CountInv ==
  /\ Up => /\ allocSize = Cardinality(Cells(upstreamBlocks))
           /\ usedSize = Cardinality(Cells(held))
  /\ ~ Up /\ failures = 0 => allocSize = 0 /\ usedSize = 0

(* The upstream provider knows the regions, and while nothing fails no others. *)
GivenInv ==
  /\ Ranges(given)
  /\ HasUpstream => \A o \in DOMAIN upstreamBlocks : o \in DOMAIN given /\ given[o] = upstreamBlocks[o]
  /\ failures = 0 /\ "free" \in traits =>
       given = IF HasUpstream THEN upstreamBlocks ELSE Empty

NeatInv ==
  failures = 0 =>
    /\ Neat(heap, upstreamBlocks, {})
    /\ \A a \in DOMAIN heap.blocks : heap.blocks[a].used => a \in DOMAIN held

DividedInv == \A al \in Tested(params.strategy) : Divided(heap.blocks, al)

IInv == TypeInv /\ HeapInv /\ HeldInv /\ DownInv /\ CountInv /\ GivenInv /\ NeatInv /\ DividedInv

(***************************************************************************)
(* Ranges and the bytes in them                                            *)
(***************************************************************************)
(* The bytes of ranges are bytes of the memory, and can be counted. *)
LEMMA CellsIn ==
  ASSUME NEW f, Ranges(f)
  PROVE  Cells(f) \subseteq 0 .. Memory - 1 /\ IsFiniteSet(Cells(f)) /\ Cardinality(Cells(f)) \in Nat
<1>1. Cells(f) \subseteq 0 .. Memory - 1
  <2> SUFFICES ASSUME NEW a \in DOMAIN f, NEW x \in Bytes(a, f[a])
               PROVE  x \in 0 .. Memory - 1
    BY DEF Cells
  <2>1. a \in Nat /\ f[a] \in Nat /\ a + f[a] <= Memory
    BY DEF Ranges
  <2> QED BY <2>1, CoarseAssumption DEF Bytes
<1>2. IsFiniteSet(0 .. Memory - 1)
  BY FS_Interval, CoarseAssumption
<1>3. IsFiniteSet(Cells(f))
  BY <1>1, <1>2, FS_Subset
<1> QED BY <1>1, <1>3, FS_CardinalityType

(* The range a byte is in is the only one. *)
LEMMA OneRange ==
  ASSUME NEW f, Ranges(f), NEW a \in DOMAIN f, NEW b \in DOMAIN f,
         NEW x \in Int, a <= x, x < a + f[a], b <= x, x < b + f[b]
  PROVE  a = b
BY DEF Ranges

(* The sum of the sizes of ranges counts their bytes. *)
LEMMA TotalIsCells ==
  ASSUME NEW f, Ranges(f)
  PROVE  Total(f) = Cardinality(Cells(f))
<1> DEFINE Units == UNION {{a} \X (1 .. f[a]) : a \in DOMAIN f}
           g == [p \in Units |-> p[1] + p[2] - 1]
<1>1. \A p \in Units : /\ p = <<p[1], p[2]>>
                       /\ p[1] \in DOMAIN f /\ p[1] \in Nat /\ f[p[1]] \in Nat
                       /\ p[2] \in Int /\ 1 <= p[2] /\ p[2] <= f[p[1]]
  <2> SUFFICES ASSUME NEW a \in DOMAIN f, NEW p \in {a} \X (1 .. f[a])
               PROVE  /\ p = <<p[1], p[2]>>
                      /\ p[1] \in DOMAIN f /\ p[1] \in Nat /\ f[p[1]] \in Nat
                      /\ p[2] \in Int /\ 1 <= p[2] /\ p[2] <= f[p[1]]
    OBVIOUS
  <2>1. a \in Nat /\ f[a] \in Nat
    BY DEF Ranges
  <2>2. p = <<p[1], p[2]>> /\ p[1] = a /\ p[2] \in 1 .. f[a]
    OBVIOUS
  <2> QED BY <2>1, <2>2
<1>2. g \in [Units -> Cells(f)]
  <2> SUFFICES ASSUME NEW p \in Units
               PROVE  p[1] + p[2] - 1 \in Bytes(p[1], f[p[1]]) /\ p[1] \in DOMAIN f
    BY DEF Cells
  <2> QED BY <1>1 DEF Bytes
<1>3. \A p, q \in Units : g[p] = g[q] => p = q
  <2> SUFFICES ASSUME NEW p \in Units, NEW q \in Units, p[1] + p[2] - 1 = q[1] + q[2] - 1
               PROVE  p = q
    OBVIOUS
  <2> DEFINE a == p[1]
             b == q[1]
             x == p[1] + p[2] - 1
  <2>0. /\ a \in Nat /\ f[a] \in Nat /\ p[2] \in Int /\ 1 <= p[2] /\ p[2] <= f[a]
        /\ b \in Nat /\ f[b] \in Nat /\ q[2] \in Int /\ 1 <= q[2] /\ q[2] <= f[b]
        /\ x = a + p[2] - 1 /\ x = b + q[2] - 1
    BY <1>1
  <2>1. a \in DOMAIN f /\ b \in DOMAIN f
    BY <1>1
  <2> HIDE DEF a, b, x
  <2>2. x \in Int /\ a <= x /\ x < a + f[a] /\ b <= x /\ x < b + f[b]
    BY <2>0
  <2>3. a = b
    BY <2>1, <2>2, OneRange
  <2>4. p[1] = q[1] /\ p[2] = q[2]
    BY <2>3, <2>0 DEF a, b
  <2> QED BY <2>4, <1>1
<1>4. \A x \in Cells(f) : \E p \in Units : g[p] = x
  <2> SUFFICES ASSUME NEW a \in DOMAIN f, NEW x \in Bytes(a, f[a])
               PROVE  \E p \in Units : p[1] + p[2] - 1 = x
    BY DEF Cells
  <2>1. a \in Nat /\ f[a] \in Nat /\ x \in Int /\ a <= x /\ x < a + f[a]
    BY DEF Ranges, Bytes
  <2>2. x - a + 1 \in 1 .. f[a]
    BY <2>1
  <2>3. <<a, x - a + 1>> \in {a} \X (1 .. f[a])
    BY <2>2
  <2>4. <<a, x - a + 1>> \in Units
    BY <2>3
  <2>5. a + (x - a + 1) - 1 = x
    BY <2>1
  <2> QED BY <2>4, <2>5
<1>5. g \in Bijection(Units, Cells(f))
  BY <1>2, <1>3, <1>4 DEF Bijection, Injection, Surjection, IsInjective
<1>6. IsFiniteSet(Cells(f))
  BY CellsIn
<1> HIDE DEF Units, g
<1>7. ExistsBijection(Units, Cells(f))
  BY <1>5 DEF ExistsBijection
<1>8. Cardinality(Units) = Cardinality(Cells(f))
  BY <1>6, <1>7, FS_Bijection, Fun_ExistsBijSymmetric
<1> QED BY <1>8 DEF Total, Units

(* Bytes a .. a + n - 1 added to those of f. *)
Gained(f, g, a, n) == Cells(g) = Cells(f) \cup Bytes(a, n) /\ Cells(f) \cap Bytes(a, n) = {}

(* Bytes that are gained are counted once. *)
LEMMA CellsAdd ==
  ASSUME NEW f, Ranges(f), NEW g, Ranges(g), NEW a \in Nat, NEW n \in Nat,
         Gained(f, g, a, n)
  PROVE  Cardinality(Cells(g)) = Cardinality(Cells(f)) + n
<1>1. IsFiniteSet(Cells(f)) /\ Cardinality(Cells(f)) \in Nat
  BY CellsIn
<1>2. IsFiniteSet(Bytes(a, n)) /\ Cardinality(Bytes(a, n)) = n
  <2>1. a \in Int /\ a + n - 1 \in Int /\ (a > a + n - 1 => n = 0) /\ (a + n - 1) - a + 1 = n
    OBVIOUS
  <2>2. /\ IsFiniteSet(a .. a + n - 1)
        /\ Cardinality(a .. a + n - 1) = IF a > a + n - 1 THEN 0 ELSE (a + n - 1) - a + 1
    BY <2>1, FS_Interval
  <2> QED BY <2>1, <2>2 DEF Bytes
<1>3. Cardinality(Cells(f) \cap Bytes(a, n)) = 0
  BY FS_EmptySet DEF Gained
<1>4. Cardinality(Cells(f) \cup Bytes(a, n))
        = Cardinality(Cells(f)) + Cardinality(Bytes(a, n)) - Cardinality(Cells(f) \cap Bytes(a, n))
  BY <1>1, <1>2, FS_Union
<1> QED BY <1>1, <1>2, <1>3, <1>4 DEF Gained

(* The bytes of f and of one range more. *)
LEMMA CellsExtend ==
  ASSUME NEW f, NEW a, NEW n, a \notin DOMAIN f
  PROVE  Cells(Extend(f, a, n)) = Cells(f) \cup Bytes(a, n)
BY DEF Cells, Extend

(* No ranges have no bytes. *)
LEMMA CellsOfNone ==
  Cells(Empty) = {} /\ Cardinality(Cells(Empty)) = 0 /\ Ranges(Empty)
<1>1. Cells(Empty) = {}
  BY DEF Cells, Empty
<1>2. Ranges(Empty)
  BY DEF Ranges, Empty
<1> QED BY <1>1, <1>2, FS_EmptySet

(* Ranges whose sizes are a function of blocks. *)
LEMMA SizesRanges ==
  ASSUME NEW B
  PROVE  Ranges(Sizes(B, DOMAIN B)) <=>
           /\ DOMAIN B \subseteq Nat
           /\ \A a \in DOMAIN B : B[a].size \in Nat /\ B[a].size > 0 /\ a + B[a].size <= Memory
           /\ \A a, b \in DOMAIN B : a < b => a + B[a].size <= b
BY DEF Ranges, Sizes

(* A range that lies apart from all others joins them. *)
LEMMA RangesExtend ==
  ASSUME NEW f, Ranges(f), NEW a \in Nat, NEW n \in Nat, n > 0, a + n <= Memory,
         Cells(f) \cap Bytes(a, n) = {}
  PROVE  /\ a \notin DOMAIN f /\ Ranges(Extend(f, a, n))
         /\ \A b \in DOMAIN f : b + f[b] <= a \/ a + n <= b
<1> DEFINE g == Extend(f, a, n)
<1>1. \A b \in DOMAIN f : b \in Nat /\ f[b] \in Nat /\ f[b] > 0 /\ b + f[b] <= Memory
  BY DEF Ranges
<1>2. ASSUME NEW b \in DOMAIN f
      PROVE  b # a /\ (b + f[b] <= a \/ a + n <= b)
  <2> DEFINE x == IF a <= b THEN b ELSE a
  <2>1. b \in Nat /\ f[b] \in Nat /\ f[b] > 0
    BY <1>1
  <2>2. SUFFICES ASSUME b = a \/ ~ (b + f[b] <= a \/ a + n <= b)
                 PROVE  FALSE
    OBVIOUS
  <2>3. x \in Bytes(b, f[b]) /\ x \in Bytes(a, n)
    BY <2>1, <2>2 DEF Bytes
  <2>4. x \in Cells(f)
    BY <2>3 DEF Cells
  <2> QED BY <2>3, <2>4
<1>3. a \notin DOMAIN f
  BY <1>2
<1>4. DOMAIN g = DOMAIN f \cup {a} /\ g[a] = n /\ \A b \in DOMAIN f : g[b] = f[b]
  BY <1>3 DEF Extend
<1>5. g = [b \in DOMAIN g |-> g[b]]
  BY DEF Extend
<1>6. DOMAIN g \subseteq Nat /\ \A b \in DOMAIN g : g[b] \in Nat /\ g[b] > 0 /\ b + g[b] <= Memory
  BY <1>1, <1>4
<1>7. \A b, c \in DOMAIN g : b < c => b + g[b] <= c
  <2> SUFFICES ASSUME NEW b \in DOMAIN g, NEW c \in DOMAIN g, b < c
               PROVE  b + g[b] <= c
    OBVIOUS
  <2>1. CASE b \in DOMAIN f /\ c \in DOMAIN f
    BY <2>1, <1>4 DEF Ranges
  <2>2. CASE b = a
    <3>1. c \in DOMAIN f /\ c \in Nat /\ f[c] \in Nat /\ f[c] > 0
      BY <2>2, <1>4, <1>1
    <3> QED BY <3>1, <2>2, <1>2, <1>4
  <2>3. CASE c = a
    <3>1. b \in DOMAIN f /\ b \in Nat /\ f[b] \in Nat /\ f[b] > 0
      BY <2>3, <1>4, <1>1
    <3> QED BY <3>1, <2>3, <1>2, <1>4
  <2> QED BY <2>1, <2>2, <2>3, <1>4
<1>8. Ranges(g)
  <2> HIDE DEF g
  <2> QED BY <1>5, <1>6, <1>7 DEF Ranges
<1> QED BY <1>2, <1>3, <1>8

(***************************************************************************)
(* Blocks and upstream blocks                                              *)
(***************************************************************************)
(* The sizes of the blocks are all that Tiles speaks of. *)
LEMMA TilesSame ==
  ASSUME NEW B, NEW C, NEW U, Tiles(B, U), DOMAIN C = DOMAIN B,
         \A a \in DOMAIN B : C[a].size = B[a].size
  PROVE  Tiles(C, U)
<1>1. Sizes(C, DOMAIN C) = Sizes(B, DOMAIN B)
  BY DEF Sizes
<1>2. Ranges(U) /\ Ranges(Sizes(C, DOMAIN C))
  BY <1>1 DEF Tiles
<1>3. \A a \in DOMAIN C : \E o \in DOMAIN U : Lies(C, U, a, o)
  BY DEF Tiles, Lies
<1>4. \A o \in DOMAIN U : \A x \in o .. o + U[o] - 1 : \E a \in DOMAIN C : x \in Bytes(a, C[a].size)
  BY DEF Tiles
<1> QED BY <1>2, <1>3, <1>4 DEF Tiles

(* What Tiles says of a block and of an upstream block, byte by byte. *)
LEMMA BlockFacts ==
  ASSUME NEW B, NEW U, Tiles(B, U)
  PROVE  /\ DOMAIN B \subseteq Nat /\ DOMAIN U \subseteq Nat
         /\ \A a \in DOMAIN B : B[a].size \in Nat /\ B[a].size > 0 /\ a + B[a].size <= Memory
         /\ \A a, b \in DOMAIN B : a < b => a + B[a].size <= b
         /\ \A o \in DOMAIN U : U[o] \in Nat /\ U[o] > 0 /\ o + U[o] <= Memory
         /\ \A o, p \in DOMAIN U : o < p => o + U[o] <= p
BY SizesRanges DEF Tiles, Ranges

(* A block is cut in two. *)
LEMMA CutTiles ==
  ASSUME NEW B, NEW U, Tiles(B, U), NEW a \in DOMAIN B, NEW k \in Nat, 0 < k, k < B[a].size,
         NEW C, DOMAIN C = DOMAIN B \cup {a + k}, C[a].size = k, C[a + k].size = B[a].size - k,
         \A b \in DOMAIN B \ {a} : C[b].size = B[b].size
  PROVE  Tiles(C, U) /\ a + k \notin DOMAIN B
<1>0. /\ DOMAIN B \subseteq Nat /\ DOMAIN U \subseteq Nat
      /\ \A b \in DOMAIN B : B[b].size \in Nat /\ B[b].size > 0 /\ b + B[b].size <= Memory
      /\ \A b, c \in DOMAIN B : b < c => b + B[b].size <= c
      /\ \A o \in DOMAIN U : U[o] \in Nat /\ U[o] > 0 /\ o + U[o] <= Memory
  BY BlockFacts
<1>1. a \in Nat /\ B[a].size \in Nat /\ Memory \in Nat
  BY <1>0, CoarseAssumption
<1>2. a + k \notin DOMAIN B
  BY <1>0, <1>1
<1>3. DOMAIN C \subseteq Nat
  BY <1>0, <1>1
<1>4. \A b \in DOMAIN C : C[b].size \in Nat /\ C[b].size > 0 /\ b + C[b].size <= Memory
  <2> TAKE b \in DOMAIN C
  <2>1. CASE b = a
    BY <2>1, <1>0, <1>1
  <2>2. CASE b = a + k
    BY <2>2, <1>0, <1>1
  <2>3. CASE b \in DOMAIN B \ {a}
    BY <2>3, <1>0
  <2> QED BY <2>1, <2>2, <2>3
<1>5. \A b, c \in DOMAIN C : b < c => b + C[b].size <= c
  <2> SUFFICES ASSUME NEW b \in DOMAIN C, NEW c \in DOMAIN C, b < c
               PROVE  b + C[b].size <= c
    OBVIOUS
  <2>0. b \in Nat /\ c \in Nat
    BY <1>3
  <2>1. CASE b = a
    <3>1. CASE c = a + k
      BY <2>1, <3>1, <1>1
    <3>2. CASE c \in DOMAIN B
      BY <2>1, <3>2, <1>0, <1>1, <2>0
    <3> QED BY <3>1, <3>2
  <2>2. CASE b = a + k
    <3>1. c \in DOMAIN B \ {a} /\ a < c
      BY <2>2, <1>1, <2>0
    <3> QED BY <3>1, <2>2, <1>0, <1>1, <2>0
  <2>3. CASE b \in DOMAIN B \ {a}
    <3>1. CASE c = a + k
      <4>1. a < b => FALSE
        BY <1>0, <1>1, <2>0, <2>3, <3>1
      <4>2. b < a
        BY <4>1, <2>3, <2>0, <1>1
      <4> QED BY <4>2, <3>1, <2>3, <1>0, <1>1, <2>0
    <3>2. CASE c \in DOMAIN B
      BY <2>3, <3>2, <1>0
    <3> QED BY <3>1, <3>2
  <2> QED BY <2>1, <2>2, <2>3
<1>6. Ranges(Sizes(C, DOMAIN C))
  BY <1>3, <1>4, <1>5, SizesRanges
<1>7. \A b \in DOMAIN C : \E o \in DOMAIN U : Lies(C, U, b, o)
  <2> TAKE b \in DOMAIN C
  <2>1. CASE b \in {a, a + k}
    <3>1. PICK o \in DOMAIN U : Lies(B, U, a, o)
      BY DEF Tiles
    <3>2. Lies(C, U, b, o)
      BY <3>1, <2>1, <1>0, <1>1 DEF Lies
    <3> QED BY <3>2
  <2>2. CASE b \in DOMAIN B \ {a}
    BY <2>2 DEF Tiles, Lies
  <2> QED BY <2>1, <2>2
<1>8. \A o \in DOMAIN U : \A x \in o .. o + U[o] - 1 : \E b \in DOMAIN C : x \in Bytes(b, C[b].size)
  <2> SUFFICES ASSUME NEW o \in DOMAIN U, NEW x \in o .. o + U[o] - 1
               PROVE  \E b \in DOMAIN C : x \in Bytes(b, C[b].size)
    OBVIOUS
  <2>1. PICK b \in DOMAIN B : x \in Bytes(b, B[b].size)
    BY DEF Tiles
  <2>2. CASE b = a
    <3>1. x \in Bytes(a, C[a].size) \/ x \in Bytes(a + k, C[a + k].size)
      BY <2>1, <2>2, <1>1 DEF Bytes
    <3> QED BY <3>1
  <2>3. CASE b # a
    BY <2>1, <2>3
  <2> QED BY <2>2, <2>3
<1> QED BY <1>2, <1>6, <1>7, <1>8 DEF Tiles

(* Two blocks become one. *)
LEMMA JoinTiles ==
  ASSUME NEW B, NEW U, Tiles(B, U), NEW a \in DOMAIN B, NEW b \in DOMAIN B, a + B[a].size = b,
         NEW o \in DOMAIN U, Lies(B, U, a, o), Lies(B, U, b, o),
         NEW C, DOMAIN C = DOMAIN B \ {b}, C[a].size = B[a].size + B[b].size,
         \A c \in DOMAIN C \ {a} : C[c].size = B[c].size
  PROVE  Tiles(C, U) /\ a \in DOMAIN C /\ Lies(C, U, a, o)
<1>0. /\ DOMAIN B \subseteq Nat /\ DOMAIN U \subseteq Nat
      /\ \A c \in DOMAIN B : B[c].size \in Nat /\ B[c].size > 0 /\ c + B[c].size <= Memory
      /\ \A c, d \in DOMAIN B : c < d => c + B[c].size <= d
      /\ \A p \in DOMAIN U : U[p] \in Nat /\ U[p] > 0 /\ p + U[p] <= Memory
  BY BlockFacts
<1>1. /\ a \in Nat /\ b \in Nat /\ o \in Nat /\ U[o] \in Nat /\ Memory \in Nat
      /\ B[a].size \in Nat /\ B[b].size \in Nat /\ B[a].size > 0 /\ B[b].size > 0 /\ a < b
      /\ o <= a /\ b + B[b].size <= o + U[o] /\ o + U[o] <= Memory
  BY <1>0, CoarseAssumption DEF Lies
<1>2. a \in DOMAIN C /\ Lies(C, U, a, o)
  BY <1>1 DEF Lies
<1>3. DOMAIN C \subseteq Nat
  BY <1>0
<1>4. \A c \in DOMAIN C : C[c].size \in Nat /\ C[c].size > 0 /\ c + C[c].size <= Memory
  <2> TAKE c \in DOMAIN C
  <2>1. CASE c = a
    BY <2>1, <1>1
  <2>2. CASE c # a
    BY <2>2, <1>0
  <2> QED BY <2>1, <2>2
<1>5. \A c, d \in DOMAIN C : c < d => c + C[c].size <= d
  <2> SUFFICES ASSUME NEW c \in DOMAIN C, NEW d \in DOMAIN C, c < d
               PROVE  c + C[c].size <= d
    OBVIOUS
  <2>0. c \in DOMAIN B /\ d \in DOMAIN B /\ c \in Nat /\ d \in Nat /\ d # b
    BY <1>3
  <2>1. CASE c # a
    BY <2>1, <2>0, <1>0
  <2>2. CASE c = a
    <3>1. b <= d
      BY <2>2, <2>0, <1>0, <1>1
    <3>2. b < d
      BY <3>1, <2>0, <1>1
    <3>3. b + B[b].size <= d
      BY <3>2, <2>0, <1>0
    <3> QED BY <3>3, <2>2, <1>1, <2>0
  <2> QED BY <2>1, <2>2
<1>6. Ranges(Sizes(C, DOMAIN C))
  BY <1>3, <1>4, <1>5, SizesRanges
<1>7. \A c \in DOMAIN C : \E p \in DOMAIN U : Lies(C, U, c, p)
  <2> TAKE c \in DOMAIN C
  <2>1. CASE c = a
    BY <2>1, <1>2
  <2>2. CASE c # a
    BY <2>2 DEF Tiles, Lies
  <2> QED BY <2>1, <2>2
<1>8. \A p \in DOMAIN U : \A x \in p .. p + U[p] - 1 : \E c \in DOMAIN C : x \in Bytes(c, C[c].size)
  <2> SUFFICES ASSUME NEW p \in DOMAIN U, NEW x \in p .. p + U[p] - 1
               PROVE  \E c \in DOMAIN C : x \in Bytes(c, C[c].size)
    OBVIOUS
  <2>1. PICK c \in DOMAIN B : x \in Bytes(c, B[c].size)
    BY DEF Tiles
  <2>2. CASE c \in {a, b}
    <3>1. x \in Bytes(a, C[a].size)
      BY <2>1, <2>2, <1>1 DEF Bytes
    <3> QED BY <3>1, <1>2
  <2>3. CASE c \notin {a, b}
    BY <2>1, <2>3
  <2> QED BY <2>2, <2>3
<1> QED BY <1>2, <1>6, <1>7, <1>8 DEF Tiles

(* A block lies in the upstream block with the largest address up to its own. *)
LEMMA OriginIs ==
  ASSUME NEW B, NEW U, Tiles(B, U), NEW a \in DOMAIN B, NEW o \in DOMAIN U, Lies(B, U, a, o)
  PROVE  Max({x \in DOMAIN U : x <= a}) = o
<1> DEFINE S == {x \in DOMAIN U : x <= a}
<1>0. /\ a \in Nat /\ B[a].size \in Nat /\ B[a].size > 0
      /\ DOMAIN U \subseteq Nat /\ \A p \in DOMAIN U : U[p] \in Nat
      /\ \A p, q \in DOMAIN U : p < q => p + U[p] <= q
  BY BlockFacts
<1>1. o \in S
  BY DEF Lies
<1>2. \A x \in S : x <= o
  <2> TAKE x \in S
  <2>1. SUFFICES ASSUME o < x PROVE FALSE
    BY <1>0
  <2>2. o + U[o] <= x
    BY <2>1, <1>0
  <2> QED BY <2>2, <1>0 DEF Lies
<1>3. \A x \in S : (\A y \in S : x >= y) => x = o
  BY <1>1, <1>2, <1>0
<1>4. \A y \in S : o >= y
  BY <1>2, <1>0
<1> HIDE DEF S
<1>5. Max(S) = o
  BY <1>1, <1>3, <1>4 DEF Max
<1> QED BY <1>5 DEF S

(* The code's search for the upstream block finds the one that both lie in. *)
LEMMA SameOriginIs ==
  ASSUME NEW h, NEW U, Tiles(h.blocks, U), NEW a \in DOMAIN h.blocks, NEW b \in DOMAIN h.blocks
  PROVE  SameOrigin(U, h, a, b) <=>
           \E o \in DOMAIN U : Lies(h.blocks, U, a, o) /\ Lies(h.blocks, U, b, o)
<1>1. PICK o \in DOMAIN U : Lies(h.blocks, U, a, o)
  BY DEF Tiles
<1>2. \A p \in DOMAIN U : Lies(h.blocks, U, a, p) => Max({x \in DOMAIN U : x <= a}) = p
  BY OriginIs
<1>3. Max({x \in DOMAIN U : x <= a}) = o
  BY <1>1, <1>2
<1>4. SameOrigin(U, h, a, b) <=> (b >= o /\ b + h.blocks[b].size <= o + U[o])
  BY <1>3 DEF SameOrigin
<1>5. SameOrigin(U, h, a, b) <=> Lies(h.blocks, U, b, o)
  <2>1. b \in Nat /\ o \in Nat
    BY BlockFacts
  <2> QED BY <2>1, <1>4 DEF Lies
<1> QED BY <1>1, <1>2, <1>5

(* The code merges unused blocks just when they could be merged. *)
LEMMA MergeableIs ==
  ASSUME NEW h, NEW U, Tiles(h.blocks, U), NEW a \in DOMAIN h.blocks, NEW b \in DOMAIN h.blocks,
         h.blocks[a].used \in BOOLEAN, h.blocks[b].used \in BOOLEAN
  PROVE  Mergeable(U, h, a, b, FALSE) <=> Joins(h.blocks, U, a, b)
BY SameOriginIs DEF Mergeable, Joins

(***************************************************************************)
(* A new region                                                            *)
(***************************************************************************)
(* A range r that takes in bytes a .. a + n - 1 and the ranges that touch them. *)
Covering(f, r, a, n) ==
  /\ r.at \in Nat /\ r.size \in Nat /\ r.at <= a /\ a + n <= r.at + r.size
  /\ r.at + r.size <= Memory
  /\ Bytes(r.at, r.size) \subseteq Cells(f) \cup Bytes(a, n)
  /\ \A o \in DOMAIN f :
       \/ r.at <= o /\ o + f[o] <= r.at + r.size /\ (o + f[o] = a \/ o = a + n)
       \/ o + f[o] <= r.at
       \/ r.at + r.size <= o

(* The ranges that stay beside it. *)
Beside(f, r) == {o \in DOMAIN f : o + f[o] <= r.at \/ r.at + r.size <= o}

(* What f becomes when r replaces what it takes in. *)
Grew(f, g, r, a, n) ==
  /\ Ranges(g) /\ Cells(g) = Cells(f) \cup Bytes(a, n)
  /\ DOMAIN g = Beside(f, r) \cup {r.at} /\ r.at \notin Beside(f, r)
  /\ g[r.at] = r.size /\ \A o \in Beside(f, r) : g[o] = f[o]

(* The range that a region becomes replaces what it takes in. *)
LEMMA PutCovering ==
  ASSUME NEW f, Ranges(f), NEW a \in Nat, NEW n \in Nat, n > 0, NEW r, Covering(f, r, a, n)
  PROVE  Grew(f, Put(f, r), r, a, n)
<1> DEFINE g == Put(f, r)
           S == Beside(f, r)
<1>0. /\ r.at \in Nat /\ r.size \in Nat /\ r.size > 0 /\ r.at + r.size <= Memory
      /\ r.at <= a /\ a + n <= r.at + r.size
      /\ \A o \in DOMAIN f : o \in Nat /\ f[o] \in Nat /\ f[o] > 0 /\ o + f[o] <= Memory
      /\ \A o, p \in DOMAIN f : o < p => o + f[o] <= p
  BY DEF Covering, Ranges
<1>1. \A o \in DOMAIN f : o \in Bytes(r.at, r.size) <=> o \notin S
  <2> TAKE o \in DOMAIN f
  <2>1. \/ r.at <= o /\ o + f[o] <= r.at + r.size
        \/ o + f[o] <= r.at
        \/ r.at + r.size <= o
    BY DEF Covering
  <2> QED BY <2>1, <1>0 DEF Bytes, Beside
<1>2. r.at \notin S
  BY <1>0 DEF Beside
<1>3. /\ DOMAIN g = S \cup {r.at} /\ g[r.at] = r.size /\ \A o \in S : g[o] = f[o]
      /\ g = [o \in DOMAIN g |-> g[o]]
  BY <1>1, <1>2 DEF Put, Extend, Beside
<1> HIDE DEF g
<1>3a. \A o \in S : o \in DOMAIN f /\ (o + f[o] <= r.at \/ r.at + r.size <= o)
  BY DEF Beside
<1>4. \A o \in DOMAIN g : o \in Nat /\ g[o] \in Nat /\ g[o] > 0 /\ o + g[o] <= Memory
  BY <1>3, <1>3a, <1>0
<1>5. \A o, p \in DOMAIN g : o < p => o + g[o] <= p
  <2> SUFFICES ASSUME NEW o \in DOMAIN g, NEW p \in DOMAIN g, o < p
               PROVE  o + g[o] <= p
    OBVIOUS
  <2>1. CASE o \in S /\ p \in S
    BY <2>1, <1>0, <1>3, <1>3a
  <2>2. CASE o = r.at /\ p \in S
    BY <2>2, <1>0, <1>3, <1>3a
  <2>3. CASE o \in S /\ p = r.at
    BY <2>3, <1>0, <1>3, <1>3a
  <2>4. CASE o = r.at /\ p = r.at
    BY <2>4, <1>0
  <2> QED BY <2>1, <2>2, <2>3, <2>4, <1>3
<1>6. Ranges(g)
  BY <1>3, <1>4, <1>5 DEF Ranges
<1>7. Cells(g) \subseteq Cells(f) \cup Bytes(a, n)
  <2> SUFFICES ASSUME NEW o \in DOMAIN g, NEW x \in Bytes(o, g[o])
               PROVE  x \in Cells(f) \cup Bytes(a, n)
    BY DEF Cells
  <2>1. CASE o = r.at
    BY <2>1, <1>3 DEF Covering
  <2>2. CASE o \in S
    BY <2>2, <1>3, <1>3a DEF Cells
  <2> QED BY <2>1, <2>2, <1>3
<1>8. Bytes(a, n) \subseteq Cells(g)
  <2>1. Bytes(a, n) \subseteq Bytes(r.at, r.size)
    BY <1>0 DEF Bytes
  <2> QED BY <2>1, <1>3 DEF Cells
<1>9. Cells(f) \subseteq Cells(g)
  <2> SUFFICES ASSUME NEW o \in DOMAIN f, NEW x \in Bytes(o, f[o])
               PROVE  x \in Cells(g)
    BY DEF Cells
  <2>1. CASE o \in S
    BY <2>1, <1>3 DEF Cells
  <2>2. CASE o \notin S
    <3>1. r.at <= o /\ o + f[o] <= r.at + r.size
      BY <2>2 DEF Covering, Beside
    <3>2. x \in Bytes(r.at, r.size)
      BY <3>1, <1>0 DEF Bytes
    <3> QED BY <3>2, <1>3 DEF Cells
  <2> QED BY <2>1, <2>2
<1> QED BY <1>2, <1>3, <1>6, <1>7, <1>8, <1>9 DEF g, Grew

(* The least of one number, *)
LEMMA MinOfOne ==
  ASSUME NEW x \in Int
  PROVE  Min({x}) = x
BY DEF Min

(* and of two. *)
LEMMA MinOfTwo ==
  ASSUME NEW x \in Int, NEW y \in Int, x < y
  PROVE  Min({x} \cup {y}) = x
BY DEF Min

(* What a region grows to covers it, among the upstream blocks and among any *)
(* ranges that have these.                                                   *)
LEMMA GrownCovering ==
  ASSUME Ranges(upstreamBlocks), NEW f, Ranges(f),
         \A o \in DOMAIN upstreamBlocks : o \in DOMAIN f /\ f[o] = upstreamBlocks[o],
         NEW a \in Nat, NEW n \in Nat, n > 0, a + n <= Memory,
         Cells(f) \cap Bytes(a, n) = {}
  PROVE  Covering(f, Grown(a, n), a, n)
<1> DEFINE U == upstreamBlocks
           prev == {x \in DOMAIN U : "merge" \in traits /\ x + U[x] = a}
           next == {x \in DOMAIN U : "merge" \in traits /\ a + n = x}
           start == Min(prev \cup {a})
           size == a + n - start + IF next = {} THEN 0 ELSE U[a + n]
<1>0. /\ \A b \in DOMAIN f : b \in Nat /\ f[b] \in Nat /\ f[b] > 0 /\ b + f[b] <= Memory
      /\ \A b, c \in DOMAIN f : b < c => b + f[b] <= c
      /\ \A b \in DOMAIN f : b # a /\ (b + f[b] <= a \/ a + n <= b)
  <2>1. a \notin DOMAIN f /\ \A b \in DOMAIN f : b + f[b] <= a \/ a + n <= b
    BY RangesExtend
  <2> QED BY <2>1 DEF Ranges
<1>1. Grown(a, n) = [at |-> start, size |-> size]
  BY DEF Grown
<1>2. \/ start = a
      \/ start \in DOMAIN f /\ start + f[start] = a /\ prev = {start}
  <2>1. CASE prev = {}
    <3>1. prev \cup {a} = {a}
      BY <2>1
    <3> QED BY <3>1, MinOfOne
  <2>2. CASE prev # {}
    <3>1. PICK x : x \in prev
      BY <2>2
    <3>2. x \in DOMAIN f /\ x \in Nat /\ f[x] \in Nat /\ f[x] > 0 /\ x + f[x] = a
      BY <3>1, <1>0
    <3>3. \A y \in prev : y = x
      <4> TAKE y \in prev
      <4>1. y \in DOMAIN f /\ y \in Nat /\ f[y] \in Nat /\ f[y] > 0 /\ y + f[y] = a
        BY <1>0
      <4> QED BY <4>1, <3>2, <1>0
    <3>4. prev = {x}
      BY <3>1, <3>3
    <3>5. start = x
      <4> HIDE DEF prev
      <4>1. x \in Int /\ a \in Int /\ x < a
        BY <3>2
      <4>2. Min({x} \cup {a}) = x
        BY <4>1, MinOfTwo
      <4> QED BY <3>4, <4>2
    <3> QED BY <3>2, <3>4, <3>5
  <2> QED BY <2>1, <2>2
<1>3. \/ next = {} /\ size = a + n - start + 0
      \/ a + n \in DOMAIN f /\ size = a + n - start + f[a + n]
  <2>1. CASE next = {}
    BY <2>1
  <2>2. CASE next # {}
    <3>1. a + n \in DOMAIN U
      BY <2>2
    <3> QED BY <3>1, <2>2
  <2> QED BY <2>1, <2>2
<1> DEFINE end == start + size
<1>4. /\ start \in Nat /\ start <= a
      /\ start = a \/ (start \in DOMAIN f /\ start + f[start] = a)
      /\ end = a + n \/ (a + n \in DOMAIN f /\ end = a + n + f[a + n])
      /\ size \in Nat /\ end \in Nat /\ a + n <= end /\ end <= Memory
  <2> HIDE DEF start, size, prev, next, U
  <2>1. start \in Nat /\ start <= a /\ (start = a \/ (start \in DOMAIN f /\ start + f[start] = a))
    BY <1>2, <1>0
  <2>2. CASE size = a + n - start + 0
    <3>1. size = a + n - start
      BY <2>1, <2>2
    <3> QED BY <2>1, <3>1
  <2>3. CASE a + n \in DOMAIN f /\ size = a + n - start + f[a + n]
    <3>1. f[a + n] \in Nat /\ a + n + f[a + n] <= Memory
      BY <2>3, <1>0
    <3>2. end = a + n + f[a + n]
      BY <2>1, <2>3, <3>1
    <3>3. size \in Nat /\ end \in Nat
      BY <2>1, <2>3, <3>1
    <3> QED BY <2>1, <2>3, <3>1, <3>2, <3>3
  <2> QED BY <2>2, <2>3, <1>3
<1>5. Bytes(start, size) \subseteq Cells(f) \cup Bytes(a, n)
  <2> HIDE DEF start, size
  <2> SUFFICES ASSUME NEW x \in Bytes(start, size)
               PROVE  x \in Cells(f) \cup Bytes(a, n)
    OBVIOUS
  <2>1. x \in Int /\ start <= x /\ x < end
    BY <1>4 DEF Bytes
  <2>2. CASE a <= x /\ x < a + n
    BY <2>1, <2>2 DEF Bytes
  <2>3. CASE x < a
    <3>1. start \in DOMAIN f /\ start + f[start] = a
      BY <2>1, <2>3, <1>4
    <3>2. x \in Bytes(start, f[start])
      BY <3>1, <2>1, <2>3, <1>0, <1>4 DEF Bytes
    <3> QED BY <3>1, <3>2 DEF Cells
  <2>4. CASE a + n <= x
    <3>1. a + n \in DOMAIN f /\ end = a + n + f[a + n]
      BY <2>1, <2>4, <1>4
    <3>2. x \in Bytes(a + n, f[a + n])
      BY <3>1, <2>1, <2>4, <1>0, <1>4 DEF Bytes
    <3> QED BY <3>1, <3>2 DEF Cells
  <2> QED BY <2>1, <2>2, <2>3, <2>4
<1>6. ASSUME NEW o \in DOMAIN f
      PROVE  \/ start <= o /\ o + f[o] <= end /\ (o + f[o] = a \/ o = a + n)
             \/ o + f[o] <= start
             \/ end <= o
  <2> HIDE DEF start, size, end, prev, next, U
  <2>0. o \in Nat /\ f[o] \in Nat /\ f[o] > 0 /\ o # a /\ (o + f[o] <= a \/ a + n <= o)
    BY <1>0
  <2>1. CASE o + f[o] <= a
    <3>1. CASE start = a
      BY <3>1, <2>1
    <3>2. CASE start \in DOMAIN f /\ start + f[start] = a
      <4>1. CASE o = start
        <5>1. o + f[o] <= end
          BY <2>1, <2>0, <1>4
        <5> QED BY <4>1, <3>2, <5>1, <2>0
      <4>2. CASE o # start
        <5>1. start < o => FALSE
          BY <3>2, <2>0, <2>1, <1>0
        <5>2. o < start
          BY <5>1, <4>2, <2>0, <1>4
        <5> QED BY <5>2, <3>2, <1>0
      <4> QED BY <4>1, <4>2
    <3> QED BY <3>1, <3>2, <1>4
  <2>2. CASE a + n <= o
    <3>1. CASE end = a + n
      BY <3>1, <2>2
    <3>2. CASE a + n \in DOMAIN f /\ end = a + n + f[a + n]
      <4>1. CASE o = a + n
        <5>1. start <= o
          BY <2>2, <2>0, <1>4
        <5> QED BY <4>1, <3>2, <5>1
      <4>2. CASE o # a + n
        <5>1. a + n < o
          BY <4>2, <2>2, <2>0
        <5> QED BY <5>1, <3>2, <1>0
      <4> QED BY <4>1, <4>2
    <3> QED BY <3>1, <3>2, <1>4
  <2> QED BY <2>0, <2>1, <2>2
<1> HIDE DEF start, size, prev, next, U
<1>7. end = start + size /\ Grown(a, n).at = start /\ Grown(a, n).size = size
  BY <1>1
<1> QED BY <1>4, <1>5, <1>6, <1>7 DEF Covering

(* The region becomes a block. *)
Adopted(B, U, C, V, a) ==
  /\ a \notin DOMAIN B
  /\ Tiles(C, V)
  /\ \A b, c \in DOMAIN B : Joins(C, V, b, c) => Joins(B, U, b, c)

(* A region added to the upstream blocks, and as a block of its own. *)
LEMMA GrowTiles ==
  ASSUME NEW B, NEW U, Tiles(B, U), NEW a \in Nat, NEW n \in Nat, n > 0, a + n <= Memory,
         Cells(U) \cap Bytes(a, n) = {}, NEW r, Covering(U, r, a, n),
         NEW C, DOMAIN C = DOMAIN B \cup {a}, C[a].size = n,
         \A b \in DOMAIN B : b # a => C[b] = B[b]
  PROVE  Adopted(B, U, C, Put(U, r), a)
<1> DEFINE V == Put(U, r)
           S == Beside(U, r)
           f == Sizes(B, DOMAIN B)
<1>0. /\ DOMAIN B \subseteq Nat /\ DOMAIN U \subseteq Nat
      /\ \A c \in DOMAIN B : B[c].size \in Nat /\ B[c].size > 0 /\ c + B[c].size <= Memory
      /\ \A c, d \in DOMAIN B : c < d => c + B[c].size <= d
      /\ \A p \in DOMAIN U : U[p] \in Nat /\ U[p] > 0 /\ p + U[p] <= Memory
      /\ \A o, p \in DOMAIN U : o < p => o + U[o] <= p
      /\ Ranges(U) /\ Ranges(f)
  BY BlockFacts DEF Tiles
<1>1. /\ Ranges(V) /\ DOMAIN V = S \cup {r.at} /\ r.at \notin S /\ V[r.at] = r.size
      /\ \A o \in S : V[o] = U[o]
      /\ Cells(V) = Cells(U) \cup Bytes(a, n)
  <2> HIDE DEF V, S
  <2>1. Ranges(U)
    BY <1>0
  <2>2. Grew(U, Put(U, r), r, a, n)
    BY <2>1, PutCovering
  <2> QED BY <2>2 DEF Grew, V, S
<1>2. /\ r.at \in Nat /\ r.size \in Nat /\ r.at <= a /\ a + n <= r.at + r.size
      /\ \A o \in DOMAIN U : o \notin S => /\ r.at <= o /\ o + U[o] <= r.at + r.size
                                           /\ o + U[o] = a \/ o = a + n
  BY DEF Covering, Beside
<1> HIDE DEF V, S
<1>3. Cells(f) \subseteq Cells(U)
  <2> SUFFICES ASSUME NEW b \in DOMAIN B, NEW x \in Bytes(b, B[b].size)
               PROVE  x \in Cells(U)
    BY DEF Cells, Sizes
  <2>1. PICK o \in DOMAIN U : Lies(B, U, b, o)
    BY DEF Tiles
  <2>2. x \in Bytes(o, U[o])
    BY <2>1, <1>0 DEF Lies, Bytes
  <2> QED BY <2>2 DEF Cells
<1>4. a \notin DOMAIN f /\ Ranges(Extend(f, a, n))
  BY <1>0, <1>3, RangesExtend
<1>5. a \notin DOMAIN B
  BY <1>4 DEF Sizes
<1>6. Sizes(C, DOMAIN C) = Extend(f, a, n)
  BY <1>5 DEF Sizes, Extend
<1>7. \A b \in DOMAIN B : C[b] = B[b]
  BY <1>5
<1>8. \A b \in DOMAIN C : \E o \in DOMAIN V : Lies(C, V, b, o)
  <2> TAKE b \in DOMAIN C
  <2>1. CASE b = a
    BY <2>1, <1>1, <1>2 DEF Lies
  <2>2. CASE b \in DOMAIN B
    <3>1. PICK o \in DOMAIN U : Lies(B, U, b, o)
      BY <2>2 DEF Tiles
    <3>2. CASE o \in S
      BY <3>1, <3>2, <1>1, <1>7, <2>2 DEF Lies
    <3>3. CASE o \notin S
      <4>1. r.at <= o /\ o + U[o] <= r.at + r.size
        BY <3>3, <1>2
      <4>2. Lies(C, V, b, r.at)
        BY <3>1, <4>1, <1>0, <1>1, <1>2, <1>7, <2>2 DEF Lies
      <4> QED BY <4>2, <1>1
    <3> QED BY <3>2, <3>3
  <2> QED BY <2>1, <2>2
<1>9. \A o \in DOMAIN V : \A x \in o .. o + V[o] - 1 : \E b \in DOMAIN C : x \in Bytes(b, C[b].size)
  <2> SUFFICES ASSUME NEW o \in DOMAIN V, NEW x \in o .. o + V[o] - 1
               PROVE  \E b \in DOMAIN C : x \in Bytes(b, C[b].size)
    OBVIOUS
  <2>1. x \in Cells(V)
    BY DEF Cells, Bytes
  <2>2. CASE x \in Bytes(a, n)
    BY <2>2
  <2>3. CASE x \in Cells(U)
    <3>1. PICK p \in DOMAIN U : x \in Bytes(p, U[p])
      BY <2>3 DEF Cells
    <3>2. PICK b \in DOMAIN B : x \in Bytes(b, B[b].size)
      BY <3>1 DEF Tiles, Bytes
    <3> QED BY <3>2, <1>7
  <2> QED BY <2>1, <2>2, <2>3, <1>1
<1>10. Tiles(C, V)
  BY <1>1, <1>4, <1>6, <1>8, <1>9 DEF Tiles
<1>11. ASSUME NEW b \in DOMAIN B, NEW c \in DOMAIN B, Joins(C, V, b, c)
       PROVE  Joins(B, U, b, c)
  <2>1. ~ B[b].used /\ ~ B[c].used /\ b + B[b].size = c
    BY <1>7, <1>11 DEF Joins
  <2>2. PICK p \in DOMAIN V : Lies(C, V, b, p) /\ Lies(C, V, c, p)
    BY <1>11 DEF Joins
  <2>3. PICK o1 \in DOMAIN U : Lies(B, U, b, o1)
    BY DEF Tiles
  <2>4. PICK o2 \in DOMAIN U : Lies(B, U, c, o2)
    BY DEF Tiles
  <2>5. b \in Nat /\ c \in Nat /\ B[b].size \in Nat /\ B[c].size \in Nat
        /\ B[b].size > 0 /\ B[c].size > 0
    BY <1>0
  <2>6. CASE p \in S
    <3>1. p \in DOMAIN U /\ V[p] = U[p]
      BY <2>6, <1>1 DEF S, Beside
    <3>2. Lies(B, U, b, p) /\ Lies(B, U, c, p)
      BY <3>1, <2>2, <1>7 DEF Lies
    <3> QED BY <2>1, <3>1, <3>2 DEF Joins
  <2>7. CASE p = r.at
    <3>1. o1 = o2
      <4>1. SUFFICES ASSUME o1 # o2 PROVE FALSE
        OBVIOUS
      <4>2. /\ o1 \in Nat /\ o2 \in Nat /\ U[o1] \in Nat /\ U[o2] \in Nat
            /\ o1 <= b /\ b + B[b].size <= o1 + U[o1]
            /\ o2 <= c /\ c + B[c].size <= o2 + U[o2]
        BY <2>3, <2>4, <1>0 DEF Lies
      <4>3. o1 < o2
        <5>1. SUFFICES ASSUME o2 < o1 PROVE FALSE
          BY <4>1, <4>2
        <5>2. o2 + U[o2] <= o1
          BY <5>1, <1>0
        <5> QED BY <5>2, <4>2, <2>1, <2>5
      <4>4. o1 + U[o1] <= o2
        BY <4>3, <1>0
      <4>5. o1 + U[o1] = c /\ o2 = c
        BY <4>4, <4>2, <2>1, <2>5
      <4>6. r.at <= b /\ c + B[c].size <= r.at + r.size
        BY <2>2, <2>7, <1>1, <1>7 DEF Lies
      <4>7. o1 \notin S /\ o2 \notin S
        BY <4>5, <4>6, <4>2, <2>1, <2>5, <1>2 DEF S, Beside
      <4>8. (o1 + U[o1] = a \/ o1 = a + n) /\ (o2 + U[o2] = a \/ o2 = a + n)
        BY <4>7, <1>2
      <4>9. a # c
        BY <1>5
      <4> QED BY <4>8, <4>9, <4>5, <4>2, <2>1, <2>5
    <3> QED BY <3>1, <2>1, <2>3, <2>4 DEF Joins
  <2> QED BY <2>2, <2>6, <2>7, <1>1
<1> QED BY <1>5, <1>10, <1>11 DEF V, Adopted

(***************************************************************************)
(* Sequences                                                               *)
(***************************************************************************)
(* What is left of a list when an element is taken out, *)
LEMMA RemoveAtIs ==
  ASSUME NEW S, NEW s \in Seq(S), NEW i \in 1 .. Len(s)
  PROVE  /\ RemoveAt(s, i) \in Seq(S) /\ Len(RemoveAt(s, i)) = Len(s) - 1
         /\ \A j \in 1 .. Len(s) - 1 : RemoveAt(s, i)[j] = IF j < i THEN s[j] ELSE s[j + 1]
<1> DEFINE p == SubSeq(s, 1, i - 1)
           q == SubSeq(s, i + 1, Len(s))
<1>0. Len(s) \in Nat /\ i \in Nat /\ 1 <= i /\ i <= Len(s)
  OBVIOUS
<1>1. p \in Seq(S) /\ Len(p) = i - 1 /\ \A j \in 1 .. i - 1 : p[j] = s[j]
  <2>1. CASE i = 1
    <3>1. p \in Seq(S) /\ Len(p) = 0
      BY <2>1, SubSeqProperties
    <3> QED BY <3>1, <2>1
  <2>2. CASE i > 1
    <3>1. \A j \in 1 .. i - 1 : j \in 1 .. Len(s)
      BY <1>0
    <3> QED BY <2>2, <3>1, <1>0, SubSeqProperties
  <2> QED BY <2>1, <2>2, <1>0
<1>2. q \in Seq(S) /\ Len(q) = Len(s) - i /\ \A j \in 1 .. Len(s) - i : q[j] = s[i + j]
  <2>1. CASE i = Len(s)
    <3>1. q \in Seq(S) /\ Len(q) = 0
      BY <2>1, <1>0, SubSeqProperties
    <3> QED BY <3>1, <2>1
  <2>2. CASE i < Len(s)
    <3>1. \A j \in i + 1 .. Len(s) : j \in 1 .. Len(s)
      BY <1>0
    <3>2. i + 1 \in 1 .. Len(s) + 1 /\ Len(s) \in i .. Len(s)
      BY <1>0
    <3>3. q \in Seq(S) /\ Len(q) = Len(s) - i /\ \A j \in 1 .. Len(s) - (i + 1) + 1 : q[j] = s[(i + 1) + j - 1]
      BY <2>2, <3>1, <3>2, <1>0, SubSeqProperties
    <3>4. \A j \in 1 .. Len(s) - i : (i + 1) + j - 1 = i + j
      BY <1>0
    <3> QED BY <3>3, <3>4, <1>0
  <2> QED BY <2>1, <2>2, <1>0
<1>3. RemoveAt(s, i) = p \o q
  BY DEF RemoveAt
<1> HIDE DEF p, q
<1>4. /\ p \o q \in Seq(S) /\ Len(p \o q) = Len(p) + Len(q)
      /\ \A j \in 1 .. Len(p) + Len(q) : (p \o q)[j] = IF j <= Len(p) THEN p[j] ELSE q[j - Len(p)]
  BY <1>1, <1>2, ConcatProperties
<1> DEFINE r == p \o q
<1>5. r \in Seq(S) /\ Len(r) = Len(s) - 1
  BY <1>0, <1>1, <1>2, <1>4
<1>6. /\ \A j \in 1 .. i - 1 : r[j] = p[j]
      /\ \A j \in i .. Len(s) - 1 : r[j] = q[j - (i - 1)]
  BY <1>0, <1>1, <1>2, <1>4
<1> HIDE DEF r
<1>7. ASSUME NEW j \in 1 .. Len(s) - 1
      PROVE  r[j] = IF j < i THEN s[j] ELSE s[j + 1]
  <2>1. CASE j < i
    <3>1. j \in 1 .. i - 1
      BY <2>1, <1>0
    <3> QED BY <2>1, <3>1, <1>1, <1>6
  <2>2. CASE ~ (j < i)
    <3>1. j \in i .. Len(s) - 1 /\ j - (i - 1) \in 1 .. Len(s) - i /\ i + (j - (i - 1)) = j + 1
      BY <2>2, <1>0
    <3>2. q[j - (i - 1)] = s[i + (j - (i - 1))]
      BY <3>1, <1>2
    <3>3. r[j] = s[j + 1]
      BY <3>1, <3>2, <1>6
    <3> QED BY <2>2, <3>3
  <2> QED BY <2>1, <2>2
<1> QED BY <1>3, <1>5, <1>7 DEF r

(* which is all but that element; *)
LEMMA RemoveAtSet ==
  ASSUME NEW S, NEW s \in Seq(S), IsInjective(s), NEW i \in 1 .. Len(s)
  PROVE  /\ IsInjective(RemoveAt(s, i))
         /\ ToSet(RemoveAt(s, i)) = ToSet(s) \ {s[i]}
         /\ RemoveAt(s, i) \in Seq(S)
<1> DEFINE t == RemoveAt(s, i)
<1>0. Len(s) \in Nat /\ i \in Nat /\ 1 <= i /\ i <= Len(s) /\ DOMAIN s = 1 .. Len(s)
  OBVIOUS
<1>1. /\ t \in Seq(S) /\ Len(t) = Len(s) - 1
      /\ \A j \in 1 .. Len(s) - 1 : t[j] = IF j < i THEN s[j] ELSE s[j + 1]
  BY RemoveAtIs
<1> HIDE DEF t
<1>2. DOMAIN t = 1 .. Len(s) - 1
  BY <1>1
<1>3. \A j, k \in DOMAIN s : s[j] = s[k] => j = k
  BY DEF IsInjective
<1>4. IsInjective(t)
  <2> SUFFICES ASSUME NEW j \in 1 .. Len(s) - 1, NEW k \in 1 .. Len(s) - 1, t[j] = t[k]
               PROVE  j = k
    BY <1>2 DEF IsInjective
  <2> DEFINE x == IF j < i THEN j ELSE j + 1
             y == IF k < i THEN k ELSE k + 1
  <2>1. t[j] = s[x] /\ t[k] = s[y] /\ x \in 1 .. Len(s) /\ y \in 1 .. Len(s)
    BY <1>0, <1>1
  <2>2. x = y
    BY <2>1, <1>0, <1>3
  <2> QED BY <2>2, <1>0
<1>5. ToSet(t) = ToSet(s) \ {s[i]}
  <2>1. ASSUME NEW j \in DOMAIN t
        PROVE  t[j] \in ToSet(s) \ {s[i]}
    <3> DEFINE x == IF j < i THEN j ELSE j + 1
    <3>1. t[j] = s[x] /\ x \in DOMAIN s /\ x # i
      BY <1>0, <1>1, <1>2
    <3>2. s[x] # s[i]
      BY <3>1, <1>0, <1>3
    <3> QED BY <3>1, <3>2 DEF ToSet
  <2>2. ASSUME NEW x \in DOMAIN s, s[x] # s[i]
        PROVE  \E j \in DOMAIN t : t[j] = s[x]
    <3>1. x # i /\ x \in 1 .. Len(s)
      BY <2>2, <1>0
    <3>2. CASE x < i
      <4>1. x \in 1 .. Len(s) - 1
        BY <3>1, <3>2, <1>0
      <4> QED BY <4>1, <3>2, <1>1, <1>2
    <3>3. CASE i < x
      <4>1. x - 1 \in 1 .. Len(s) - 1 /\ ~ (x - 1 < i) /\ (x - 1) + 1 = x
        BY <3>1, <3>3, <1>0
      <4>2. t[x - 1] = s[x]
        BY <4>1, <1>1
      <4> QED BY <4>1, <4>2, <1>2
    <3> QED BY <3>1, <3>2, <3>3, <1>0
  <2> QED BY <2>1, <2>2 DEF ToSet
<1> QED BY <1>1, <1>4, <1>5 DEF t

(* and a list with a new first element. *)
LEMMA ConsSet ==
  ASSUME NEW S, NEW s \in Seq(S), IsInjective(s), NEW a \in S, a \notin ToSet(s)
  PROVE  /\ <<a>> \o s \in Seq(S) /\ IsInjective(<<a>> \o s)
         /\ ToSet(<<a>> \o s) = ToSet(s) \cup {a} /\ <<a>> \o s # <<>>
<1> DEFINE t == <<a>> \o s
<1>0. /\ Len(s) \in Nat /\ DOMAIN s = 1 .. Len(s)
      /\ \A j, k \in DOMAIN s : s[j] = s[k] => j = k
      /\ \A j \in DOMAIN s : s[j] # a
  BY DEF IsInjective, ToSet
<1>1. /\ t \in Seq(S) /\ Len(t) = Len(s) + 1 /\ t[1] = a
      /\ \A j \in 1 .. Len(s) : t[j + 1] = s[j]
  <2>1. <<a>> \in Seq(S) /\ Len(<<a>>) = 1 /\ <<a>>[1] = a
    OBVIOUS
  <2> HIDE DEF t
  <2>2. t \in Seq(S) /\ Len(t) = 1 + Len(s)
    BY <2>1 DEF t
  <2>3. t[1] = a
    BY <2>1 DEF t
  <2>4. \A j \in 1 .. Len(s) : t[j + 1] = s[j]
    BY <2>1 DEF t
  <2> QED BY <2>2, <2>3, <2>4, <1>0
<1> HIDE DEF t
<1>2. DOMAIN t = 1 .. Len(s) + 1
  BY <1>1
<1>3. \A x \in DOMAIN t : x = 1 \/ (x - 1 \in DOMAIN s /\ t[x] = s[x - 1])
  <2> TAKE x \in DOMAIN t
  <2>1. CASE x # 1
    <3>1. x - 1 \in 1 .. Len(s) /\ (x - 1) + 1 = x
      BY <2>1, <1>0, <1>2
    <3> QED BY <3>1, <1>0, <1>1
  <2> QED BY <2>1
<1>4. IsInjective(t)
  <2> SUFFICES ASSUME NEW x \in DOMAIN t, NEW y \in DOMAIN t, t[x] = t[y]
               PROVE  x = y
    BY DEF IsInjective
  <2>0. x \in Int /\ y \in Int
    BY <1>2
  <2>1. CASE x = 1 /\ y = 1
    BY <2>1
  <2>2. CASE x = 1 /\ y # 1
    BY <2>2, <1>0, <1>1, <1>3
  <2>3. CASE x # 1 /\ y = 1
    BY <2>3, <1>0, <1>1, <1>3
  <2>4. CASE x # 1 /\ y # 1
    <3>1. x - 1 = y - 1
      BY <2>4, <1>0, <1>3
    <3> QED BY <3>1, <2>0
  <2> QED BY <2>1, <2>2, <2>3, <2>4
<1>5. ToSet(t) = ToSet(s) \cup {a}
  <2>1. \A x \in DOMAIN t : t[x] \in ToSet(s) \cup {a}
    BY <1>1, <1>3 DEF ToSet
  <2>2. \A j \in DOMAIN s : j + 1 \in DOMAIN t /\ t[j + 1] = s[j]
    BY <1>0, <1>1, <1>2
  <2>3. 1 \in DOMAIN t
    BY <1>0, <1>2
  <2> QED BY <2>1, <2>2, <2>3, <1>1 DEF ToSet
<1>6. t # <<>>
  BY <1>0, <1>1
<1> QED BY <1>1, <1>4, <1>5, <1>6 DEF t

(***************************************************************************)
(* The lists of free blocks                                                *)
(***************************************************************************)
Fine(h) == Shape(h) /\ Lists(h)

ListedSet(h) == {a \in DOMAIN h.blocks : Listed(h, a)}

(* No head is empty. *)
Full(h) == \A n \in DOMAIN h.free : h.free[n] # <<>>

(* A heap with blocks C of which those in L are listed. *)
Now(k, C, L) == Fine(k) /\ k.blocks = C /\ ListedSet(k) = L

KeepsFull(h, k) == Full(h) => Full(k)

BlockFunctions(C) == C \in [DOMAIN C -> [size : Nat, used : BOOLEAN]]

(* The list of a size is one without repetitions, of unused blocks. *)
LEMMA ListOfIs ==
  ASSUME NEW h, Fine(h), NEW n
  PROVE  /\ ListOf(h, n) \in Seq(Nat) /\ IsInjective(ListOf(h, n))
         /\ \A a \in ToSet(ListOf(h, n)) :
              a \in DOMAIN h.blocks /\ h.blocks[a].size = n /\ ~ h.blocks[a].used
<1>1. CASE n \in DOMAIN h.free
  BY <1>1 DEF Fine, Shape, Lists, ListOf
<1>2. CASE n \notin DOMAIN h.free
  <2>1. ListOf(h, n) = <<>>
    BY <1>2 DEF ListOf
  <2>2. ToSet(<<>>) = {} /\ IsInjective(<<>>) /\ <<>> \in Seq(Nat)
    BY DEF ToSet, IsInjective
  <2> QED BY <2>1, <2>2
<1> QED BY <1>1, <1>2

(* What is in a list is listed, in the list of its size. *)
LEMMA ListedIs ==
  ASSUME NEW h, Fine(h), NEW n, NEW a \in ToSet(ListOf(h, n))
  PROVE  a \in ListedSet(h)
<1>1. a \in DOMAIN h.blocks /\ h.blocks[a].size = n
  BY ListOfIs
<1> QED BY <1>1 DEF ListedSet, Listed

(* A listed block is unused. *)
LEMMA ListedUnused ==
  ASSUME NEW h, Fine(h), NEW a \in ListedSet(h)
  PROVE  a \in DOMAIN h.blocks /\ ~ h.blocks[a].used
<1>1. a \in ToSet(ListOf(h, h.blocks[a].size))
  BY DEF ListedSet, Listed
<1> QED BY <1>1, ListOfIs

(* Other blocks, when those that are listed stay. *)
LEMMA BlocksChange ==
  ASSUME NEW h, Fine(h), NEW C, BlockFunctions(C),
         \A a \in ListedSet(h) : a \in DOMAIN C /\ C[a] = h.blocks[a]
  PROVE  /\ Now([h EXCEPT !.blocks = C], C, ListedSet(h))
         /\ KeepsFull(h, [h EXCEPT !.blocks = C])
<1> DEFINE k == [h EXCEPT !.blocks = C]
<1>1. k = [blocks |-> C, free |-> h.free]
  BY DEF Fine, Shape
<1>2. k.blocks = C /\ k.free = h.free /\ k = [blocks |-> k.blocks, free |-> k.free]
  BY <1>1
<1> HIDE DEF k
<1>3. Shape(k)
  BY <1>2 DEF Fine, Shape, BlockFunctions
<1>4. \A n : ListOf(k, n) = ListOf(h, n)
  BY <1>2 DEF ListOf
<1>5. Lists(k)
  <2> SUFFICES ASSUME NEW n \in DOMAIN h.free
               PROVE  /\ IsInjective(h.free[n])
                      /\ \A a \in ToSet(h.free[n]) : a \in DOMAIN C /\ C[a].size = n /\ ~ C[a].used
    BY <1>2 DEF Lists
  <2>1. IsInjective(h.free[n])
    BY DEF Fine, Lists
  <2>2. ASSUME NEW a \in ToSet(h.free[n])
        PROVE  a \in DOMAIN C /\ C[a].size = n /\ ~ C[a].used
    <3>1. h.free[n] = ListOf(h, n)
      BY DEF ListOf
    <3>2. a \in ListedSet(h) /\ h.blocks[a].size = n /\ ~ h.blocks[a].used
      BY <2>2, <3>1, ListedIs, ListOfIs
    <3> QED BY <3>2
  <2> QED BY <2>1, <2>2
<1>6. Fine(k)
  BY <1>3, <1>5 DEF Fine
<1>7. ListedSet(k) = ListedSet(h)
  <2>1. ASSUME NEW a \in ListedSet(h)
        PROVE  a \in ListedSet(k)
    BY <2>1, <1>2, <1>4 DEF ListedSet, Listed
  <2>2. ASSUME NEW a \in ListedSet(k)
        PROVE  a \in ListedSet(h)
    <3>1. a \in ToSet(ListOf(h, k.blocks[a].size))
      BY <2>2, <1>4 DEF ListedSet, Listed
    <3> QED BY <3>1, ListedIs
  <2> QED BY <2>1, <2>2
<1>8. KeepsFull(h, k)
  BY <1>2 DEF KeepsFull, Full
<1> QED BY <1>2, <1>6, <1>7, <1>8 DEF k, Now

(* Another list of one size. *)
Relisted(h, k, n, s) ==
  /\ Now(k, h.blocks, (ListedSet(h) \ ToSet(ListOf(h, n))) \cup ToSet(s))
  /\ s # <<>> => KeepsFull(h, k)
  /\ k.free[n] = s /\ DOMAIN k.free = DOMAIN h.free \cup {n}
  /\ \A m \in DOMAIN h.free \ {n} : k.free[m] = h.free[m]

(* A list of unused blocks of a size may replace that of the size. *)
LEMMA ListChange ==
  ASSUME NEW h, Fine(h), NEW n \in 1 .. Memory, NEW s \in Seq(Nat), IsInjective(s),
         \A a \in ToSet(s) : a \in DOMAIN h.blocks /\ h.blocks[a].size = n /\ ~ h.blocks[a].used
  PROVE  Relisted(h, WithList(h, n, s), n, s)
<1> DEFINE k == WithList(h, n, s)
           F == Extend(h.free, n, s)
<1>1. k = [blocks |-> h.blocks, free |-> F]
  BY DEF Fine, Shape, WithList
<1>2. k.blocks = h.blocks /\ k.free = F /\ k = [blocks |-> k.blocks, free |-> k.free]
  BY <1>1
<1>3. /\ DOMAIN F = DOMAIN h.free \cup {n} /\ F[n] = s
      /\ \A m \in DOMAIN h.free \ {n} : F[m] = h.free[m]
      /\ F = [m \in DOMAIN F |-> F[m]]
  BY DEF Extend
<1> HIDE DEF k, F
<1>4. DOMAIN F \subseteq 1 .. Memory /\ F \in [DOMAIN F -> Seq(Nat)]
  <2>1. \A m \in DOMAIN h.free : m \in 1 .. Memory /\ h.free[m] \in Seq(Nat)
    BY DEF Fine, Shape
  <2> QED BY <2>1, <1>3
<1>5. Shape(k)
  BY <1>2, <1>4 DEF Fine, Shape
<1>6. ListOf(k, n) = s /\ \A m : m # n => ListOf(k, m) = ListOf(h, m)
  BY <1>2, <1>3 DEF ListOf
<1>7. Lists(k)
  <2> SUFFICES ASSUME NEW m \in DOMAIN F
               PROVE  /\ IsInjective(F[m])
                      /\ \A a \in ToSet(F[m]) : a \in DOMAIN h.blocks /\ h.blocks[a].size = m /\ ~ h.blocks[a].used
    BY <1>2 DEF Lists
  <2>1. CASE m = n
    BY <2>1, <1>3
  <2>2. CASE m # n
    <3>1. m \in DOMAIN h.free /\ F[m] = h.free[m]
      BY <2>2, <1>3
    <3> QED BY <3>1 DEF Fine, Lists
  <2> QED BY <2>1, <2>2
<1>8. Fine(k)
  BY <1>5, <1>7 DEF Fine
<1>9. ListedSet(k) = (ListedSet(h) \ ToSet(ListOf(h, n))) \cup ToSet(s)
  <2>1. ASSUME NEW a \in DOMAIN h.blocks
        PROVE  a \in ListedSet(k) <=> a \in (ListedSet(h) \ ToSet(ListOf(h, n))) \cup ToSet(s)
    <3> DEFINE m == h.blocks[a].size
    <3>1. CASE m = n
      <4>1. a \in ListedSet(k) <=> a \in ToSet(s)
        BY <3>1, <1>2, <1>6 DEF ListedSet, Listed
      <4>2. a \in ListedSet(h) <=> a \in ToSet(ListOf(h, n))
        BY <3>1 DEF ListedSet, Listed
      <4> QED BY <4>1, <4>2
    <3>2. CASE m # n
      <4>1. a \in ListedSet(k) <=> a \in ListedSet(h)
        BY <3>2, <1>2, <1>6 DEF ListedSet, Listed
      <4>2. a \notin ToSet(s) /\ a \notin ToSet(ListOf(h, n))
        BY <3>2, ListOfIs
      <4> QED BY <4>1, <4>2
    <3> QED BY <3>1, <3>2
  <2>2. ListedSet(k) \subseteq DOMAIN h.blocks /\ ListedSet(h) \subseteq DOMAIN h.blocks
        /\ ToSet(s) \subseteq DOMAIN h.blocks
    BY <1>2 DEF ListedSet
  <2> QED BY <2>1, <2>2
<1>10. ASSUME s # <<>>
       PROVE  KeepsFull(h, k)
  <2>1. ASSUME Full(h), NEW m \in DOMAIN F
        PROVE  F[m] # <<>>
    BY <2>1, <1>3, <1>10 DEF Full
  <2> QED BY <2>1, <1>2 DEF KeepsFull, Full
<1> QED BY <1>2, <1>3, <1>8, <1>9, <1>10 DEF k, Now, Relisted

(* A head that is dropped when it is empty. *)
LEMMA DropEmptyHeadIs ==
  ASSUME NEW h, Fine(h), NEW n \in DOMAIN h.free
  PROVE  /\ Now(DropEmptyHead(h, n), h.blocks, ListedSet(h))
         /\ KeepsFull(h, DropEmptyHead(h, n))
         /\ (\A m \in DOMAIN h.free \ {n} : h.free[m] # <<>>) => Full(DropEmptyHead(h, n))
<1> DEFINE k == DropEmptyHead(h, n)
<1>1. CASE h.free[n] # <<>>
  <2>1. k = h
    BY <1>1 DEF DropEmptyHead
  <2> QED BY <2>1, <1>1 DEF Now, KeepsFull, Full
<1>2. CASE h.free[n] = <<>>
  <2> DEFINE F == Without(h.free, n)
  <2>1. k = [blocks |-> h.blocks, free |-> F]
    BY <1>2 DEF DropEmptyHead, Fine, Shape
  <2>2. k.blocks = h.blocks /\ k.free = F /\ k = [blocks |-> k.blocks, free |-> k.free]
    BY <2>1
  <2>3. /\ DOMAIN F = DOMAIN h.free \ {n} /\ \A m \in DOMAIN F : F[m] = h.free[m]
        /\ F = [m \in DOMAIN F |-> F[m]]
    BY DEF Without
  <2> HIDE DEF k, F
  <2>4. DOMAIN F \subseteq 1 .. Memory /\ F \in [DOMAIN F -> Seq(Nat)]
    <3>1. \A m \in DOMAIN h.free : m \in 1 .. Memory /\ h.free[m] \in Seq(Nat)
      BY DEF Fine, Shape
    <3> QED BY <3>1, <2>3
  <2>5. Shape(k)
    BY <2>2, <2>4 DEF Fine, Shape
  <2>6. \A m : ListOf(k, m) = ListOf(h, m)
    BY <2>2, <2>3, <1>2 DEF ListOf
  <2>7. Lists(k)
    BY <2>2, <2>3 DEF Lists, Fine
  <2>8. ListedSet(k) = ListedSet(h)
    BY <2>2, <2>6 DEF ListedSet, Listed
  <2>9. KeepsFull(h, k) /\ ((\A m \in DOMAIN h.free \ {n} : h.free[m] # <<>>) => Full(k))
    BY <2>2, <2>3 DEF KeepsFull, Full
  <2> QED BY <2>2, <2>5, <2>7, <2>8, <2>9 DEF k, Now, Fine
<1> QED BY <1>1, <1>2

(* A block is taken out of its list, if it is in one. *)
LEMMA UnlistIs ==
  ASSUME NEW h, Fine(h), NEW a \in DOMAIN h.blocks
  PROVE  /\ Now(Unlist(h, a), h.blocks, ListedSet(h) \ {a})
         /\ KeepsFull(h, Unlist(h, a))
<1> DEFINE n == h.blocks[a].size
           list == ListOf(h, n)
           elem == CHOOSE i \in DOMAIN list : list[i] = a
           cut == RemoveAt(list, elem)
           w == WithList(h, n, cut)
<1>1. CASE a \notin ToSet(list)
  <2>1. Unlist(h, a) = h
    BY <1>1 DEF Unlist
  <2>2. a \notin ListedSet(h)
    BY <1>1 DEF ListedSet, Listed
  <2> QED BY <2>1, <2>2 DEF Now, KeepsFull
<1>2. CASE a \in ToSet(list)
  <2>1. Unlist(h, a) = DropEmptyHead(w, n)
    BY <1>2 DEF Unlist
  <2>2. list \in Seq(Nat) /\ IsInjective(list)
        /\ \A b \in ToSet(list) : b \in DOMAIN h.blocks /\ h.blocks[b].size = n /\ ~ h.blocks[b].used
    BY ListOfIs
  <2>3. elem \in DOMAIN list /\ list[elem] = a
    <3>1. \E i \in DOMAIN list : list[i] = a
      BY <1>2 DEF ToSet
    <3> HIDE DEF list
    <3> QED BY <3>1
  <2>4. n \in DOMAIN h.free /\ n \in 1 .. Memory
    <3>1. CASE n \notin DOMAIN h.free
      <4>1. list = <<>>
        BY <3>1 DEF ListOf
      <4>2. ToSet(<<>>) = {}
        BY DEF ToSet
      <4> QED BY <4>1, <4>2, <1>2
    <3> QED BY <3>1 DEF Fine, Shape
  <2> HIDE DEF list, elem, n
  <2>5. elem \in 1 .. Len(list)
    BY <2>2, <2>3
  <2>6. IsInjective(cut) /\ ToSet(cut) = ToSet(list) \ {a} /\ cut \in Seq(Nat)
    BY <2>2, <2>3, <2>5, RemoveAtSet
  <2> HIDE DEF cut
  <2>7. \A b \in ToSet(cut) : b \in DOMAIN h.blocks /\ h.blocks[b].size = n /\ ~ h.blocks[b].used
    BY <2>2, <2>6
  <2>8. /\ Now(w, h.blocks, (ListedSet(h) \ ToSet(list)) \cup ToSet(cut))
        /\ w.free[n] = cut /\ n \in DOMAIN w.free
        /\ \A m \in DOMAIN h.free \ {n} : w.free[m] = h.free[m]
        /\ DOMAIN w.free = DOMAIN h.free \cup {n}
    <3>1. Relisted(h, w, n, cut)
      BY <2>4, <2>6, <2>7, ListChange
    <3> QED BY <3>1 DEF Relisted, list
  <2>9. ToSet(list) \subseteq ListedSet(h)
    BY ListedIs DEF list
  <2>10. (ListedSet(h) \ ToSet(list)) \cup ToSet(cut) = ListedSet(h) \ {a}
    BY <2>6, <2>9, <1>2
  <2> HIDE DEF w
  <2>11. Fine(w) /\ w.blocks = h.blocks /\ ListedSet(w) = ListedSet(h) \ {a}
    BY <2>8, <2>10 DEF Now
  <2>12. /\ Now(DropEmptyHead(w, n), w.blocks, ListedSet(w))
         /\ (\A m \in DOMAIN w.free \ {n} : w.free[m] # <<>>) => Full(DropEmptyHead(w, n))
    BY <2>8, <2>11, DropEmptyHeadIs
  <2>13. KeepsFull(h, DropEmptyHead(w, n))
    <3>1. ASSUME Full(h)
          PROVE  Full(DropEmptyHead(w, n))
      <4>1. \A m \in DOMAIN w.free \ {n} : w.free[m] # <<>>
        BY <3>1, <2>8 DEF Full
      <4> QED BY <4>1, <2>12
    <3> QED BY <3>1 DEF KeepsFull
  <2> QED BY <2>1, <2>11, <2>12, <2>13
<1> QED BY <1>1, <1>2

(***************************************************************************)
(* Steps of an operation on the blocks                                     *)
(***************************************************************************)
(* From h to k, block a is new or another one; it is in no list. *)
Changed(h, k, a, n, u) ==
  /\ Now(k, k.blocks, ListedSet(h)) /\ KeepsFull(h, k)
  /\ DOMAIN k.blocks = DOMAIN h.blocks \cup {a}
  /\ k.blocks[a].size = n /\ k.blocks[a].used = u
  /\ \A b \in DOMAIN h.blocks \ {a} : k.blocks[b] = h.blocks[b]

(* A block that is in no list is put in place. *)
LEMMA ChangedIs ==
  ASSUME NEW h, Fine(h), NEW a, a \notin ListedSet(h), NEW n \in Nat, NEW u \in BOOLEAN,
         NEW C, C = [b \in DOMAIN C |-> C[b]], DOMAIN C = DOMAIN h.blocks \cup {a},
         C[a] = [size |-> n, used |-> u], \A b \in DOMAIN h.blocks \ {a} : C[b] = h.blocks[b]
  PROVE  Changed(h, [h EXCEPT !.blocks = C], a, n, u)
<1>1. \A b \in ListedSet(h) : b \in DOMAIN C /\ C[b] = h.blocks[b]
  BY DEF ListedSet
<1>2. \A b \in DOMAIN C : C[b] \in [size : Nat, used : BOOLEAN]
  <2>1. \A b \in DOMAIN h.blocks : h.blocks[b] \in [size : Nat, used : BOOLEAN]
    BY DEF Fine, Shape
  <2> QED BY <2>1
<1>3. BlockFunctions(C)
  BY <1>2 DEF BlockFunctions
<1>4. /\ Now([h EXCEPT !.blocks = C], C, ListedSet(h))
      /\ KeepsFull(h, [h EXCEPT !.blocks = C])
  BY <1>1, <1>3, BlocksChange
<1>5. [h EXCEPT !.blocks = C].blocks = C
  BY <1>4 DEF Now
<1> QED BY <1>4, <1>5 DEF Changed

(* A block that is in no list is marked, *)
LEMMA SetUsedIs ==
  ASSUME NEW h, Fine(h), NEW a \in DOMAIN h.blocks, a \notin ListedSet(h), NEW u \in BOOLEAN
  PROVE  Changed(h, SetUsed(h, a, u), a, h.blocks[a].size, u)
<1> DEFINE C == [h.blocks EXCEPT ![a].used = u]
           n == h.blocks[a].size
<1>1. /\ h = [blocks |-> h.blocks, free |-> h.free]
      /\ h.blocks = [b \in DOMAIN h.blocks |-> h.blocks[b]]
      /\ h.blocks[a] \in [size : Nat, used : BOOLEAN]
  BY DEF Fine, Shape
<1>2. SetUsed(h, a, u) = [h EXCEPT !.blocks = C]
  BY <1>1 DEF SetUsed
<1>3. /\ C = [b \in DOMAIN C |-> C[b]] /\ DOMAIN C = DOMAIN h.blocks \cup {a}
      /\ C[a] = [size |-> n, used |-> u] /\ \A b \in DOMAIN h.blocks \ {a} : C[b] = h.blocks[b]
      /\ n \in Nat
  BY <1>1
<1> HIDE DEF C, n
<1>4. Changed(h, [h EXCEPT !.blocks = C], a, n, u)
  BY <1>3, ChangedIs
<1> QED BY <1>2, <1>4 DEF n

(* or gets another size. *)
LEMMA SetSizeIs ==
  ASSUME NEW h, Fine(h), NEW a \in DOMAIN h.blocks, a \notin ListedSet(h), NEW n \in Nat
  PROVE  Changed(h, SetSize(h, a, n), a, n, h.blocks[a].used)
<1> DEFINE C == [h.blocks EXCEPT ![a].size = n]
           u == h.blocks[a].used
<1>1. /\ h = [blocks |-> h.blocks, free |-> h.free]
      /\ h.blocks = [b \in DOMAIN h.blocks |-> h.blocks[b]]
      /\ h.blocks[a] \in [size : Nat, used : BOOLEAN]
  BY DEF Fine, Shape
<1>2. SetSize(h, a, n) = [h EXCEPT !.blocks = C]
  BY <1>1 DEF SetSize
<1>3. /\ C = [b \in DOMAIN C |-> C[b]] /\ DOMAIN C = DOMAIN h.blocks \cup {a}
      /\ C[a] = [size |-> n, used |-> u] /\ \A b \in DOMAIN h.blocks \ {a} : C[b] = h.blocks[b]
      /\ u \in BOOLEAN
  BY <1>1
<1> HIDE DEF C, u
<1>4. Changed(h, [h EXCEPT !.blocks = C], a, n, u)
  BY <1>3, ChangedIs
<1> QED BY <1>2, <1>4 DEF u

(* A new block, or none because the host allocation failed. *)
Created(h, a, n, site, r) ==
  /\ r.at = a /\ r.ok \in BOOLEAN
  /\ r.ok => \E u \in BOOLEAN : Changed(h, r.heap, a, n, u)
  /\ ~ r.ok => r.heap = h /\ CanFail(site)

(* What coarse_ravl_add_new leaves. *)
LEMMA AddNewIs ==
  ASSUME NEW h, Fine(h), NEW a, a \notin DOMAIN h.blocks, NEW n \in Nat, NEW site,
         NEW r \in AddNew(h, a, n, site)
  PROVE  Created(h, a, n, site, r)
<1>1. CASE r = Result(h, a, FALSE) /\ CanFail(site)
  BY <1>1 DEF Created, Result
<1>2. ASSUME NEW u \in BOOLEAN,
             r = Result([h EXCEPT !.blocks = Extend(@, a, [size |-> n, used |-> u])], a, TRUE)
      PROVE  Created(h, a, n, site, r)
  <2> DEFINE C == Extend(h.blocks, a, [size |-> n, used |-> u])
  <2>1. r.heap = [h EXCEPT !.blocks = C] /\ r.at = a /\ r.ok = TRUE
    BY <1>2 DEF Result
  <2>2. /\ C = [b \in DOMAIN C |-> C[b]] /\ DOMAIN C = DOMAIN h.blocks \cup {a}
        /\ C[a] = [size |-> n, used |-> u] /\ \A b \in DOMAIN h.blocks \ {a} : C[b] = h.blocks[b]
    BY DEF Extend
  <2>3. a \notin ListedSet(h)
    BY DEF ListedSet
  <2> HIDE DEF C
  <2>4. Changed(h, [h EXCEPT !.blocks = C], a, n, u)
    BY <2>2, <2>3, ChangedIs
  <2> QED BY <2>1, <2>4 DEF Created
<1> QED BY <1>1, <1>2 DEF AddNew

(* An unused block is listed, or not because the host allocation failed. *)
Added(h, a, site, r) ==
  /\ r.at = a /\ r.ok \in BOOLEAN
  /\ r.ok => Now(r.heap, h.blocks, ListedSet(h) \cup {a}) /\ KeepsFull(h, r.heap)
  /\ ~ r.ok => Now(r.heap, h.blocks, ListedSet(h)) /\ CanFail(site)

(* What free_blocks_add leaves. *)
LEMMA AddFreeIs ==
  ASSUME NEW h, Fine(h), NEW a \in DOMAIN h.blocks, ~ h.blocks[a].used, a \in Nat,
         h.blocks[a].size \in 1 .. Memory, a \notin ListedSet(h), NEW site,
         NEW r \in AddFree(h, a, site)
  PROVE  Added(h, a, site, r)
<1> DEFINE n == h.blocks[a].size
           list == ListOf(h, n)
           more == <<a>> \o list
<1>1. list \in Seq(Nat) /\ IsInjective(list)
      /\ \A b \in ToSet(list) : b \in DOMAIN h.blocks /\ h.blocks[b].size = n /\ ~ h.blocks[b].used
  BY ListOfIs
<1>2. a \notin ToSet(list)
  BY DEF ListedSet, Listed
<1>3. ToSet(list) \subseteq ListedSet(h)
  BY ListedIs
<1>4. n \in 1 .. Memory /\ ~ h.blocks[a].used /\ h.blocks[a].size = n
  OBVIOUS
<1>5. AddFree(h, a, site) =
        {Result(WithList(h, n, more), a, TRUE)}
        \cup (IF CanFail(site) THEN {Result(h, a, FALSE), Result(WithList(h, n, list), a, FALSE)} ELSE {})
  BY DEF AddFree
<1> HIDE DEF n, list
<1>6. more \in Seq(Nat) /\ IsInjective(more) /\ ToSet(more) = ToSet(list) \cup {a} /\ more # <<>>
  BY <1>1, <1>2, ConsSet
<1> HIDE DEF more
<1>7. Relisted(h, WithList(h, n, more), n, more)
  BY <1>1, <1>4, <1>6, ListChange
<1>8. Relisted(h, WithList(h, n, list), n, list)
  BY <1>1, <1>4, ListChange
<1>9. (ListedSet(h) \ ToSet(list)) \cup ToSet(more) = ListedSet(h) \cup {a}
      /\ (ListedSet(h) \ ToSet(list)) \cup ToSet(list) = ListedSet(h)
  BY <1>3, <1>6
<1>10. CASE r = Result(WithList(h, n, more), a, TRUE)
  BY <1>10, <1>6, <1>7, <1>9 DEF Added, Result, Relisted, list
<1>11. CASE r = Result(WithList(h, n, list), a, FALSE) /\ CanFail(site)
  BY <1>11, <1>8, <1>9 DEF Added, Result, Relisted, list
<1>12. CASE r = Result(h, a, FALSE) /\ CanFail(site)
  BY <1>12 DEF Added, Result, Now
<1> QED BY <1>5, <1>10, <1>11, <1>12

(* Block b is added to block a. *)
Joined(h, k, a, b) ==
  /\ Now(k, k.blocks, ListedSet(h) \ {a, b}) /\ KeepsFull(h, k)
  /\ DOMAIN k.blocks = DOMAIN h.blocks \ {b}
  /\ k.blocks[a].size = h.blocks[a].size + h.blocks[b].size
  /\ k.blocks[a].used = h.blocks[a].used
  /\ \A c \in DOMAIN h.blocks \ {a, b} : k.blocks[c] = h.blocks[c]

(* What user_block_merge leaves. *)
LEMMA JoinBlocksIs ==
  ASSUME NEW h, Fine(h), NEW a \in DOMAIN h.blocks, NEW b \in DOMAIN h.blocks, a # b
  PROVE  Joined(h, JoinBlocks(h, a, b), a, b)
<1> DEFINE v == Unlist(h, a)
           u == Unlist(v, b)
           n == h.blocks[a].size + h.blocks[b].size
           C == [Without(h.blocks, b) EXCEPT ![a].size = n]
<1>1. Fine(v) /\ v.blocks = h.blocks /\ ListedSet(v) = ListedSet(h) \ {a} /\ KeepsFull(h, v)
  BY UnlistIs DEF Now
<1> HIDE DEF v
<1>2. Now(u, v.blocks, ListedSet(v) \ {b}) /\ KeepsFull(v, u)
  BY <1>1, UnlistIs
<1>3. Fine(u) /\ u.blocks = h.blocks /\ ListedSet(u) = ListedSet(h) \ {a, b} /\ KeepsFull(h, u)
  BY <1>1, <1>2 DEF Now, KeepsFull
<1>4. JoinBlocks(h, a, b) = [u EXCEPT !.blocks = [Without(u.blocks, b) EXCEPT ![a].size = n]]
  BY DEF JoinBlocks, u, v
<1> HIDE DEF u
<1>5. JoinBlocks(h, a, b) = [u EXCEPT !.blocks = C]
  BY <1>3, <1>4
<1>6. /\ h.blocks = [c \in DOMAIN h.blocks |-> h.blocks[c]]
      /\ \A c \in DOMAIN h.blocks : h.blocks[c] \in [size : Nat, used : BOOLEAN]
  BY DEF Fine, Shape
<1>7. /\ C = [c \in DOMAIN C |-> C[c]] /\ DOMAIN C = DOMAIN h.blocks \ {b}
      /\ C[a].size = h.blocks[a].size + h.blocks[b].size /\ C[a].used = h.blocks[a].used
      /\ C[a] \in [size : Nat, used : BOOLEAN]
      /\ \A c \in DOMAIN h.blocks \ {a, b} : C[c] = h.blocks[c]
  <2> DEFINE W == Without(h.blocks, b)
  <2>1. /\ W = [c \in DOMAIN W |-> W[c]] /\ DOMAIN W = DOMAIN h.blocks \ {b}
        /\ \A c \in DOMAIN W : W[c] = h.blocks[c]
    BY DEF Without
  <2>2. n \in Nat /\ a \in DOMAIN W /\ h.blocks[a] \in [size : Nat, used : BOOLEAN]
    BY <1>6, <2>1
  <2> HIDE DEF W, n
  <2>3. C = [W EXCEPT ![a] = [h.blocks[a] EXCEPT !.size = n]]
    BY <2>1, <2>2 DEF W
  <2> HIDE DEF C
  <2>4. /\ DOMAIN C = DOMAIN W /\ C = [c \in DOMAIN C |-> C[c]]
        /\ C[a] = [h.blocks[a] EXCEPT !.size = n]
        /\ \A c \in DOMAIN W \ {a} : C[c] = W[c]
    BY <2>2, <2>3
  <2>5. C[a].size = n /\ C[a].used = h.blocks[a].used /\ C[a] \in [size : Nat, used : BOOLEAN]
    BY <2>2, <2>4
  <2> QED BY <2>1, <2>4, <2>5 DEF n
<1> HIDE DEF C
<1>8. BlockFunctions(C)
  BY <1>6, <1>7 DEF BlockFunctions
<1>9. \A c \in ListedSet(u) : c \in DOMAIN C /\ C[c] = u.blocks[c]
  BY <1>3, <1>7 DEF ListedSet
<1>10. Now([u EXCEPT !.blocks = C], C, ListedSet(u)) /\ KeepsFull(u, [u EXCEPT !.blocks = C])
  BY <1>3, <1>8, <1>9, BlocksChange
<1> DEFINE k == [u EXCEPT !.blocks = C]
<1> HIDE DEF k
<1>11. k.blocks = C /\ Now(k, k.blocks, ListedSet(h) \ {a, b}) /\ KeepsFull(h, k)
  BY <1>3, <1>10 DEF Now, KeepsFull, k
<1>12. Joined(h, k, a, b)
  BY <1>7, <1>11 DEF Joined
<1> QED BY <1>5, <1>12 DEF k

(***************************************************************************)
(* Looking for a free block                                                *)
(***************************************************************************)
(* A set of numbers has a least one. *)
LEMMA Least ==
  ASSUME NEW S \in SUBSET Nat, S # {}
  PROVE  Min(S) \in S /\ \A y \in S : Min(S) <= y
<1>1. PICK x \in S : \A y \in S : ~ (<<y, x>> \in OpToRel(<, Nat))
  BY NatLessThanWellFounded, WFMin
<1>2. \A y \in S : ~ (y < x)
  BY <1>1 DEF OpToRel
<1>3. \E z \in S : \A y \in S : z <= y
  BY <1>2
<1> QED BY <1>3 DEF Min

(* No block, or one that was listed and for which W holds. *)
Took(h, r, a, W) ==
  /\ r.found = {a} /\ a \in ListedSet(h) /\ W
  /\ Now(r.heap, h.blocks, ListedSet(h) \ {a}) /\ KeepsFull(h, r.heap)

TookNone(h, r) ==
  r.found = {} /\ Now(r.heap, h.blocks, ListedSet(h)) /\ KeepsFull(h, r.heap)

Suits(n, size, al) == n >= size /\ Aligned(n, al)

(* What free_blocks_rm_ge finds, and leaves. *)
LEMMA RemoveGEIs ==
  ASSUME NEW h, Fine(h), NEW size \in Nat, NEW al \in Nat, NEW all \in BOOLEAN
  PROVE  \/ TookNone(h, RemoveGE(h, size, al, all))
         \/ \E a \in ListedSet(h) : Took(h, RemoveGE(h, size, al, all), a, Suits(h.blocks[a].size, size, al))
<1> DEFINE large == {n \in DOMAIN h.free : n >= size}
           n == Min(large)
           list == h.free[n]
           fits == {i \in DOMAIN list : Aligned(h.blocks[list[i]].size, al) /\ (all \/ i = 1)}
           r == RemoveGE(h, size, al, all)
<1>0. Now(h, h.blocks, ListedSet(h)) /\ KeepsFull(h, h)
  BY DEF Now, KeepsFull
<1>1. CASE large = {}
  <2>1. r = [heap |-> h, found |-> {}]
    BY <1>1 DEF RemoveGE
  <2> QED BY <2>1, <1>0 DEF TookNone
<1>2. CASE large # {}
  <2>1. r = IF fits = {} THEN [heap |-> DropEmptyHead(h, n), found |-> {}]
            ELSE [heap |-> Unlist(h, list[Min(fits)]), found |-> {list[Min(fits)]}]
    BY <1>2 DEF RemoveGE
  <2>2. large \in SUBSET Nat /\ large \subseteq DOMAIN h.free
    BY DEF Fine, Shape
  <2>3. n \in large
    <3> HIDE DEF large
    <3> QED BY <2>2, <1>2, Least
  <2>4. n \in DOMAIN h.free /\ n >= size /\ list = ListOf(h, n)
    BY <2>3 DEF ListOf
  <2>5. list \in Seq(Nat) /\ \A b \in ToSet(list) : b \in DOMAIN h.blocks /\ h.blocks[b].size = n
    BY <2>4, ListOfIs
  <2>6. fits \in SUBSET Nat /\ fits \subseteq DOMAIN list
    <3>1. DOMAIN list \subseteq Nat
      <4> HIDE DEF list
      <4>1. DOMAIN list = 1 .. Len(list) /\ Len(list) \in Nat
        BY <2>5
      <4> QED BY <4>1
    <3> QED BY <3>1
  <2> HIDE DEF large, n
  <2>7. CASE fits = {}
    <3>1. r = [heap |-> DropEmptyHead(h, n), found |-> {}]
      BY <2>1, <2>7
    <3>2. Now(DropEmptyHead(h, n), h.blocks, ListedSet(h)) /\ KeepsFull(h, DropEmptyHead(h, n))
      BY <2>4, DropEmptyHeadIs
    <3> QED BY <3>1, <3>2 DEF TookNone
  <2>8. CASE fits # {}
    <3> DEFINE i == Min(fits)
               a == list[i]
    <3>1. i \in fits
      <4> HIDE DEF fits
      <4> QED BY <2>6, <2>8, Least
    <3>2. i \in DOMAIN list /\ Aligned(h.blocks[a].size, al)
      BY <3>1
    <3>3. r = [heap |-> Unlist(h, a), found |-> {a}]
      BY <2>1, <2>8
    <3> HIDE DEF i, fits, r
    <3>4. a \in ToSet(list)
      BY <3>2 DEF ToSet
    <3>5. a \in DOMAIN h.blocks /\ h.blocks[a].size = n /\ a \in ListedSet(h)
      BY <3>4, <2>4, <2>5, ListedIs
    <3>6. Now(Unlist(h, a), h.blocks, ListedSet(h) \ {a}) /\ KeepsFull(h, Unlist(h, a))
      BY <3>5, UnlistIs
    <3>7. Suits(h.blocks[a].size, size, al)
      BY <3>2, <3>5, <2>4 DEF Suits
    <3> HIDE DEF a, list
    <3>8. Took(h, r, a, Suits(h.blocks[a].size, size, al))
      BY <3>3, <3>5, <3>6, <3>7 DEF Took
    <3> QED BY <3>5, <3>8 DEF r
  <2> QED BY <2>7, <2>8
<1> QED BY <1>1, <1>2

(* The room a block has: all strategies but the fastest test its size. *)
Roomy(s, n, size, al) ==
  n >= size /\ ((s # "FASTEST" /\ Aligned(n, al)) \/ n >= size + al)

(* The block that is found has the room that its strategy looked for. *)
LEMMA FindFreeIs ==
  ASSUME NEW h, Fine(h), NEW size \in Nat, NEW al \in Nat
  PROVE  \/ TookNone(h, FindFree(h, size, al))
         \/ \E a \in ListedSet(h) :
              Took(h, FindFree(h, size, al), a, Roomy(params.strategy, h.blocks[a].size, size, al))
<1> DEFINE all == params.strategy = "CHECK_ALL_SIZE"
           exact == RemoveGE(h, size, al, all)
           g == IF params.strategy = "FASTEST" THEN h ELSE exact.heap
           last == RemoveGE(g, size + al, 0, FALSE)
           r == FindFree(h, size, al)
<1>0. all \in BOOLEAN /\ \A b \in DOMAIN h.blocks : h.blocks[b].size \in Nat
  BY DEF Fine, Shape
<1>1. \/ TookNone(h, exact)
      \/ \E a \in ListedSet(h) : Took(h, exact, a, Suits(h.blocks[a].size, size, al))
  <2> HIDE DEF all
  <2> QED BY <1>0, RemoveGEIs
<1> HIDE DEF all, exact
<1>2. CASE params.strategy # "FASTEST" /\ exact.found # {}
  <2>1. r = exact
    BY <1>2 DEF FindFree, exact, all
  <2>2. PICK a \in ListedSet(h) : Took(h, exact, a, Suits(h.blocks[a].size, size, al))
    BY <1>1, <1>2 DEF TookNone
  <2>3. Roomy(params.strategy, h.blocks[a].size, size, al)
    BY <2>2, <1>2 DEF Roomy, Took, Suits
  <2>4. Took(h, r, a, Roomy(params.strategy, h.blocks[a].size, size, al))
    BY <2>1, <2>2, <2>3 DEF Took
  <2> QED BY <2>4
<1>3. CASE ~ (params.strategy # "FASTEST" /\ exact.found # {})
  <2>1. r = last
    BY <1>3 DEF FindFree, exact, all
  <2>2. Now(g, h.blocks, ListedSet(h)) /\ KeepsFull(h, g)
    <3>1. CASE params.strategy = "FASTEST"
      BY <3>1 DEF Now, KeepsFull
    <3>2. CASE params.strategy # "FASTEST"
      <4>1. exact.found = {}
        BY <1>3, <3>2
      <4>2. TookNone(h, exact)
        BY <4>1, <1>1 DEF Took
      <4> QED BY <4>2, <3>2 DEF TookNone
    <3> QED BY <3>1, <3>2
  <2> HIDE DEF g
  <2>3. Fine(g) /\ g.blocks = h.blocks /\ ListedSet(g) = ListedSet(h)
    BY <2>2 DEF Now
  <2>4. \/ TookNone(g, last)
        \/ \E a \in ListedSet(g) : Took(g, last, a, Suits(g.blocks[a].size, size + al, 0))
    <3> HIDE DEF r
    <3>1. size + al \in Nat /\ 0 \in Nat /\ FALSE \in BOOLEAN
      OBVIOUS
    <3>2. Fine(g)
      BY <2>3
    <3> QED BY <3>1, <3>2, RemoveGEIs
  <2> HIDE DEF last, r
  <2>5. CASE TookNone(g, last)
    BY <2>1, <2>2, <2>3, <2>5 DEF TookNone, KeepsFull, r
  <2>6. CASE \E a \in ListedSet(g) : Took(g, last, a, Suits(g.blocks[a].size, size + al, 0))
    <3>1. PICK a \in ListedSet(g) : Took(g, last, a, Suits(g.blocks[a].size, size + al, 0))
      BY <2>6
    <3>2. a \in ListedSet(h) /\ h.blocks[a].size \in Nat
      BY <2>3, <1>0 DEF ListedSet
    <3>3. Roomy(params.strategy, h.blocks[a].size, size, al)
      BY <3>1, <3>2, <2>3 DEF Roomy, Took, Suits
    <3>4. Took(h, r, a, Roomy(params.strategy, h.blocks[a].size, size, al))
      BY <2>1, <2>2, <2>3, <3>1, <3>3 DEF Took, KeepsFull
    <3> QED BY <3>2, <3>4 DEF r
  <2> QED BY <2>4, <2>5, <2>6
<1> QED BY <1>2, <1>3

(***************************************************************************)
(* Alignment                                                               *)
(***************************************************************************)
(* The next multiple of the alignment. *)
LEMMA AlignUpIs ==
  ASSUME NEW v \in Nat, NEW al \in Nat \ {0}
  PROVE  /\ AlignUp(v, al) \in Nat /\ v <= AlignUp(v, al) /\ AlignUp(v, al) < v + al
         /\ AlignUp(v, al) % al = 0
         /\ v % al = 0 => AlignUp(v, al) = v
<1> DEFINE w == v + al - 1
           q == w \div al
           m == w % al
<1>1. q \in Nat /\ m \in 0 .. al - 1 /\ w = al * q + m
  <2>1. w \in Nat
    OBVIOUS
  <2> HIDE DEF w
  <2> QED BY <2>1
<1>2. AlignUp(v, al) = q * al
  BY DEF AlignUp
<1>3. q * al = al * q /\ q * al \in Nat
  <2> HIDE DEF q
  <2> QED BY <1>1
<1>4. (q * al) % al = 0
  <2> HIDE DEF q
  <2>1. \A z \in Nat : (al * z) % al = 0
    OBVIOUS
  <2> QED BY <1>1, <1>3, <2>1
<1> DEFINE x == q * al
<1>5. x \in Nat /\ x = w - m /\ v <= x /\ x < v + al
  <2> HIDE DEF q, m
  <2> QED BY <1>1, <1>3
<1>6. ASSUME v % al = 0
      PROVE  x = v
  <2>1. v = al * (v \div al) + 0 /\ v \div al \in Nat
    BY <1>6
  <2> DEFINE p == v \div al
  <2>2. p \in Nat /\ v = al * p
    BY <2>1
  <2> HIDE DEF p, q, x
  <2>3. al * q - al * p = x - v /\ x - v \in 0 .. al - 1
    BY <1>1, <1>3, <1>5, <2>2 DEF x
  <2>4. q = p
    <3>1. CASE q >= p + 1
      <4>1. q = p + 1 + (q - p - 1) /\ q - p - 1 \in Nat
        BY <3>1, <1>1, <2>2
      <4>2. al * q = al * p + al + al * (q - p - 1)
        BY <4>1, <2>2
      <4>3. al * (q - p - 1) \in Nat
        BY <4>1
      <4> QED BY <4>2, <4>3, <2>3, <1>1, <2>2
    <3>2. CASE q < p
      <4>1. p = q + 1 + (p - q - 1) /\ p - q - 1 \in Nat
        BY <3>2, <1>1, <2>2
      <4>2. al * p = al * q + al + al * (p - q - 1)
        BY <4>1, <1>1
      <4>3. al * (p - q - 1) \in Nat
        BY <4>1
      <4> QED BY <4>2, <4>3, <2>3, <1>1, <2>2
    <3> QED BY <3>1, <3>2, <1>1, <2>2
  <2> QED BY <2>4, <2>2, <1>3 DEF x
<1> QED BY <1>2, <1>4, <1>5, <1>6

(* What two multiples add up to. *)
LEMMA DividedSum ==
  ASSUME NEW x \in Nat, NEW y \in Nat, NEW d \in Nat \ {0}, x % d = 0, y % d = 0
  PROVE  (x + y) % d = 0
<1> DEFINE p == x \div d
           q == y \div d
<1>1. p \in Nat /\ q \in Nat /\ x = d * p /\ y = d * q
  OBVIOUS
<1> HIDE DEF p, q
<1>2. x + y = d * (p + q) /\ p + q \in Nat
  BY <1>1
<1>3. \A z \in Nat : (d * z) % d = 0
  OBVIOUS
<1> QED BY <1>2, <1>3

(* What is left when a multiple is taken from another. *)
LEMMA DividedDifference ==
  ASSUME NEW x \in Nat, NEW y \in Nat, NEW d \in Nat \ {0}, x % d = 0, y % d = 0, y <= x
  PROVE  (x - y) % d = 0
<1> DEFINE p == x \div d
           q == y \div d
<1>1. p \in Nat /\ q \in Nat /\ x = d * p /\ y = d * q
  OBVIOUS
<1> HIDE DEF p, q
<1>2. x - y = d * (p - q) /\ p - q \in Int
  BY <1>1
<1>3. \A z \in Int : (d * z) % d = 0
  OBVIOUS
<1> QED BY <1>2, <1>3

(***************************************************************************)
(* Cutting the block that was found                                        *)
(***************************************************************************)
(* Blocks that touch, in one upstream block. *)
Touch(B, U, a, b) ==
  a + B[a].size = b /\ \E o \in DOMAIN U : Lies(B, U, a, o) /\ Lies(B, U, b, o)

(* A byte lies in one upstream block. *)
LEMMA OneOrigin ==
  ASSUME NEW B, NEW U, Tiles(B, U), NEW o \in DOMAIN U, NEW p \in DOMAIN U, NEW x \in Nat,
         o <= x, x < o + U[o], p <= x, x < p + U[p]
  PROVE  o = p
<1>1. /\ o \in Nat /\ p \in Nat /\ U[o] \in Nat /\ U[p] \in Nat
      /\ (o < p => o + U[o] <= p) /\ (p < o => p + U[p] <= o)
  BY BlockFacts
<1> QED BY <1>1

(* Pieces a and x of a block of B touch what it touched, and each other. *)
AsBefore(B, U, a, x, b, c) ==
  Touch(B, U, IF b = x THEN a ELSE b, IF c = x THEN a ELSE c) /\ b # a /\ c # x

(* Blocks that touch after one has been cut, and are not its two parts. *)
LEMMA CutTouch ==
  ASSUME NEW B, NEW U, Tiles(B, U), NEW a \in DOMAIN B, NEW k \in Nat, 0 < k, k < B[a].size,
         NEW C, DOMAIN C = DOMAIN B \cup {a + k}, C[a].size = k, C[a + k].size = B[a].size - k,
         \A b \in DOMAIN B \ {a} : C[b].size = B[b].size,
         NEW b \in DOMAIN C, NEW c \in DOMAIN C, Touch(C, U, b, c), ~ (b = a /\ c = a + k)
  PROVE  AsBefore(B, U, a, a + k, b, c)
<1>0. /\ DOMAIN B \subseteq Nat /\ DOMAIN U \subseteq Nat
      /\ \A x \in DOMAIN B : B[x].size \in Nat /\ B[x].size > 0
      /\ \A x, y \in DOMAIN B : x < y => x + B[x].size <= y
      /\ \A o \in DOMAIN U : U[o] \in Nat
      /\ a \in Nat /\ B[a].size \in Nat /\ a + k \notin DOMAIN B
  BY BlockFacts, CutTiles
<1>1. PICK o \in DOMAIN U : Lies(C, U, b, o) /\ Lies(C, U, c, o)
  BY DEF Touch
<1>2. b + C[b].size = c
  BY DEF Touch
<1>3. b # a
  BY <1>2
<1>4. b \in Nat /\ c \in Nat /\ o \in Nat /\ U[o] \in Nat
  BY <1>0
<1>5. c # a + k
  <2> SUFFICES ASSUME c = a + k PROVE FALSE
    OBVIOUS
  <2>1. b # a + k
    BY <1>2, <1>0
  <2>2. b \in DOMAIN B /\ b + B[b].size = a + k
    BY <2>1, <1>2, <1>3
  <2>3. CASE b < a
    BY <2>2, <2>3, <1>0
  <2>4. CASE a < b
    BY <2>2, <2>4, <1>0, <1>4
  <2> QED BY <2>3, <2>4, <1>3, <1>4, <1>0
<1>6. PICK p \in DOMAIN U : Lies(B, U, a, p)
  BY DEF Tiles
<1>7. p \in Nat /\ U[p] \in Nat /\ p <= a /\ a + B[a].size <= p + U[p]
  BY <1>0, <1>6 DEF Lies
<1>8. CASE b = a + k
  <2>1. o <= a + k /\ a + k < o + U[o]
    BY <1>8, <1>1, <1>0, <1>4 DEF Lies
  <2>2. o = p
    BY <2>1, <1>7, <1>0, OneOrigin
  <2>3. c \in DOMAIN B \ {a} /\ c = a + B[a].size
    BY <1>2, <1>8, <1>5, <1>0
  <2>4. Lies(B, U, c, o)
    BY <2>3, <1>1 DEF Lies
  <2> QED BY <2>2, <2>3, <2>4, <1>3, <1>5, <1>6, <1>8 DEF Touch, AsBefore
<1>9. CASE b # a + k
  <2>1. b \in DOMAIN B \ {a} /\ b + B[b].size = c /\ c \in DOMAIN B
    BY <1>9, <1>2, <1>3, <1>5
  <2>2. Lies(B, U, b, o)
    BY <2>1, <1>1 DEF Lies
  <2>3. Lies(B, U, c, o)
    <3>1. CASE c = a
      <4>1. o <= a /\ a < o + U[o]
        BY <3>1, <1>1, <1>0, <1>4 DEF Lies
      <4>2. o = p
        BY <4>1, <1>7, <1>0, OneOrigin
      <4> QED BY <4>2, <3>1, <1>6
    <3>2. CASE c # a
      BY <3>2, <2>1, <1>1 DEF Lies
    <3> QED BY <3>1, <3>2
  <2> QED BY <2>1, <2>2, <2>3, <1>3, <1>5, <1>9 DEF Touch, AsBefore
<1> QED BY <1>8, <1>9

(* From h to k block a is cut in pieces P, of which all but at are free. *)
Pieces(h, k, U, a, P, at) ==
  /\ Sound(k, U) /\ KeepsFull(h, k)
  /\ a \in P /\ at \in P /\ P \subseteq Nat /\ P \cap DOMAIN h.blocks = {a}
  /\ DOMAIN k.blocks = DOMAIN h.blocks \cup P
  /\ \A b \in DOMAIN h.blocks \ {a} : k.blocks[b] = h.blocks[b]
  /\ \A p \in P \ {at} : ~ k.blocks[p].used
  /\ ListedSet(k) = ListedSet(h) \cup (P \ {at})

(* Two pieces that touch are not both free, and nothing new touches a piece. *)
Inside(h, k, U, a, P, at) ==
  \A b, c \in DOMAIN k.blocks : Touch(k.blocks, U, b, c) =>
    \/ b \in P /\ c \in P /\ (b = at \/ c = at)
    \/ Touch(h.blocks, U, IF b \in P THEN a ELSE b, IF c \in P THEN a ELSE c)

(* What a failure leaves. *)
Spoiled(h, k, U, a) ==
  /\ Sound(k, U) /\ DOMAIN h.blocks \subseteq DOMAIN k.blocks
  /\ \A b \in DOMAIN h.blocks \ {a} : k.blocks[b] = h.blocks[b]

SomeFailure == \E site \in Sites : CanFail(site)

PaddingCut(h, r, U, a, size, al) ==
  /\ r.ok \in BOOLEAN
  /\ ~ r.ok => Spoiled(h, r.heap, U, a) /\ SomeFailure
  /\ r.ok => \E P : /\ Pieces(h, r.heap, U, a, P, r.at) /\ Inside(h, r.heap, U, a, P, r.at)
                    /\ \A p \in P : p <= r.at
                    /\ h.blocks[a].size > size => r.heap.blocks[r.at].size > size
  /\ (al = 0 \/ a % al = 0) => r = Result(h, a, TRUE)
  /\ h.blocks[a].size = size => r = Result(h, a, TRUE)

(* A block that is not cut is its only piece. *)
LEMMA NoPieces ==
  ASSUME NEW h, NEW U, Sound(h, U), NEW a \in DOMAIN h.blocks, a \notin ListedSet(h)
  PROVE  Pieces(h, h, U, a, {a}, a) /\ Inside(h, h, U, a, {a}, a)
<1>1. a \in Nat
  BY BlockFacts DEF Sound
<1>2. Pieces(h, h, U, a, {a}, a)
  BY <1>1 DEF Pieces, KeepsFull
<1>3. Inside(h, h, U, a, {a}, a)
  BY DEF Inside
<1> QED BY <1>2, <1>3

(* What create_aligned_block leaves: padding that is free, and the aligned rest. *)
LEMMA CutAlignedIs ==
  ASSUME NEW h, NEW U, Sound(h, U), NEW a \in DOMAIN h.blocks, a \notin ListedSet(h),
         ~ h.blocks[a].used, NEW size \in Nat, size > 0, NEW al \in Nat, size <= h.blocks[a].size,
         al = 0 \/ a % al = 0 \/ h.blocks[a].size >= size + al,
         NEW r \in CutAligned(h, a, al)
  PROVE  PaddingCut(h, r, U, a, size, al)
<1> DEFINE n == h.blocks[a].size
           start == AlignUp(a, al)
           p == start - a
<1>0. /\ a \in Nat /\ n \in Nat /\ n > 0 /\ a + n <= Memory /\ Memory \in Nat
      /\ Fine(h) /\ Tiles(h.blocks, U)
  BY BlockFacts, CoarseAssumption DEF Sound, Fine
<1>1. CASE r = Result(h, a, TRUE)
  <2>1. Pieces(h, h, U, a, {a}, a) /\ Inside(h, h, U, a, {a}, a)
    BY NoPieces
  <2>2. \A x \in {a} : x <= a
    BY <1>0
  <2>3. r.ok = TRUE /\ r.heap = h /\ r.at = a
    BY <1>1 DEF Result
  <2>4. \E P : /\ Pieces(h, r.heap, U, a, P, r.at) /\ Inside(h, r.heap, U, a, P, r.at)
               /\ \A x \in P : x <= r.at
               /\ h.blocks[a].size > size => r.heap.blocks[r.at].size > size
    BY <2>1, <2>2, <2>3
  <2> QED BY <2>3, <2>4, <1>1 DEF PaddingCut
<1>2. CASE al = 0
  <2>1. r = Result(h, a, TRUE)
    BY <1>2 DEF CutAligned
  <2> QED BY <2>1, <1>1
<1>3. CASE al # 0
  <2>0. al \in Nat \ {0}
    BY <1>3
  <2>1. start \in Nat /\ a <= start /\ start < a + al /\ (a % al = 0 => start = a)
    BY <2>0, <1>0, AlignUpIs
  <2> HIDE DEF n
  <2>2. CASE p = 0
    <3>1. r = Result(h, a, TRUE)
      BY <2>2 DEF CutAligned
    <3> QED BY <3>1, <1>1
  <2>3. CASE p # 0
    <3>1. PICK new \in AddNew(h, start, n - p, "alignedNode") :
            r \in IF ~new.ok THEN {Result(h, a, FALSE)}
                  ELSE {Result(s.heap, start, s.ok) :
                          s \in AddFree(SetUsed(SetSize(new.heap, a, p), a, FALSE), a, "paddingList")}
      BY <2>3, <1>3 DEF CutAligned, n
    <3> HIDE DEF start
    <3>2. /\ p \in Nat /\ 0 < p /\ p < al /\ start = a + p /\ a % al # 0 /\ n >= size + al
          /\ n - p > size /\ p < n /\ n # size /\ n - p \in Nat
      BY <2>1, <2>3, <1>0, <1>3 DEF n
    <3> HIDE DEF p
    <3>3. a + p \notin DOMAIN h.blocks
      <4> SUFFICES ASSUME a + p \in DOMAIN h.blocks PROVE FALSE
        OBVIOUS
      <4>1. a < a + p => a + n <= a + p
        BY <1>0, BlockFacts DEF n
      <4> QED BY <4>1, <3>2, <1>0
    <3>4. Created(h, start, n - p, "alignedNode", new)
      BY <3>1, <3>2, <3>3, <1>0, AddNewIs
    <3>5. CASE ~ new.ok
      <4>1. r = Result(h, a, FALSE) /\ CanFail("alignedNode")
        BY <3>1, <3>4, <3>5 DEF Created
      <4>2. r.ok = FALSE /\ r.heap = h
        BY <4>1 DEF Result
      <4>3. Spoiled(h, h, U, a)
        BY DEF Spoiled
      <4>4. SomeFailure
        BY <4>1 DEF SomeFailure, Sites
      <4> QED BY <4>2, <4>3, <4>4, <3>2, <1>3 DEF PaddingCut, n
    <3>6. CASE new.ok
      <4> DEFINE g == new.heap
                 f == SetSize(g, a, p)
                 e == SetUsed(f, a, FALSE)
      <4>1. PICK s \in AddFree(e, a, "paddingList") : r = Result(s.heap, start, s.ok)
        BY <3>1, <3>6
      <4>2. PICK u \in BOOLEAN : Changed(h, g, start, n - p, u)
        BY <3>4, <3>6 DEF Created
      <4> HIDE DEF g
      <4>3. /\ Fine(g) /\ ListedSet(g) = ListedSet(h) /\ KeepsFull(h, g)
            /\ DOMAIN g.blocks = DOMAIN h.blocks \cup {start} /\ g.blocks[start].size = n - p
            /\ \A b \in DOMAIN h.blocks : g.blocks[b] = h.blocks[b]
        BY <4>2, <3>2, <3>3 DEF Changed, Now
      <4> HIDE DEF f
      <4>4. Changed(g, f, a, p, g.blocks[a].used)
        BY <4>3, <3>2, SetSizeIs DEF f
      <4>5. /\ Fine(f) /\ ListedSet(f) = ListedSet(h) /\ KeepsFull(h, f)
            /\ DOMAIN f.blocks = DOMAIN h.blocks \cup {start} /\ f.blocks[start].size = n - p
            /\ f.blocks[a].size = p
            /\ \A b \in DOMAIN h.blocks \ {a} : f.blocks[b] = h.blocks[b]
        <5>1. start # a
          BY <3>2, <1>0
        <5> QED BY <5>1, <4>3, <4>4 DEF Changed, Now, KeepsFull
      <4> HIDE DEF e
      <4>6. Changed(f, e, a, f.blocks[a].size, FALSE)
        BY <4>5, SetUsedIs DEF e
      <4>7. /\ Fine(e) /\ ListedSet(e) = ListedSet(h) /\ KeepsFull(h, e)
            /\ DOMAIN e.blocks = DOMAIN h.blocks \cup {start} /\ e.blocks[start].size = n - p
            /\ e.blocks[a].size = p /\ ~ e.blocks[a].used
            /\ \A b \in DOMAIN h.blocks \ {a} : e.blocks[b] = h.blocks[b]
        <5>1. start # a
          BY <3>2, <1>0
        <5> QED BY <5>1, <4>5, <4>6 DEF Changed, Now, KeepsFull
      <4>8. Added(e, a, "paddingList", s)
        <5>1. e.blocks[a].size \in 1 .. Memory
          BY <4>7, <3>2, <1>0
        <5> QED BY <5>1, <4>1, <4>7, <1>0, AddFreeIs
      <4> DEFINE C == e.blocks
      <4>9. Tiles(C, U) /\ \A b \in DOMAIN h.blocks \ {a} : C[b].size = h.blocks[b].size
        <5>1. \A b \in DOMAIN h.blocks \ {a} : C[b].size = h.blocks[b].size
          BY <4>7
        <5>2. DOMAIN C = DOMAIN h.blocks \cup {a + p} /\ C[a].size = p /\ C[a + p].size = h.blocks[a].size - p
          BY <4>7, <3>2 DEF n
        <5>3. p < h.blocks[a].size
          BY <3>2 DEF n
        <5> HIDE DEF C
        <5> QED BY <5>1, <5>2, <5>3, <3>2, <1>0, CutTiles
      <4>10. r.ok = s.ok /\ r.heap = s.heap /\ r.at = start /\ s.ok \in BOOLEAN
        BY <4>1, <4>8 DEF Result, Added
      <4>11. Fine(r.heap) /\ r.heap.blocks = C
        BY <4>8, <4>10 DEF Added, Now
      <4>12. Sound(r.heap, U)
        BY <4>9, <4>11 DEF Sound, Fine
      <4> HIDE DEF C
      <4>13. /\ DOMAIN r.heap.blocks = DOMAIN h.blocks \cup {start}
             /\ \A b \in DOMAIN h.blocks \ {a} : r.heap.blocks[b] = h.blocks[b]
             /\ ~ r.heap.blocks[a].used /\ r.heap.blocks[start].size = n - p
        BY <4>7, <4>11 DEF C
      <4>14. ~ r.ok => Spoiled(h, r.heap, U, a) /\ SomeFailure
        BY <4>8, <4>10, <4>12, <4>13 DEF Spoiled, Added, SomeFailure, Sites
      <4>15. ASSUME r.ok
             PROVE  Pieces(h, r.heap, U, a, {a, start}, start)
        <5>1. ListedSet(r.heap) = ListedSet(h) \cup {a} /\ KeepsFull(h, r.heap)
          BY <4>7, <4>8, <4>10, <4>15 DEF Added, Now, KeepsFull
        <5>2. start # a /\ start \notin DOMAIN h.blocks /\ start \in Nat
          BY <3>2, <3>3, <1>0
        <5> QED BY <5>1, <5>2, <4>12, <4>13, <1>0 DEF Pieces
      <4>16. Inside(h, r.heap, U, a, {a, start}, start)
        <5> SUFFICES ASSUME NEW b \in DOMAIN C, NEW c \in DOMAIN C, Touch(C, U, b, c)
                     PROVE  \/ b \in {a, start} /\ c \in {a, start} /\ (b = start \/ c = start)
                            \/ Touch(h.blocks, U, IF b \in {a, start} THEN a ELSE b,
                                                  IF c \in {a, start} THEN a ELSE c)
          BY <4>11 DEF Inside
        <5>1. CASE b = a /\ c = a + p
          BY <5>1, <3>2
        <5>2. CASE ~ (b = a /\ c = a + p)
          <6>1. DOMAIN C = DOMAIN h.blocks \cup {a + p} /\ C[a].size = p /\ C[a + p].size = h.blocks[a].size - p
            BY <4>7, <3>2 DEF n, C
          <6>2. p < h.blocks[a].size
            BY <3>2 DEF n
          <6>3. AsBefore(h.blocks, U, a, a + p, b, c)
            BY <6>1, <6>2, <5>2, <4>9, <3>2, <1>0, CutTouch
          <6> QED BY <6>3, <3>2 DEF AsBefore
        <5> QED BY <5>1, <5>2
      <4>17. (\A x \in {a, start} : x <= start) /\ r.heap.blocks[start].size > size
        BY <3>2, <4>13, <1>0
      <4>18. r.ok => \E P : /\ Pieces(h, r.heap, U, a, P, r.at) /\ Inside(h, r.heap, U, a, P, r.at)
                            /\ \A x \in P : x <= r.at
                            /\ h.blocks[a].size > size => r.heap.blocks[r.at].size > size
        BY <4>10, <4>15, <4>16, <4>17
      <4> QED BY <4>10, <4>14, <4>18, <3>2, <1>3 DEF PaddingCut, n
    <3> QED BY <3>5, <3>6
  <2> QED BY <2>2, <2>3
<1> QED BY <1>2, <1>3

(* The heap keeps to the multiples of d. *)
StaysDivided(h, k, size) ==
  \A d \in Nat \ {0} : Divided(h.blocks, d) /\ size % d = 0 => Divided(k.blocks, d)

TailCut(h, g, r, U, a, size) ==
  /\ r.ok \in BOOLEAN
  /\ ~ r.ok => Spoiled(h, r.heap, U, a) /\ SomeFailure
  /\ r.ok => \E P : /\ Pieces(h, r.heap, U, a, P, r.at) /\ Inside(h, r.heap, U, a, P, r.at)
                    /\ r.heap.blocks[r.at].size = size
  /\ StaysDivided(g, r.heap, size)

(* A size of the memory fits in a word. *)
LEMMA WordWide ==
  ASSUME NEW x \in Nat, x <= Memory
  PROVE  x % Word = x
<1>1. Word \in Nat /\ x < Word
  BY CoarseAssumption
<1> QED BY <1>1

(* What split_current_block leaves when the list of the new block can be made. *)
LEMMA CutTailIs ==
  ASSUME "splitList" \notin FailingAt,
         NEW h, NEW U, NEW a, a \notin ListedSet(h), NEW g, NEW P, NEW at,
         Pieces(h, g, U, a, P, at), Inside(h, g, U, a, P, at), \A p \in P : p <= at,
         NEW size \in Nat, size > 0, g.blocks[at].size > size,
         NEW r \in CutTail(g, at, size)
  PROVE  TailCut(h, g, r, U, a, size)
<1> DEFINE n == g.blocks[at].size
           tail == at + size
<1>0. /\ at \in DOMAIN g.blocks /\ at \in P /\ a \in P /\ P \subseteq Nat
      /\ P \cap DOMAIN h.blocks = {a} /\ DOMAIN g.blocks = DOMAIN h.blocks \cup P
      /\ \A b \in DOMAIN h.blocks \ {a} : g.blocks[b] = h.blocks[b]
      /\ \A p \in P \ {at} : ~ g.blocks[p].used
      /\ ListedSet(g) = ListedSet(h) \cup (P \ {at}) /\ KeepsFull(h, g) /\ Sound(g, U)
  BY DEF Pieces
<1>1. /\ Fine(g) /\ Tiles(g.blocks, U) /\ at \in Nat /\ n \in Nat /\ at + n <= Memory
      /\ Memory \in Nat /\ DOMAIN g.blocks \subseteq Nat
      /\ \A b \in DOMAIN g.blocks : g.blocks[b].size \in Nat /\ g.blocks[b].size > 0
      /\ \A b, c \in DOMAIN g.blocks : b < c => b + g.blocks[b].size <= c
  BY <1>0, BlockFacts, CoarseAssumption DEF Sound, Fine
<1>2. at \notin ListedSet(g)
  BY <1>0 DEF ListedSet
<1>3. tail \notin DOMAIN g.blocks
  <2> SUFFICES ASSUME tail \in DOMAIN g.blocks PROVE FALSE
    OBVIOUS
  <2>1. at < tail /\ tail < at + n
    BY <1>1
  <2> QED BY <2>1, <1>0, <1>1
<1>4. (n - size) % Word = n - size /\ n - size \in Nat
  <2>1. n - size \in Nat /\ n - size <= Memory
    BY <1>1
  <2> QED BY <2>1, WordWide
<1>5. PICK new \in AddNew(g, tail, n - size, "splitNode") :
        r \in IF ~new.ok THEN {Result(g, at, FALSE)}
              ELSE {Result(IF s.ok THEN SetSize(s.heap, at, size) ELSE s.heap, at, s.ok) :
                      s \in AddFree(SetUsed(new.heap, tail, FALSE), tail, "splitList")}
  BY <1>4 DEF CutTail
<1> HIDE DEF n
<1>6. Created(g, tail, n - size, "splitNode", new)
  BY <1>1, <1>3, <1>4, <1>5, AddNewIs
<1>7. CASE ~ new.ok
  <2>1. r = Result(g, at, FALSE) /\ CanFail("splitNode")
    BY <1>5, <1>6, <1>7 DEF Created
  <2>2. r.ok = FALSE /\ r.heap = g
    BY <2>1 DEF Result
  <2>3. Spoiled(h, g, U, a)
    BY <1>0 DEF Spoiled
  <2>4. SomeFailure
    BY <2>1 DEF SomeFailure, Sites
  <2>5. StaysDivided(g, g, size)
    BY DEF StaysDivided
  <2> QED BY <2>2, <2>3, <2>4, <2>5 DEF TailCut
<1>8. CASE new.ok
  <2> DEFINE m == new.heap
             e == SetUsed(m, tail, FALSE)
  <2>1. PICK s \in AddFree(e, tail, "splitList") :
          r = Result(IF s.ok THEN SetSize(s.heap, at, size) ELSE s.heap, at, s.ok)
    BY <1>5, <1>8
  <2>2. PICK u \in BOOLEAN : Changed(g, m, tail, n - size, u)
    BY <1>6, <1>8 DEF Created
  <2> HIDE DEF m
  <2>3. /\ Fine(m) /\ ListedSet(m) = ListedSet(g) /\ KeepsFull(g, m)
        /\ DOMAIN m.blocks = DOMAIN g.blocks \cup {tail} /\ m.blocks[tail].size = n - size
        /\ \A b \in DOMAIN g.blocks : m.blocks[b] = g.blocks[b]
    BY <2>2, <1>3 DEF Changed, Now
  <2> HIDE DEF e
  <2>4. tail \notin ListedSet(g)
    BY <1>3 DEF ListedSet
  <2>5. Changed(m, e, tail, m.blocks[tail].size, FALSE)
    BY <2>3, <2>4, SetUsedIs DEF e
  <2>6. /\ Fine(e) /\ ListedSet(e) = ListedSet(g) /\ KeepsFull(g, e)
        /\ DOMAIN e.blocks = DOMAIN g.blocks \cup {tail}
        /\ e.blocks[tail].size = n - size /\ ~ e.blocks[tail].used
        /\ \A b \in DOMAIN g.blocks : e.blocks[b] = g.blocks[b]
    BY <2>3, <2>5, <1>3 DEF Changed, Now, KeepsFull
  <2>7. Added(e, tail, "splitList", s)
    <3>1. e.blocks[tail].size \in 1 .. Memory /\ tail \in Nat
      BY <2>6, <1>1 DEF n
    <3> QED BY <3>1, <2>1, <2>4, <2>6, AddFreeIs
  <2>8. s.ok
    BY <2>7 DEF Added, CanFail
  <2> DEFINE q == s.heap
             k == SetSize(q, at, size)
  <2>9. /\ Fine(q) /\ q.blocks = e.blocks /\ ListedSet(q) = ListedSet(g) \cup {tail}
        /\ KeepsFull(g, q)
    BY <2>6, <2>7, <2>8 DEF Added, Now, KeepsFull
  <2> HIDE DEF q
  <2>10. r.ok = TRUE /\ r.heap = k /\ r.at = at
    BY <2>1, <2>8 DEF Result, q
  <2> HIDE DEF k
  <2>11. at \notin ListedSet(q) /\ at # tail
    BY <2>9, <1>2, <1>0, <1>3
  <2>12. Changed(q, k, at, size, q.blocks[at].used)
    BY <2>6, <2>9, <2>11, <1>0, SetSizeIs DEF k
  <2> DEFINE C == k.blocks
  <2>13. /\ Fine(k) /\ ListedSet(k) = ListedSet(g) \cup {tail} /\ KeepsFull(g, k)
         /\ DOMAIN C = DOMAIN g.blocks \cup {tail}
         /\ C[tail].size = n - size /\ ~ C[tail].used /\ C[at].size = size
         /\ \A b \in DOMAIN g.blocks \ {at} : C[b] = g.blocks[b]
    BY <2>6, <2>9, <2>11, <2>12, <1>0, <1>3 DEF Changed, Now, KeepsFull
  <2> HIDE DEF C
  <2>14. Tiles(C, U)
    <3>1. \A b \in DOMAIN g.blocks \ {at} : C[b].size = g.blocks[b].size
      BY <2>13
    <3>2. DOMAIN C = DOMAIN g.blocks \cup {at + size} /\ C[at].size = size
          /\ C[at + size].size = g.blocks[at].size - size
      BY <2>13 DEF n
    <3> QED BY <3>1, <3>2, <1>0, <1>1, CutTiles
  <2>15. Sound(k, U)
    BY <2>13, <2>14 DEF Sound, Fine, C
  <2> DEFINE Q == P \cup {tail}
  <2>16. Pieces(h, k, U, a, Q, at)
    <3>1. KeepsFull(h, k)
      BY <2>13, <1>0 DEF KeepsFull
    <3>2. tail \in Nat /\ tail \notin DOMAIN h.blocks
      BY <1>0, <1>1, <1>3
    <3>3. Q \subseteq Nat /\ Q \cap DOMAIN h.blocks = {a} /\ DOMAIN k.blocks = DOMAIN h.blocks \cup Q
      BY <3>2, <2>13, <1>0 DEF C
    <3>4. \A b \in DOMAIN h.blocks \ {a} : k.blocks[b] = h.blocks[b]
      BY <2>13, <1>0 DEF C
    <3>5. \A p \in Q \ {at} : ~ k.blocks[p].used
      BY <2>13, <1>0 DEF C
    <3>6. ListedSet(k) = ListedSet(h) \cup (Q \ {at})
      BY <2>13, <2>11, <1>0
    <3> HIDE DEF Q
    <3>7. a \in Q /\ at \in Q
      BY <1>0 DEF Q
    <3> QED BY <3>1, <3>3, <3>4, <3>5, <3>6, <3>7, <2>15 DEF Pieces
  <2>17. Inside(h, k, U, a, Q, at)
    <3> SUFFICES ASSUME NEW b \in DOMAIN C, NEW c \in DOMAIN C, Touch(C, U, b, c)
                 PROVE  \/ b \in Q /\ c \in Q /\ (b = at \/ c = at)
                        \/ Touch(h.blocks, U, IF b \in Q THEN a ELSE b, IF c \in Q THEN a ELSE c)
      BY DEF Inside, C
    <3>1. CASE b = at /\ c = tail
      BY <3>1, <1>0
    <3>2. CASE ~ (b = at /\ c = at + size)
      <4> DEFINE b1 == IF b = tail THEN at ELSE b
                 c1 == IF c = tail THEN at ELSE c
      <4>1. /\ \A x \in DOMAIN g.blocks \ {at} : C[x].size = g.blocks[x].size
            /\ DOMAIN C = DOMAIN g.blocks \cup {at + size} /\ C[at].size = size
            /\ C[at + size].size = g.blocks[at].size - size
        BY <2>13 DEF n
      <4>2. AsBefore(g.blocks, U, at, at + size, b, c)
        BY <4>1, <3>2, <1>0, <1>1, CutTouch
      <4>3. Touch(g.blocks, U, b1, c) /\ b # at /\ c # tail
        BY <4>2 DEF AsBefore
      <4>4. b1 \in DOMAIN g.blocks /\ c \in DOMAIN g.blocks
        BY <4>3, <2>13, <1>0
      <4>5. \/ b1 \in P /\ c \in P /\ (b1 = at \/ c = at)
            \/ Touch(h.blocks, U, IF b1 \in P THEN a ELSE b1, IF c \in P THEN a ELSE c)
        BY <4>3, <4>4 DEF Inside
      <4>6. tail \notin P
        BY <1>0, <1>3
      <4>7. (b1 \in P <=> b \in Q) /\ (c \in P <=> c \in Q)
        BY <4>3, <4>6, <1>0
      <4>8. b1 \notin P => b1 = b
        BY <1>0
      <4>9. CASE Touch(h.blocks, U, IF b1 \in P THEN a ELSE b1, IF c \in P THEN a ELSE c)
        <5>1. (IF b \in Q THEN a ELSE b) = (IF b1 \in P THEN a ELSE b1)
              /\ (IF c \in Q THEN a ELSE c) = (IF c \in P THEN a ELSE c)
          BY <4>7, <4>8
        <5> HIDE DEF b1, Q
        <5> QED BY <5>1, <4>9
      <4>10. CASE b1 \in P /\ c \in P /\ b1 = at
        <5>1. c <= at
          BY <4>10
        <5>2. at + n = c
          BY <4>3, <4>10 DEF Touch, n
        <5>3. n > 0
          BY <1>0, <1>1 DEF n
        <5> QED BY <5>1, <5>2, <5>3, <1>1
      <4>11. CASE b1 \in P /\ c \in P /\ c = at
        BY <4>11, <4>7
      <4> QED BY <4>5, <4>9, <4>10, <4>11
    <3> QED BY <3>1, <3>2
  <2>18. StaysDivided(g, k, size)
    <3> SUFFICES ASSUME NEW d \in Nat \ {0}, Divided(g.blocks, d), size % d = 0, NEW b \in DOMAIN C
                 PROVE  b % d = 0 /\ C[b].size % d = 0
      BY DEF StaysDivided, Divided, C
    <3>0. \A x \in DOMAIN g.blocks : x % d = 0 /\ g.blocks[x].size % d = 0
      BY DEF Divided
    <3>1. CASE b = tail
      <4>1. at % d = 0 /\ n % d = 0
        BY <3>0, <1>0 DEF n
      <4>2. (at + size) % d = 0
        BY <4>1, <1>1, DividedSum
      <4>3. size <= n /\ n \in Nat
        BY <1>1 DEF n
      <4>4. (n - size) % d = 0
        BY <4>1, <4>3, DividedDifference
      <4> QED BY <4>2, <4>4, <3>1, <2>13
    <3>2. CASE b = at
      BY <3>2, <3>0, <2>13, <1>0
    <3>3. CASE b \in DOMAIN g.blocks \ {at}
      BY <3>3, <3>0, <2>13
    <3> QED BY <3>1, <3>2, <3>3, <2>13
  <2>19. \E R : /\ Pieces(h, r.heap, U, a, R, r.at) /\ Inside(h, r.heap, U, a, R, r.at)
                /\ r.heap.blocks[r.at].size = size
    <3> HIDE DEF Q
    <3> QED BY <2>10, <2>13, <2>16, <2>17 DEF C
  <2> QED BY <2>10, <2>18, <2>19 DEF TailCut
<1> QED BY <1>7, <1>8

Reused(h, r, U, a, size, al) ==
  /\ r.ok \in BOOLEAN
  /\ ~ r.ok => Spoiled(h, r.heap, U, a) /\ SomeFailure
  /\ r.ok => \E P : /\ Pieces(h, r.heap, U, a, P, r.at) /\ Inside(h, r.heap, U, a, P, r.at)
                    /\ r.heap.blocks[r.at].size = size
  /\ (al = 0 \/ a % al = 0) => StaysDivided(h, r.heap, size)

(* What becomes of the block that was found. *)
LEMMA ReuseIs ==
  ASSUME "splitList" \notin FailingAt,
         NEW h, NEW U, Sound(h, U), NEW a \in DOMAIN h.blocks, a \notin ListedSet(h),
         ~ h.blocks[a].used, NEW size \in Nat, size > 0, NEW al \in Nat, size <= h.blocks[a].size,
         al = 0 \/ a % al = 0 \/ h.blocks[a].size >= size + al,
         NEW r \in Reuse(h, a, size, al)
  PROVE  Reused(h, r, U, a, size, al)
<1>1. PICK cut \in CutAligned(h, a, al) :
        r \in IF cut.ok /\ h.blocks[a].size > size THEN CutTail(cut.heap, cut.at, size) ELSE {cut}
  BY DEF Reuse
<1>2. PaddingCut(h, cut, U, a, size, al)
  BY CutAlignedIs
<1>3. CASE ~ cut.ok
  <2>1. r = cut
    BY <1>1, <1>3
  <2>2. ~ (al = 0 \/ a % al = 0)
    <3>1. Result(h, a, TRUE).ok = TRUE
      BY DEF Result
    <3> QED BY <3>1, <1>2, <1>3 DEF PaddingCut
  <2> QED BY <2>1, <2>2, <1>2, <1>3 DEF PaddingCut, Reused
<1>4. CASE cut.ok
  <2>1. PICK P : /\ Pieces(h, cut.heap, U, a, P, cut.at) /\ Inside(h, cut.heap, U, a, P, cut.at)
                 /\ \A p \in P : p <= cut.at
                 /\ h.blocks[a].size > size => cut.heap.blocks[cut.at].size > size
    BY <1>2, <1>4 DEF PaddingCut
  <2>2. CASE h.blocks[a].size > size
    <3>1. r \in CutTail(cut.heap, cut.at, size)
      BY <1>1, <1>4, <2>2
    <3>2. TailCut(h, cut.heap, r, U, a, size)
      BY <2>1, <2>2, <3>1, CutTailIs
    <3>3. (al = 0 \/ a % al = 0) => StaysDivided(h, r.heap, size)
      <4>1. Result(h, a, TRUE).heap = h
        BY DEF Result
      <4>2. (al = 0 \/ a % al = 0) => cut.heap = h
        BY <4>1, <1>2 DEF PaddingCut
      <4> QED BY <4>2, <3>2 DEF TailCut
    <3> QED BY <3>2, <3>3 DEF TailCut, Reused
  <2>3. CASE ~ (h.blocks[a].size > size)
    <3>1. h.blocks[a].size \in Nat
      BY BlockFacts DEF Sound
    <3>2. h.blocks[a].size = size
      BY <3>1, <2>3
    <3>3. cut = Result(h, a, TRUE) /\ r = cut
      BY <1>1, <1>2, <2>3, <3>2 DEF PaddingCut
    <3>4. cut.heap = h /\ cut.at = a
      BY <3>3 DEF Result
    <3>5. StaysDivided(h, h, size)
      BY DEF StaysDivided
    <3> QED BY <2>1, <3>2, <3>3, <3>4, <3>5, <1>4 DEF Reused
  <2> QED BY <2>2, <2>3
<1> QED BY <1>3, <1>4, <1>2 DEF PaddingCut

(***************************************************************************)
(* Merging blocks that touch                                               *)
(***************************************************************************)
(* What touches b and c, of which y has been added to x. *)
BeforeJoin(B, U, x, y, b, c) == Touch(B, U, IF b = x THEN y ELSE b, c)

(* Blocks that touch may be joined, *)
LEMMA JoinSound ==
  ASSUME NEW h, NEW U, Sound(h, U), NEW x \in DOMAIN h.blocks, NEW y \in DOMAIN h.blocks,
         Touch(h.blocks, U, x, y), NEW k, Joined(h, k, x, y)
  PROVE  Sound(k, U) /\ x \in DOMAIN k.blocks /\ x # y
<1> DEFINE B == h.blocks
           C == k.blocks
<1>0. Tiles(B, U) /\ x \in Nat /\ B[x].size \in Nat /\ B[x].size > 0
  BY BlockFacts DEF Sound
<1>1. PICK o \in DOMAIN U : Lies(B, U, x, o) /\ Lies(B, U, y, o)
  BY DEF Touch
<1>2. x + B[x].size = y
  BY DEF Touch
<1>3. x # y
  BY <1>0, <1>2
<1>4. /\ DOMAIN C = DOMAIN B \ {y} /\ C[x].size = B[x].size + B[y].size
      /\ \A c \in DOMAIN C \ {x} : C[c].size = B[c].size
      /\ Fine(k)
  BY DEF Joined, Now
<1> HIDE DEF B, C
<1>5. Tiles(C, U)
  BY <1>0, <1>1, <1>2, <1>4, JoinTiles DEF B
<1> QED BY <1>3, <1>4, <1>5 DEF Sound, Fine, B, C

(* and what then touches did so before. *)
LEMMA JoinTouch ==
  ASSUME NEW h, NEW U, Sound(h, U), NEW x \in DOMAIN h.blocks, NEW y \in DOMAIN h.blocks,
         Touch(h.blocks, U, x, y), NEW k, Joined(h, k, x, y),
         NEW b \in DOMAIN k.blocks, NEW c \in DOMAIN k.blocks, Touch(k.blocks, U, b, c)
  PROVE  BeforeJoin(h.blocks, U, x, y, b, c)
<1> DEFINE B == h.blocks
           C == k.blocks
<1>0. /\ \A z \in DOMAIN B : z \in Nat /\ B[z].size \in Nat /\ B[z].size > 0
      /\ \A o \in DOMAIN U : o \in Nat /\ U[o] \in Nat
  BY BlockFacts DEF Sound
<1>1. x + B[x].size = y
  BY DEF Touch
<1>2. /\ DOMAIN C = DOMAIN B \ {y} /\ C[x].size = B[x].size + B[y].size
      /\ \A z \in DOMAIN C \ {x} : C[z].size = B[z].size
  BY DEF Joined
<1>3. PICK o \in DOMAIN U : Lies(C, U, b, o) /\ Lies(C, U, c, o) /\ b + C[b].size = c
  BY DEF Touch
<1>4. b \in DOMAIN C /\ c \in DOMAIN C
  OBVIOUS
<1> HIDE DEF B, C
<1>5. Lies(B, U, c, o)
  <2>1. CASE c = x
    BY <2>1, <1>0, <1>2, <1>3, <1>4 DEF Lies, B
  <2>2. CASE c # x
    BY <2>2, <1>2, <1>3, <1>4 DEF Lies
  <2> QED BY <2>1, <2>2
<1>6. CASE b = x
  <2>1. y + B[y].size = c
    BY <1>6, <1>0, <1>1, <1>2, <1>3 DEF B
  <2>2. Lies(B, U, y, o)
    BY <1>6, <1>0, <1>1, <1>2, <1>3 DEF Lies, B
  <2> QED BY <2>1, <2>2, <1>5, <1>6 DEF Touch, BeforeJoin, B
<1>7. CASE b # x
  <2>1. b + B[b].size = c /\ Lies(B, U, b, o)
    BY <1>7, <1>2, <1>3, <1>4 DEF Lies
  <2> QED BY <2>1, <1>5, <1>7 DEF Touch, BeforeJoin, B
<1> QED BY <1>6, <1>7

(* Two blocks could be merged when both are unused and touch. *)
LEMMA JoinsIs ==
  ASSUME NEW B, NEW U, NEW a, NEW b
  PROVE  Joins(B, U, a, b) <=> ~ B[a].used /\ ~ B[b].used /\ Touch(B, U, a, b)
BY DEF Joins, Touch

(* No two blocks beside X could be merged. *)
Quiet(h, U, X) == \A b, c \in DOMAIN h.blocks \ X : ~ Joins(h.blocks, U, b, c)

KeepsDivided(h, k) == \A d \in Nat \ {0} : Divided(h.blocks, d) => Divided(k.blocks, d)

(* From g to k the unused block a has been merged, with others, into at. *)
Merging(g, k, U, a, at) ==
  /\ Sound(k, U) /\ KeepsFull(g, k)
  /\ at \in DOMAIN k.blocks /\ ~ k.blocks[at].used /\ at \notin ListedSet(k)
  /\ DOMAIN k.blocks \subseteq DOMAIN g.blocks
  /\ \A b \in DOMAIN g.blocks : g.blocks[b].used => b \in DOMAIN k.blocks /\ b # at
  /\ \A b \in DOMAIN k.blocks \ {at} :
       k.blocks[b] = g.blocks[b] /\ b # a /\ (b \in ListedSet(g) => b \in ListedSet(k))
  /\ KeepsDivided(g, k)
  /\ Quiet(g, U, {a}) => Quiet(k, U, {at})

(* Nothing is merged yet. *)
LEMMA MergingStarts ==
  ASSUME NEW g, NEW U, Sound(g, U), NEW a \in DOMAIN g.blocks, ~ g.blocks[a].used,
         a \notin ListedSet(g)
  PROVE  Merging(g, g, U, a, a)
<1>1. KeepsDivided(g, g) /\ KeepsFull(g, g)
  BY DEF KeepsDivided, KeepsFull
<1> QED BY <1>1 DEF Merging

(* The merged block is joined with a neighbour. *)
LEMMA MergingGoesOn ==
  ASSUME NEW g, NEW h, NEW U, NEW a, NEW at, Merging(g, h, U, a, at),
         NEW x \in DOMAIN h.blocks, NEW y \in DOMAIN h.blocks, Joins(h.blocks, U, x, y),
         at = x \/ at = y
  PROVE  Merging(g, JoinBlocks(h, x, y), U, a, x)
<1> DEFINE k == JoinBlocks(h, x, y)
<1>0. /\ Sound(h, U) /\ KeepsFull(g, h) /\ ~ h.blocks[at].used /\ at \notin ListedSet(h)
      /\ DOMAIN h.blocks \subseteq DOMAIN g.blocks
      /\ \A b \in DOMAIN g.blocks : g.blocks[b].used => b \in DOMAIN h.blocks /\ b # at
      /\ \A b \in DOMAIN h.blocks \ {at} :
           h.blocks[b] = g.blocks[b] /\ b # a /\ (b \in ListedSet(g) => b \in ListedSet(h))
      /\ KeepsDivided(g, h) /\ (Quiet(g, U, {a}) => Quiet(h, U, {at}))
  BY DEF Merging
<1>1. ~ h.blocks[x].used /\ ~ h.blocks[y].used /\ Touch(h.blocks, U, x, y)
  BY JoinsIs
<1>2. x # y /\ x \in Nat /\ y \in Nat /\ h.blocks[x].size \in Nat /\ h.blocks[y].size \in Nat /\ Fine(h)
  BY <1>0, <1>1, BlockFacts DEF Touch, Sound, Fine
<1> HIDE DEF k
<1>3. Joined(h, k, x, y)
  BY <1>2, JoinBlocksIs DEF k
<1>4. Sound(k, U) /\ x \in DOMAIN k.blocks
  BY <1>0, <1>1, <1>3, JoinSound
<1>5. /\ ListedSet(k) = ListedSet(h) \ {x, y} /\ KeepsFull(h, k)
      /\ DOMAIN k.blocks = DOMAIN h.blocks \ {y}
      /\ k.blocks[x].size = h.blocks[x].size + h.blocks[y].size
      /\ k.blocks[x].used = h.blocks[x].used
      /\ \A c \in DOMAIN h.blocks \ {x, y} : k.blocks[c] = h.blocks[c]
  BY <1>3 DEF Joined, Now
<1>6. KeepsFull(g, k)
  BY <1>0, <1>5 DEF KeepsFull
<1>7. ~ k.blocks[x].used /\ x \notin ListedSet(k) /\ DOMAIN k.blocks \subseteq DOMAIN g.blocks
  BY <1>0, <1>1, <1>5
<1>8. \A b \in DOMAIN g.blocks : g.blocks[b].used => b \in DOMAIN k.blocks /\ b # x
  <2> SUFFICES ASSUME NEW b \in DOMAIN g.blocks, g.blocks[b].used
               PROVE  b \in DOMAIN k.blocks /\ b # x
    OBVIOUS
  <2>1. b \in DOMAIN h.blocks /\ b # at /\ h.blocks[b].used
    BY <1>0
  <2> QED BY <2>1, <1>1, <1>5
<1>9. \A b \in DOMAIN k.blocks \ {x} :
        k.blocks[b] = g.blocks[b] /\ b # a /\ (b \in ListedSet(g) => b \in ListedSet(k))
  BY <1>0, <1>5
<1>10. KeepsDivided(g, k)
  <2> SUFFICES ASSUME NEW d \in Nat \ {0}, Divided(h.blocks, d)
               PROVE  Divided(k.blocks, d)
    BY <1>0 DEF KeepsDivided
  <2>1. \A b \in DOMAIN h.blocks : b % d = 0 /\ h.blocks[b].size % d = 0
    BY DEF Divided
  <2>2. k.blocks[x].size % d = 0
    <3>1. (h.blocks[x].size + h.blocks[y].size) % d = 0
      BY <2>1, <1>2, DividedSum
    <3> QED BY <3>1, <1>5
  <2>3. \A b \in DOMAIN k.blocks : b % d = 0 /\ k.blocks[b].size % d = 0
    BY <2>1, <2>2, <1>5
  <2> QED BY <2>3 DEF Divided
<1>11. ASSUME Quiet(h, U, {at}), NEW b \in DOMAIN k.blocks \ {x}, NEW c \in DOMAIN k.blocks \ {x},
              Joins(k.blocks, U, b, c)
       PROVE  FALSE
  <2>1. ~ k.blocks[b].used /\ ~ k.blocks[c].used /\ Touch(k.blocks, U, b, c)
    BY <1>11, JoinsIs
  <2>2. BeforeJoin(h.blocks, U, x, y, b, c)
    BY <2>1, <1>0, <1>1, <1>3, JoinTouch
  <2>3. /\ Touch(h.blocks, U, b, c) /\ ~ h.blocks[b].used /\ ~ h.blocks[c].used
        /\ b \in DOMAIN h.blocks \ {at} /\ c \in DOMAIN h.blocks \ {at}
    BY <2>1, <2>2, <1>5, <1>11 DEF BeforeJoin
  <2>4. Joins(h.blocks, U, b, c)
    BY <2>3, JoinsIs
  <2> QED BY <2>3, <2>4, <1>11 DEF Quiet
<1>12. Quiet(g, U, {a}) => Quiet(k, U, {x})
  BY <1>0, <1>11 DEF Quiet
<1>13. Merging(g, k, U, a, x)
  BY <1>4, <1>6, <1>7, <1>8, <1>9, <1>10, <1>12 DEF Merging
<1> QED BY <1>13 DEF k

(* The neighbours. *)
LEMMA LeftNeighbour ==
  ASSUME NEW h, NEW U, Sound(h, U), NEW x \in DOMAIN h.blocks, NEW a \in DOMAIN h.blocks,
         x + h.blocks[x].size = a
  PROVE  x \in Before(h.blocks, a) /\ x = Max(Before(h.blocks, a))
<1> DEFINE S == Before(h.blocks, a)
<1>0. /\ x \in Nat /\ a \in Nat /\ h.blocks[x].size \in Nat /\ h.blocks[x].size > 0
      /\ \A b \in DOMAIN h.blocks : b \in Nat /\ (x < b => x + h.blocks[x].size <= b)
  BY BlockFacts DEF Sound
<1>1. x \in S /\ \A b \in S : b \in Nat /\ x >= b
  BY <1>0 DEF Before
<1>2. \A z \in S : (\A b \in S : z >= b) => z = x
  BY <1>0, <1>1
<1> HIDE DEF S
<1>3. Max(S) = x
  BY <1>1, <1>2 DEF Max
<1> QED BY <1>1, <1>3 DEF S

(* The block that follows is the least one after. *)
LEMMA RightNeighbour ==
  ASSUME NEW h, NEW U, Sound(h, U), NEW x \in DOMAIN h.blocks, NEW a \in DOMAIN h.blocks,
         a + h.blocks[a].size = x
  PROVE  x \in After(h.blocks, a) /\ x = Min(After(h.blocks, a))
<1> DEFINE S == After(h.blocks, a)
<1>0. /\ x \in Nat /\ a \in Nat /\ h.blocks[a].size \in Nat /\ h.blocks[a].size > 0
      /\ \A b \in DOMAIN h.blocks : b \in Nat /\ (a < b => a + h.blocks[a].size <= b)
  BY BlockFacts DEF Sound
<1>1. x \in S /\ \A b \in S : b \in Nat /\ x <= b
  BY <1>0 DEF After
<1>2. \A z \in S : (\A b \in S : z <= b) => z = x
  BY <1>0, <1>1
<1> HIDE DEF S
<1>3. Min(S) = x
  BY <1>1, <1>2 DEF Min
<1> QED BY <1>1, <1>3 DEF S

(* MergeableIs in a sound heap. *)
LEMMA MergeableHere ==
  ASSUME NEW h, NEW U, Sound(h, U), NEW a \in DOMAIN h.blocks, NEW b \in DOMAIN h.blocks
  PROVE  Mergeable(U, h, a, b, FALSE) <=> Joins(h.blocks, U, a, b)
<1>1. Tiles(h.blocks, U) /\ h.blocks[a].used \in BOOLEAN /\ h.blocks[b].used \in BOOLEAN
  BY DEF Sound, Shape
<1> QED BY <1>1, MergeableIs

Coalesced(g, m, U, a) ==
  Merging(g, m.heap, U, a, m.at) /\ (Quiet(g, U, {a}) => Quiet(m.heap, U, {}))

(* Merging with the block before and the block after leaves nothing to merge. *)
LEMMA CoalesceIs ==
  ASSUME NEW g, NEW U, Sound(g, U), NEW a \in DOMAIN g.blocks, ~ g.blocks[a].used,
         a \notin ListedSet(g)
  PROVE  Coalesced(g, Coalesce(U, g, a), U, a)
<1> DEFINE prev == {x \in Before(g.blocks, a) :
                      x = Max(Before(g.blocks, a)) /\ Mergeable(U, g, x, a, FALSE)}
           low == IF prev = {} THEN a ELSE Min(prev)
           h == IF prev = {} THEN g ELSE JoinBlocks(g, low, a)
           next == {x \in After(h.blocks, low) :
                      x = Min(After(h.blocks, low)) /\ Mergeable(U, h, low, x, FALSE)}
           k == IF next = {} THEN h ELSE JoinBlocks(h, low, Min(next))
<1>0. Coalesce(U, g, a) = [heap |-> k, at |-> low]
  BY DEF Coalesce
<1>1. Merging(g, g, U, a, a)
  BY MergingStarts
<1>2. /\ Merging(g, h, U, a, low)
      /\ Quiet(g, U, {a}) => \A b \in DOMAIN h.blocks : ~ Joins(h.blocks, U, b, low)
  <2>1. CASE prev = {}
    <3>1. low = a /\ h = g
      BY <2>1
    <3>2. ASSUME NEW b \in DOMAIN g.blocks, Joins(g.blocks, U, b, a)
          PROVE  FALSE
      <4>1. b \in Before(g.blocks, a) /\ b = Max(Before(g.blocks, a))
        BY <3>2, LeftNeighbour DEF Joins
      <4>2. Mergeable(U, g, b, a, FALSE)
        BY <3>2, MergeableHere
      <4> QED BY <4>1, <4>2, <2>1
    <3> HIDE DEF h, low
    <3> QED BY <3>1, <3>2, <1>1
  <2>2. CASE prev # {}
    <3>1. PICK x : x \in prev
      BY <2>2
    <3>2. x \in DOMAIN g.blocks /\ prev = {x} /\ Mergeable(U, g, x, a, FALSE)
      BY <3>1 DEF Before
    <3>3. x \in Int
      BY <3>2, BlockFacts DEF Sound
    <3> HIDE DEF prev
    <3>4. low = x /\ h = JoinBlocks(g, x, a)
      BY <3>2, <3>3, <2>2, MinOfOne
    <3>5. Joins(g.blocks, U, x, a)
      BY <3>2, MergeableHere
    <3> HIDE DEF h, low
    <3>6. Merging(g, JoinBlocks(g, x, a), U, a, x)
      BY <3>2, <3>5, <1>1, MergingGoesOn
    <3>7. ASSUME Quiet(g, U, {a}), NEW b \in DOMAIN h.blocks, Joins(h.blocks, U, b, x)
          PROVE  FALSE
      <4>1. Touch(g.blocks, U, x, a) /\ x # a /\ a \in Nat
        <5>1. x \in Nat /\ g.blocks[x].size \in Nat /\ g.blocks[x].size > 0 /\ a \in Nat
          BY <3>2, BlockFacts DEF Sound
        <5> QED BY <5>1, <3>5, JoinsIs DEF Touch
      <4>2. Joined(g, h, x, a)
        BY <3>2, <3>4, <4>1, JoinBlocksIs DEF Sound, Fine
      <4>3. x \in DOMAIN h.blocks
        BY <4>2, <3>2, <4>1 DEF Joined
      <4>4. Touch(h.blocks, U, b, x) /\ ~ h.blocks[b].used /\ ~ h.blocks[x].used
        BY <3>7, JoinsIs
      <4>5. BeforeJoin(g.blocks, U, x, a, b, x)
        BY <3>2, <4>1, <4>2, <4>3, <4>4, JoinTouch
      <4>6. b # x
        <5>1. x \in Nat /\ h.blocks[x].size \in Nat /\ h.blocks[x].size > 0
          <6>1. Tiles(h.blocks, U)
            BY <3>4, <3>6 DEF Merging, Sound
          <6> QED BY <6>1, <4>3, BlockFacts
        <5> QED BY <5>1, <4>4 DEF Touch
      <4>7. Touch(g.blocks, U, b, x) /\ b \in DOMAIN g.blocks \ {a} /\ ~ g.blocks[b].used
        BY <4>2, <4>4, <4>5, <4>6 DEF BeforeJoin, Joined
      <4>8. Joins(g.blocks, U, b, x)
        BY <4>7, <3>5, JoinsIs
      <4> QED BY <4>7, <4>8, <4>1, <3>2, <3>7 DEF Quiet
    <3> QED BY <3>4, <3>6, <3>7
  <2> QED BY <2>1, <2>2
<1> HIDE DEF h, low
<1>3. /\ Sound(h, U) /\ low \in DOMAIN h.blocks /\ low \in Nat
      /\ Quiet(g, U, {a}) => Quiet(h, U, {low})
  BY <1>2, BlockFacts DEF Merging, Sound
<1>4. CASE next = {}
  <2>1. k = h
    BY <1>4
  <2>2. ASSUME NEW c \in DOMAIN h.blocks, Joins(h.blocks, U, low, c)
        PROVE  FALSE
    <3>1. c \in After(h.blocks, low) /\ c = Min(After(h.blocks, low))
      BY <2>2, <1>3, RightNeighbour DEF Joins
    <3>2. Mergeable(U, h, low, c, FALSE)
      BY <2>2, <1>3, MergeableHere
    <3> QED BY <3>1, <3>2, <1>4
  <2>3. Quiet(g, U, {a}) => Quiet(h, U, {})
    BY <2>2, <1>2, <1>3 DEF Quiet
  <2> HIDE DEF k
  <2> QED BY <2>1, <2>3, <1>0, <1>2 DEF Coalesced
<1>5. CASE next # {}
  <2>1. PICK y : y \in next
    BY <1>5
  <2>2. y \in DOMAIN h.blocks /\ next = {y} /\ Mergeable(U, h, low, y, FALSE)
    BY <2>1 DEF After
  <2>3. y \in Int
    BY <2>2, <1>3, BlockFacts DEF Sound
  <2> HIDE DEF next
  <2>4. k = JoinBlocks(h, low, y)
    BY <2>2, <2>3, <1>5, MinOfOne
  <2>5. Joins(h.blocks, U, low, y)
    BY <2>2, <1>3, MergeableHere
  <2> HIDE DEF k
  <2>6. Merging(g, k, U, a, low)
    BY <2>2, <2>4, <2>5, <1>2, <1>3, MergingGoesOn
  <2>7. ASSUME Quiet(g, U, {a}), NEW b \in DOMAIN k.blocks, NEW c \in DOMAIN k.blocks,
               Joins(k.blocks, U, b, c)
        PROVE  FALSE
    <3>1. Touch(h.blocks, U, low, y) /\ low # y
      <4>1. h.blocks[low].size \in Nat /\ h.blocks[low].size > 0
        BY <1>3, BlockFacts DEF Sound
      <4> QED BY <4>1, <1>3, <2>5, JoinsIs DEF Touch
    <3>2. Joined(h, k, low, y)
      BY <1>3, <2>2, <2>4, <3>1, JoinBlocksIs DEF Sound, Fine
    <3>3. Touch(k.blocks, U, b, c) /\ ~ k.blocks[b].used /\ ~ k.blocks[c].used
      BY <2>7, JoinsIs
    <3>4. BeforeJoin(h.blocks, U, low, y, b, c)
      BY <1>3, <2>2, <3>1, <3>2, <3>3, JoinTouch
    <3>5. ~ h.blocks[low].used /\ ~ h.blocks[y].used
      BY <2>5, JoinsIs
    <3>6. /\ b \in DOMAIN h.blocks /\ c \in DOMAIN h.blocks /\ b # y /\ c # y
          /\ ~ h.blocks[b].used /\ ~ h.blocks[c].used
      BY <3>2, <3>3, <3>5 DEF Joined
    <3>7. c # low
      <4>1. ASSUME c = low, b # low PROVE FALSE
        <5>1. Joins(h.blocks, U, b, low)
          BY <4>1, <3>4, <3>6, JoinsIs DEF BeforeJoin
        <5> QED BY <5>1, <3>6, <1>2, <2>7
      <4>2. ASSUME c = low, b = low PROVE FALSE
        <5>1. k.blocks[low].size \in Nat /\ k.blocks[low].size > 0
          <6>1. Tiles(k.blocks, U)
            BY <2>6 DEF Merging, Sound
          <6> QED BY <6>1, <4>2, BlockFacts
        <5> QED BY <5>1, <3>3, <4>2, <1>3 DEF Touch
      <4> QED BY <4>1, <4>2
    <3>8. CASE b = low
      <4>1. Joins(h.blocks, U, y, c)
        BY <3>4, <3>5, <3>6, <3>8, JoinsIs DEF BeforeJoin
      <4> QED BY <4>1, <3>1, <3>6, <3>7, <2>2, <2>7, <1>3 DEF Quiet
    <3>9. CASE b # low
      <4>1. Joins(h.blocks, U, b, c)
        BY <3>4, <3>6, <3>9, JoinsIs DEF BeforeJoin
      <4> QED BY <4>1, <3>6, <3>7, <3>9, <2>7, <1>3 DEF Quiet
    <3> QED BY <3>8, <3>9
  <2>8. Quiet(g, U, {a}) => Quiet(k, U, {})
    BY <2>7 DEF Quiet
  <2> QED BY <2>6, <2>8, <1>0 DEF Coalesced
<1> QED BY <1>4, <1>5

(* Block a is freed. *)
Freed(h, r, U, a) ==
  /\ r.ok \in BOOLEAN /\ Sound(r.heap, U)
  /\ ~ r.ok => SomeFailure
  /\ \A b \in DOMAIN h.blocks \ {a} :
       h.blocks[b].used => b \in DOMAIN r.heap.blocks /\ r.heap.blocks[b] = h.blocks[b]
  /\ \A b \in DOMAIN r.heap.blocks :
       r.heap.blocks[b].used => b \in DOMAIN h.blocks \ {a} /\ h.blocks[b].used
  /\ KeepsDivided(h, r.heap)
  /\ r.ok /\ Neat(h, U, {a}) => Neat(r.heap, U, {})

(* Neat in the terms of listed blocks. *)
LEMMA NeatIs ==
  ASSUME NEW h, NEW U, NEW X
  PROVE  Neat(h, U, X) <=>
           /\ Full(h) /\ Quiet(h, U, X)
           /\ \A b \in DOMAIN h.blocks \ X : h.blocks[b].used \/ b \in ListedSet(h)
BY DEF Neat, Full, Quiet, ListedSet

(* What the release of a used block leaves. *)
LEMMA FreeInIs ==
  ASSUME NEW h, NEW U, Sound(h, U), NEW a \in DOMAIN h.blocks, h.blocks[a].used,
         NEW r \in FreeIn(h, U, a)
  PROVE  Freed(h, r, U, a)
<1> DEFINE g == SetUsed(h, a, FALSE)
           m == Coalesce(U, g, a)
<1>0. Fine(h) /\ Tiles(h.blocks, U)
  BY DEF Sound, Fine
<1>1. a \notin ListedSet(h)
  BY <1>0, ListedUnused
<1>2. r \in AddFree(m.heap, m.at, "freeList")
  BY DEF FreeIn
<1> HIDE DEF g
<1>3. Changed(h, g, a, h.blocks[a].size, FALSE)
  BY <1>0, <1>1, SetUsedIs DEF g
<1>4. /\ Fine(g) /\ ListedSet(g) = ListedSet(h) /\ KeepsFull(h, g)
      /\ DOMAIN g.blocks = DOMAIN h.blocks
      /\ g.blocks[a].size = h.blocks[a].size /\ ~ g.blocks[a].used
      /\ \A b \in DOMAIN h.blocks \ {a} : g.blocks[b] = h.blocks[b]
  BY <1>3 DEF Changed, Now
<1>5. Sound(g, U)
  <2>1. \A b \in DOMAIN h.blocks : g.blocks[b].size = h.blocks[b].size
    BY <1>4
  <2>2. Tiles(g.blocks, U)
    BY <2>1, <1>0, <1>4, TilesSame
  <2> QED BY <2>2, <1>4 DEF Sound, Fine
<1>6. Coalesced(g, m, U, a)
  BY <1>1, <1>4, <1>5, CoalesceIs
<1> HIDE DEF m
<1> DEFINE k == m.heap
           at == m.at
<1>7. /\ Sound(k, U) /\ KeepsFull(g, k)
      /\ at \in DOMAIN k.blocks /\ ~ k.blocks[at].used /\ at \notin ListedSet(k)
      /\ DOMAIN k.blocks \subseteq DOMAIN g.blocks
      /\ \A b \in DOMAIN g.blocks : g.blocks[b].used => b \in DOMAIN k.blocks /\ b # at
      /\ \A b \in DOMAIN k.blocks \ {at} :
           k.blocks[b] = g.blocks[b] /\ b # a /\ (b \in ListedSet(g) => b \in ListedSet(k))
      /\ KeepsDivided(g, k) /\ (Quiet(g, U, {a}) => Quiet(k, U, {}))
  BY <1>6 DEF Coalesced, Merging
<1>8. at \in Nat /\ k.blocks[at].size \in 1 .. Memory /\ Fine(k)
  <2>1. /\ at \in Nat /\ k.blocks[at].size \in Nat /\ k.blocks[at].size > 0
        /\ at + k.blocks[at].size <= Memory /\ Memory \in Nat
    BY <1>7, BlockFacts, CoarseAssumption DEF Sound
  <2> QED BY <2>1, <1>7 DEF Sound, Fine
<1> HIDE DEF k, at
<1>9. Added(k, at, "freeList", r)
  BY <1>2, <1>7, <1>8, AddFreeIs DEF k, at
<1>10. r.ok \in BOOLEAN /\ Fine(r.heap) /\ r.heap.blocks = k.blocks /\ (~ r.ok => SomeFailure)
  BY <1>9 DEF Added, Now, SomeFailure, Sites
<1>11. Sound(r.heap, U)
  BY <1>7, <1>10 DEF Sound, Fine
<1>12. \A b \in DOMAIN h.blocks \ {a} :
         h.blocks[b].used => b \in DOMAIN r.heap.blocks /\ r.heap.blocks[b] = h.blocks[b]
  BY <1>4, <1>7, <1>10
<1>13. \A b \in DOMAIN r.heap.blocks :
         r.heap.blocks[b].used => b \in DOMAIN h.blocks \ {a} /\ h.blocks[b].used
  BY <1>4, <1>7, <1>10
<1>14. KeepsDivided(h, r.heap)
  <2> SUFFICES ASSUME NEW d \in Nat \ {0}, Divided(h.blocks, d)
               PROVE  Divided(r.heap.blocks, d)
    BY DEF KeepsDivided
  <2>1. Divided(g.blocks, d)
    BY <1>4 DEF Divided
  <2> QED BY <2>1, <1>7, <1>10 DEF KeepsDivided
<1>15. ASSUME r.ok, Neat(h, U, {a})
       PROVE  Neat(r.heap, U, {})
  <2>1. Full(h) /\ Quiet(h, U, {a}) /\ \A b \in DOMAIN h.blocks \ {a} : h.blocks[b].used \/ b \in ListedSet(h)
    BY <1>15, NeatIs
  <2>2. Quiet(g, U, {a})
    BY <2>1, <1>4 DEF Quiet, Joins, Lies
  <2>3. /\ ListedSet(r.heap) = ListedSet(k) \cup {at} /\ KeepsFull(k, r.heap)
    BY <1>9, <1>15 DEF Added, Now
  <2>4. Full(r.heap)
    BY <2>1, <2>3, <1>4, <1>7 DEF KeepsFull
  <2>5. Quiet(r.heap, U, {})
    BY <2>2, <1>7, <1>10 DEF Quiet
  <2>6. \A b \in DOMAIN r.heap.blocks \ {} : r.heap.blocks[b].used \/ b \in ListedSet(r.heap)
    BY <2>1, <2>3, <1>4, <1>7, <1>10
  <2> QED BY <2>4, <2>5, <2>6, NeatIs
<1> QED BY <1>10, <1>11, <1>12, <1>13, <1>14, <1>15 DEF Freed

(***************************************************************************)
(* The operations preserve the invariant                                   *)
(***************************************************************************)
(* Some of the blocks, with their sizes, are ranges. *)
LEMMA HeldRanges ==
  ASSUME NEW h, NEW U, Sound(h, U), NEW f, f = [a \in DOMAIN f |-> f[a]],
         \A a \in DOMAIN f : a \in DOMAIN h.blocks /\ h.blocks[a].size = f[a]
  PROVE  Ranges(f)
<1>1. /\ \A a \in DOMAIN h.blocks : /\ a \in Nat /\ h.blocks[a].size \in Nat
                                     /\ h.blocks[a].size > 0 /\ a + h.blocks[a].size <= Memory
      /\ \A a, b \in DOMAIN h.blocks : a < b => a + h.blocks[a].size <= b
  BY BlockFacts DEF Sound
<1> QED BY <1>1 DEF Ranges

(* The bytes of ranges of which one is new. *)
LEMMA CellsApart ==
  ASSUME NEW g, Ranges(g), NEW f, f = [x \in DOMAIN f |-> f[x]], NEW a, a \notin DOMAIN f, NEW n,
         DOMAIN g = DOMAIN f \cup {a}, g[a] = n, \A b \in DOMAIN f : g[b] = f[b]
  PROVE  /\ Ranges(f) /\ a \in Nat /\ n \in Nat /\ n > 0 /\ a + n <= Memory
         /\ Gained(f, g, a, n) /\ Cardinality(Cells(g)) = Cardinality(Cells(f)) + n
<1>1. Ranges(f) /\ a \in Nat /\ n \in Nat /\ n > 0 /\ a + n <= Memory
  BY DEF Ranges
<1>2. Cells(g) = Cells(f) \cup Bytes(a, n)
  BY DEF Cells
<1>3. ASSUME NEW b \in DOMAIN f, NEW x \in Bytes(b, f[b]), x \in Bytes(a, n)
      PROVE  FALSE
  <2>1. b \in DOMAIN g /\ a \in DOMAIN g /\ g[b] = f[b] /\ b \in Nat /\ f[b] \in Nat
    BY <1>1 DEF Ranges
  <2>2. x \in Int /\ b <= x /\ x < b + g[b] /\ a <= x /\ x < a + g[a]
    BY <1>1, <1>3, <2>1 DEF Bytes
  <2>3. a = b
    BY <2>1, <2>2, OneRange
  <2> QED BY <2>3
<1>4. Cells(f) \cap Bytes(a, n) = {}
  BY <1>3 DEF Cells
<1>5. Cardinality(Cells(g)) = Cardinality(Cells(f)) + n
  <2>1. Gained(f, g, a, n)
    BY <1>2, <1>4 DEF Gained
  <2> QED BY <2>1, <1>1, CellsAdd
<1> QED BY <1>1, <1>2, <1>4, <1>5 DEF Gained

(* What a multiple divides. *)
LEMMA DividedThrough ==
  ASSUME NEW a \in Nat, NEW p \in Nat \ {0}, NEW d \in Nat \ {0}, a % p = 0, p % d = 0
  PROVE  a % d = 0
<1> DEFINE x == a \div p
           y == p \div d
<1>1. x \in Nat /\ y \in Nat /\ a = p * x /\ p = d * y
  OBVIOUS
<1> HIDE DEF x, y
<1>2. a = d * (y * x) /\ y * x \in Nat
  BY <1>1
<1>3. \A z \in Nat : (d * z) % d = 0
  OBVIOUS
<1> QED BY <1>2, <1>3

(* Where the code's tests of alignment hold what they are for, and a failed *)
(* split is undone.                                                         *)
Careful == SizesAligned /\ "splitList" \notin FailingAt

(* What the alignments that are looked for by size divide. *)
LEMMA TestedIs ==
  ASSUME SizesAligned, NEW s \in Strategies, NEW d \in Tested(s)
  PROVE  /\ d \in Nat \ {0} /\ s # "FASTEST" /\ InitSize % d = 0 /\ PageSize % d = 0
         /\ \A q \in Requests[s] : q[1] % d = 0
BY DEF Tested, SizesAligned

(* What is asked for is not empty. *)
LEMMA RequestIs ==
  ASSUME TypeInv, Up, NEW size, NEW al, <<size, al>> \in Requests[params.strategy]
  PROVE  /\ params.strategy \in Strategies
         /\ size \in Nat /\ size > 0 /\ al \in Nat
         /\ params.strategy # "FASTEST" /\ al # 0 => al \in Tested(params.strategy)
<1>1. params.strategy \in Strategies
  BY DEF TypeInv
<1>2. Requests[params.strategy] \subseteq (Nat \ {0}) \X Nat
  BY <1>1, CoarseAssumption
<1>3. size \in Nat \ {0} /\ al \in Nat
  BY <1>2
<1>4. <<size, al>>[2] = al
  OBVIOUS
<1> QED BY <1>1, <1>3, <1>4 DEF Tested

(* In a heap h that is as it was but for the lists. *)
LEMMA Relisting ==
  ASSUME NEW h, NEW U, Sound(h, U), NEW k, NEW L, Now(k, h.blocks, L)
  PROVE  Sound(k, U)
BY DEF Sound, Now, Fine

(* A failure is counted, and stays within the bound. *)
LEMMA FailOk ==
  ASSUME TypeInv, SomeFailure, Fail(1)
  PROVE  failures' \in 0 .. MaxFailures /\ failures' # 0
<1>1. failures < MaxFailures /\ failures \in 0 .. MaxFailures /\ MaxFailures \in Nat
  BY CoarseAssumption DEF SomeFailure, CanFail, TypeInv
<1> QED BY <1>1 DEF Fail

(* The block that is found for a caller. *)
LEMMA BlockFound ==
  ASSUME IInv, Up, Careful, NEW size, NEW al, <<size, al>> \in Requests[params.strategy],
         NEW a \in FindFree(heap, size, al).found
  PROVE  LET h == FindFree(heap, size, al).heap IN
         /\ size \in Nat /\ size > 0 /\ al \in Nat
         /\ Sound(h, upstreamBlocks) /\ a \in DOMAIN heap.blocks /\ ~ heap.blocks[a].used
         /\ h.blocks = heap.blocks /\ ListedSet(h) = ListedSet(heap) \ {a} /\ KeepsFull(heap, h)
         /\ size <= heap.blocks[a].size
         /\ al = 0 \/ a % al = 0 \/ heap.blocks[a].size >= size + al
         /\ params.strategy # "FASTEST" => al = 0 \/ a % al = 0
<1> DEFINE r == FindFree(heap, size, al)
           s == params.strategy
<1>0. TypeInv /\ Sound(heap, upstreamBlocks) /\ Fine(heap)
  BY DEF IInv, HeapInv, Sound, Fine
<1>1. size \in Nat /\ size > 0 /\ al \in Nat /\ (s # "FASTEST" /\ al # 0 => al \in Tested(s))
  BY <1>0, RequestIs
<1>2. \/ TookNone(heap, r)
      \/ \E b \in ListedSet(heap) : Took(heap, r, b, Roomy(s, heap.blocks[b].size, size, al))
  BY <1>0, <1>1, FindFreeIs
<1> HIDE DEF r
<1>3. Took(heap, r, a, Roomy(s, heap.blocks[a].size, size, al))
  <2>1. a \in r.found
    BY DEF r
  <2>2. PICK b \in ListedSet(heap) : Took(heap, r, b, Roomy(s, heap.blocks[b].size, size, al))
    BY <1>2, <2>1 DEF TookNone
  <2>3. a = b
    BY <2>1, <2>2 DEF Took
  <2> QED BY <2>2, <2>3
<1>4. /\ a \in ListedSet(heap) /\ Roomy(s, heap.blocks[a].size, size, al)
      /\ Now(r.heap, heap.blocks, ListedSet(heap) \ {a}) /\ KeepsFull(heap, r.heap)
  BY <1>3 DEF Took
<1>5. a \in DOMAIN heap.blocks /\ ~ heap.blocks[a].used
  BY <1>0, <1>4, ListedUnused
<1>6. Sound(r.heap, upstreamBlocks)
  BY <1>0, <1>4, Relisting
<1>7. r.heap.blocks = heap.blocks /\ ListedSet(r.heap) = ListedSet(heap) \ {a}
  BY <1>4 DEF Now
<1>8. s # "FASTEST" => al = 0 \/ a % al = 0
  <2> SUFFICES ASSUME s # "FASTEST", al # 0 PROVE a % al = 0
    OBVIOUS
  <2>1. Divided(heap.blocks, al)
    BY <1>1 DEF IInv, DividedInv
  <2> QED BY <2>1, <1>5 DEF Divided
<1>9. size <= heap.blocks[a].size /\ (al = 0 \/ a % al = 0 \/ heap.blocks[a].size >= size + al)
  <2>1. heap.blocks[a].size \in Nat
    BY <1>0, <1>5 DEF Sound, Shape
  <2> QED BY <2>1, <1>1, <1>4, <1>8 DEF Roomy
<1> QED BY <1>1, <1>4, <1>5, <1>6, <1>7, <1>8, <1>9 DEF r

(* A range is handed out. *)
Handed == \E at \in Nat : \E n \in Nat : at \notin DOMAIN held /\ held' = Extend(held, at, n)

(* A function with one value more or another one. *)
LEMMA ExtendIs ==
  ASSUME NEW f, NEW a, NEW n
  PROVE  /\ Extend(f, a, n) = [x \in DOMAIN Extend(f, a, n) |-> Extend(f, a, n)[x]]
         /\ DOMAIN Extend(f, a, n) = DOMAIN f \cup {a} /\ Extend(f, a, n)[a] = n
         /\ \A x \in DOMAIN f \ {a} : Extend(f, a, n)[x] = f[x]
BY DEF Extend

(* The number of bytes is a number. *)
LEMMA CellsNat ==
  ASSUME NEW f, Ranges(f)
  PROVE  Cardinality(Cells(f)) \in Nat
BY CellsIn

(* Host allocations fail when a block has been found. *)
LEMMA BlockSpoiled ==
  ASSUME IInv, Up, Careful, NEW size, NEW al, <<size, al>> \in Requests[params.strategy],
         NEW a \in FindFree(heap, size, al).found,
         NEW r, Reused(FindFree(heap, size, al).heap, r, upstreamBlocks, a, size, al),
         ~ r.ok, heap' = r.heap, Fail(1), UNCHANGED <<usedSize, held>>,
         UNCHANGED <<upstreamBlocks, allocSize, given>>, UNCHANGED <<params, traits>>
  PROVE  IInv'
<1> DEFINE h == FindFree(heap, size, al).heap
           U == upstreamBlocks
<1>1. /\ size \in Nat /\ a \in DOMAIN heap.blocks /\ ~ heap.blocks[a].used
      /\ h.blocks = heap.blocks /\ (params.strategy # "FASTEST" => al = 0 \/ a % al = 0)
  BY BlockFound
<1>2. TypeInv /\ HeldInv /\ GivenInv /\ CountInv /\ DividedInv
  BY DEF IInv
<1> HIDE DEF h
<1>3. Spoiled(h, heap', U, a) /\ SomeFailure /\ (al = 0 \/ a % al = 0 => StaysDivided(h, heap', size))
  BY DEF Reused, h
<1>4. /\ Sound(heap', U) /\ DOMAIN heap.blocks \subseteq DOMAIN heap'.blocks
      /\ \A b \in DOMAIN heap.blocks \ {a} : heap'.blocks[b] = heap.blocks[b]
  BY <1>1, <1>3 DEF Spoiled
<1>5. failures' \in 0 .. MaxFailures /\ failures' # 0
  BY <1>2, <1>3, FailOk
<1>6. TypeInv'
  BY <1>2, <1>5 DEF TypeInv
<1>7. HeapInv'
  BY <1>4 DEF HeapInv
<1>8. HeldInv'
  BY <1>1, <1>2, <1>4 DEF HeldInv
<1>9. DownInv' /\ CountInv'
  BY <1>2 DEF DownInv, CountInv, Up
<1>10. GivenInv'
  BY <1>2, <1>5 DEF GivenInv, HasUpstream
<1>11. NeatInv'
  BY <1>5 DEF NeatInv
<1>12. DividedInv'
  <2> SUFFICES ASSUME NEW d \in Tested(params.strategy)
               PROVE  Divided(heap'.blocks, d)
    BY DEF DividedInv
  <2>1. d \in Nat \ {0} /\ params.strategy # "FASTEST" /\ size % d = 0
    <3>1. params.strategy \in Strategies
      BY <1>2, RequestIs
    <3>2. <<size, al>>[1] = size
      OBVIOUS
    <3> QED BY <3>1, <3>2, TestedIs DEF Careful
  <2>2. Divided(h.blocks, d)
    BY <1>1, <1>2 DEF DividedInv
  <2> QED BY <2>1, <2>2, <1>1, <1>3 DEF StaysDivided
<1> QED BY <1>6, <1>7, <1>8, <1>9, <1>10, <1>11, <1>12 DEF IInv

(* A block is cut from the one found, and handed out. *)
LEMMA BlockHanded ==
  ASSUME IInv, Up, Careful, NEW size, NEW al, <<size, al>> \in Requests[params.strategy],
         NEW a \in FindFree(heap, size, al).found,
         NEW r, Reused(FindFree(heap, size, al).heap, r, upstreamBlocks, a, size, al),
         r.ok, heap' = SetUsed(r.heap, r.at, TRUE), usedSize' = usedSize + size,
         held' = Extend(held, r.at, size), Fail(0),
         UNCHANGED <<upstreamBlocks, allocSize, given>>, UNCHANGED <<params, traits>>
  PROVE  IInv' /\ Handed
<1> DEFINE h == FindFree(heap, size, al).heap
           U == upstreamBlocks
           k == r.heap
           at == r.at
<1>1. /\ size \in Nat /\ size > 0 /\ Sound(h, U) /\ a \in DOMAIN heap.blocks /\ ~ heap.blocks[a].used
      /\ h.blocks = heap.blocks /\ ListedSet(h) = ListedSet(heap) \ {a} /\ KeepsFull(heap, h)
      /\ params.strategy # "FASTEST" => al = 0 \/ a % al = 0
  BY BlockFound
<1>2. TypeInv /\ HeldInv /\ GivenInv /\ CountInv /\ DividedInv /\ HeapInv
  BY DEF IInv
<1> HIDE DEF h
<1>3. (al = 0 \/ a % al = 0) => StaysDivided(h, k, size)
  BY DEF Reused, h
<1>4. PICK P : Pieces(h, k, U, a, P, at) /\ Inside(h, k, U, a, P, at) /\ k.blocks[at].size = size
  BY DEF Reused, h
<1> HIDE DEF k, at
<1>5. /\ Sound(k, U) /\ KeepsFull(h, k) /\ Fine(k)
      /\ a \in P /\ at \in P /\ P \subseteq Nat /\ P \cap DOMAIN heap.blocks = {a}
      /\ DOMAIN k.blocks = DOMAIN heap.blocks \cup P
      /\ \A b \in DOMAIN heap.blocks \ {a} : k.blocks[b] = heap.blocks[b]
      /\ \A p \in P \ {at} : ~ k.blocks[p].used
      /\ ListedSet(k) = (ListedSet(heap) \ {a}) \cup (P \ {at})
  BY <1>1, <1>4 DEF Pieces, Sound, Fine
<1>6. at \notin ListedSet(k) /\ at \in DOMAIN k.blocks
  BY <1>5 DEF ListedSet
<1>7. Changed(k, heap', at, size, TRUE)
  <2>1. Changed(k, SetUsed(k, at, TRUE), at, k.blocks[at].size, TRUE)
    BY <1>5, <1>6, SetUsedIs
  <2> QED BY <2>1, <1>4 DEF k, at
<1> DEFINE C == heap'.blocks
<1>8. /\ Fine(heap') /\ ListedSet(heap') = ListedSet(k) /\ KeepsFull(k, heap')
      /\ DOMAIN C = DOMAIN heap.blocks \cup P /\ C[at].size = size /\ C[at].used = TRUE
      /\ \A b \in DOMAIN k.blocks \ {at} : C[b] = k.blocks[b]
  BY <1>5, <1>7 DEF Changed, Now
<1>9. failures' = failures /\ failures \in 0 .. MaxFailures
  BY <1>2 DEF Fail, TypeInv
<1>10. TypeInv'
  BY <1>1, <1>2, <1>9 DEF TypeInv
<1>11. HeapInv'
  <2>1. \A b \in DOMAIN k.blocks : C[b].size = k.blocks[b].size
    BY <1>4, <1>8
  <2>2. Tiles(C, U)
    <3>1. DOMAIN C = DOMAIN k.blocks /\ Tiles(k.blocks, U)
      BY <1>5, <1>8 DEF Sound
    <3> HIDE DEF C
    <3> QED BY <2>1, <3>1, TilesSame
  <2> QED BY <2>2, <1>8 DEF HeapInv, Sound, Fine
<1>12. \A b \in DOMAIN held : /\ b \in DOMAIN heap.blocks /\ b # a /\ b # at /\ b \notin P
                               /\ C[b] = heap.blocks[b]
                               /\ C[b].used /\ C[b].size = held[b]
  <2> TAKE b \in DOMAIN held
  <2>1. b \in DOMAIN heap.blocks /\ heap.blocks[b].used /\ heap.blocks[b].size = held[b]
    BY <1>2 DEF HeldInv
  <2>2. b # a
    BY <2>1, <1>1
  <2>3. b \notin P /\ b # at
    BY <2>1, <2>2, <1>5
  <2>4. C[b] = heap.blocks[b]
    BY <2>1, <2>2, <2>3, <1>5, <1>8
  <2> QED BY <2>1, <2>2, <2>3, <2>4
<1>13. at \notin DOMAIN held
  BY <1>12
<1>14. /\ held' = [x \in DOMAIN held' |-> held'[x]] /\ DOMAIN held' = DOMAIN held \cup {at}
       /\ held'[at] = size /\ \A x \in DOMAIN held : held'[x] = held[x]
  <2>1. held' = Extend(held, at, size)
    BY DEF at
  <2> QED BY <2>1, <1>13 DEF Extend
<1>15. HeldInv'
  <2>1. ASSUME NEW b \in DOMAIN held'
        PROVE  b \in DOMAIN C /\ C[b].used /\ C[b].size = held'[b]
    <3>1. CASE b = at
      BY <3>1, <1>5, <1>8, <1>14
    <3>2. CASE b \in DOMAIN held
      BY <3>2, <1>8, <1>12, <1>14
    <3> QED BY <3>1, <3>2, <1>14
  <2> QED BY <2>1, <1>14 DEF HeldInv
<1>16. CountInv'
  <2>1. Ranges(held')
    <3>1. Sound(heap', U) /\ held' = [b \in DOMAIN held' |-> held'[b]]
      BY <1>11, <1>14 DEF HeapInv
    <3>2. \A b \in DOMAIN held' : b \in DOMAIN heap'.blocks /\ heap'.blocks[b].size = held'[b]
      BY <1>15 DEF HeldInv
    <3> QED BY <3>1, <3>2, HeldRanges
  <2>2. held = [x \in DOMAIN held |-> held[x]]
    BY <1>2 DEF HeldInv
  <2>3. Cardinality(Cells(held')) = Cardinality(Cells(held)) + size
    BY <2>1, <2>2, <1>13, <1>14, CellsApart
  <2>4. allocSize = Cardinality(Cells(U)) /\ usedSize = Cardinality(Cells(held))
    BY <1>2 DEF CountInv
  <2> QED BY <2>3, <2>4 DEF CountInv, Up
<1>17. DownInv'
  BY DEF DownInv, Up
<1>18. GivenInv'
  BY <1>2, <1>9 DEF GivenInv, HasUpstream
<1>19. NeatInv'
  <2> SUFFICES ASSUME failures = 0
               PROVE  /\ Neat(heap', U, {})
                      /\ \A b \in DOMAIN C : C[b].used => b \in DOMAIN held'
    BY <1>9 DEF NeatInv
  <2>1. /\ Full(heap) /\ Quiet(heap, U, {})
        /\ \A b \in DOMAIN heap.blocks \ {} : heap.blocks[b].used \/ b \in ListedSet(heap)
        /\ \A b \in DOMAIN heap.blocks : heap.blocks[b].used => b \in DOMAIN held
    BY NeatIs DEF IInv, NeatInv
  <2>2. Full(heap')
    BY <2>1, <1>1, <1>5, <1>8 DEF KeepsFull
  <2>3. ASSUME NEW b \in DOMAIN C
        PROVE  b = at \/ (b \in P /\ ~ C[b].used /\ b \in ListedSet(heap'))
                      \/ (b \in DOMAIN heap.blocks \ {a} /\ b \notin P /\ C[b] = heap.blocks[b])
    <3>1. CASE b \in P /\ b # at
      BY <3>1, <1>5, <1>8
    <3>2. CASE b \notin P
      BY <3>2, <1>5, <1>8
    <3> QED BY <3>1, <3>2
  <2>4. \A b \in DOMAIN C \ {} : C[b].used \/ b \in ListedSet(heap')
    BY <2>1, <2>3, <1>5, <1>8
  <2>5. \A b \in DOMAIN C : C[b].used => b \in DOMAIN held'
    BY <2>1, <2>3, <1>14
  <2>6. ASSUME NEW b \in DOMAIN C, NEW c \in DOMAIN C, Joins(C, U, b, c)
        PROVE  FALSE
    <3>1. ~ C[b].used /\ ~ C[c].used /\ Touch(C, U, b, c)
      BY <2>6, JoinsIs
    <3>2. b # at /\ c # at
      BY <3>1, <1>8
    <3>3. Touch(k.blocks, U, b, c) /\ b \in DOMAIN k.blocks /\ c \in DOMAIN k.blocks
      BY <3>1, <3>2, <1>5, <1>8 DEF Touch, Lies
    <3> DEFINE b1 == IF b \in P THEN a ELSE b
               c1 == IF c \in P THEN a ELSE c
    <3>4. Touch(heap.blocks, U, b1, c1)
      BY <3>2, <3>3, <1>1, <1>4 DEF Inside
    <3>5. /\ b1 \in DOMAIN heap.blocks /\ ~ heap.blocks[b1].used
          /\ c1 \in DOMAIN heap.blocks /\ ~ heap.blocks[c1].used
      BY <2>3, <3>1, <3>2, <1>1
    <3> HIDE DEF b1, c1, C
    <3>6. Joins(heap.blocks, U, b1, c1)
      BY <3>4, <3>5, JoinsIs
    <3> QED BY <3>5, <3>6, <2>1 DEF Quiet
  <2>7. Quiet(heap', U, {})
    BY <2>6 DEF Quiet
  <2> QED BY <2>2, <2>4, <2>5, <2>7, NeatIs
<1>20. DividedInv'
  <2> SUFFICES ASSUME NEW d \in Tested(params.strategy)
               PROVE  Divided(C, d)
    BY DEF DividedInv
  <2>1. d \in Nat \ {0} /\ params.strategy # "FASTEST" /\ size % d = 0
    <3>1. params.strategy \in Strategies
      BY <1>2, RequestIs
    <3>2. <<size, al>>[1] = size
      OBVIOUS
    <3> QED BY <3>1, <3>2, TestedIs DEF Careful
  <2>2. Divided(h.blocks, d)
    BY <1>1, <1>2 DEF DividedInv
  <2>3. Divided(k.blocks, d)
    BY <2>1, <2>2, <1>1, <1>3 DEF StaysDivided
  <2>4. \A b \in DOMAIN k.blocks : C[b].size = k.blocks[b].size
    BY <1>4, <1>8
  <2>5. DOMAIN C = DOMAIN k.blocks
    BY <1>5, <1>8
  <2> HIDE DEF C
  <2> QED BY <2>3, <2>4, <2>5 DEF Divided
<1>21. Handed
  BY <1>1, <1>5, <1>13 DEF Handed, at
<1> QED BY <1>10, <1>11, <1>15, <1>16, <1>17, <1>18, <1>19, <1>20, <1>21 DEF IInv

(* Every way an allocation from a free block can end. *)
LEMMA AllocBlockIs ==
  ASSUME IInv, Up, Careful, NEW size, NEW al, <<size, al>> \in Requests[params.strategy],
         AllocBlock(size, al), UNCHANGED <<params, traits>>
  PROVE  IInv' /\ (Handed \/ UNCHANGED held) /\ UNCHANGED upstreamBlocks
<1> DEFINE free == FindFree(heap, size, al)
<1>1. PICK a \in free.found : \E r \in Reuse(free.heap, a, size, al) :
        /\ IF r.ok
           THEN /\ heap' = SetUsed(r.heap, r.at, TRUE)
                /\ usedSize' = usedSize + size
                /\ held' = Extend(held, r.at, size)
                /\ Fail(0)
           ELSE heap' = r.heap /\ Fail(1) /\ UNCHANGED <<usedSize, held>>
        /\ UNCHANGED <<upstreamBlocks, allocSize, given>>
  BY DEF AllocBlock
<1>2. PICK r \in Reuse(free.heap, a, size, al) :
        /\ IF r.ok
           THEN /\ heap' = SetUsed(r.heap, r.at, TRUE)
                /\ usedSize' = usedSize + size
                /\ held' = Extend(held, r.at, size)
                /\ Fail(0)
           ELSE heap' = r.heap /\ Fail(1) /\ UNCHANGED <<usedSize, held>>
        /\ UNCHANGED <<upstreamBlocks, allocSize, given>>
  BY <1>1
<1>3. Reused(free.heap, r, upstreamBlocks, a, size, al)
  <2>1. /\ size \in Nat /\ size > 0 /\ al \in Nat
        /\ Sound(free.heap, upstreamBlocks) /\ a \in DOMAIN heap.blocks /\ ~ heap.blocks[a].used
        /\ free.heap.blocks = heap.blocks /\ ListedSet(free.heap) = ListedSet(heap) \ {a}
        /\ size <= heap.blocks[a].size
        /\ al = 0 \/ a % al = 0 \/ heap.blocks[a].size >= size + al
    BY <1>1, BlockFound
  <2> DEFINE h == free.heap
  <2> HIDE DEF free
  <2>2. /\ a \in DOMAIN h.blocks /\ a \notin ListedSet(h) /\ ~ h.blocks[a].used
        /\ size <= h.blocks[a].size /\ (al = 0 \/ a % al = 0 \/ h.blocks[a].size >= size + al)
        /\ Sound(h, upstreamBlocks) /\ r \in Reuse(h, a, size, al)
    BY <2>1, <1>2
  <2> HIDE DEF h
  <2>3. Reused(h, r, upstreamBlocks, a, size, al)
    BY <2>1, <2>2, ReuseIs DEF Careful
  <2> QED BY <2>3 DEF h
<1>4. CASE r.ok
  BY <1>1, <1>2, <1>3, <1>4, BlockHanded
<1>5. CASE ~ r.ok
  BY <1>1, <1>2, <1>3, <1>5, BlockSpoiled
<1> QED BY <1>4, <1>5

(***************************************************************************)
(* A region from the upstream provider                                     *)
(***************************************************************************)
(* What a search that finds nothing leaves. *)
LEMMA NoneFound ==
  ASSUME IInv, Up, NEW size, NEW al, <<size, al>> \in Requests[params.strategy],
         FindFree(heap, size, al).found = {}
  PROVE  LET h == FindFree(heap, size, al).heap IN
         /\ size \in Nat /\ size > 0 /\ al \in Nat
         /\ Sound(h, upstreamBlocks) /\ Fine(h)
         /\ h.blocks = heap.blocks /\ ListedSet(h) = ListedSet(heap) /\ KeepsFull(heap, h)
<1> DEFINE r == FindFree(heap, size, al)
           s == params.strategy
<1>0. TypeInv /\ Sound(heap, upstreamBlocks) /\ Fine(heap)
  BY DEF IInv, HeapInv, Sound, Fine
<1>1. size \in Nat /\ size > 0 /\ al \in Nat
  BY <1>0, RequestIs
<1>2. \/ TookNone(heap, r)
      \/ \E b \in ListedSet(heap) : Took(heap, r, b, Roomy(s, heap.blocks[b].size, size, al))
  BY <1>0, <1>1, FindFreeIs
<1>3. r.found = {}
  OBVIOUS
<1> HIDE DEF r
<1>4. TookNone(heap, r)
  BY <1>2, <1>3 DEF Took
<1>5. Now(r.heap, heap.blocks, ListedSet(heap)) /\ KeepsFull(heap, r.heap)
  BY <1>4 DEF TookNone
<1>6. Sound(r.heap, upstreamBlocks)
  BY <1>0, <1>5, Relisting
<1> QED BY <1>1, <1>5, <1>6 DEF Now, r

(* A heap with other lists of the same blocks. *)
LEMMA NeatRelisted ==
  ASSUME NEW h, NEW k, NEW U, NEW X, Neat(h, U, X), k.blocks = h.blocks, ListedSet(k) = ListedSet(h),
         KeepsFull(h, k)
  PROVE  Neat(k, U, X)
<1>1. Full(h) /\ Quiet(h, U, X) /\ \A b \in DOMAIN h.blocks \ X : h.blocks[b].used \/ b \in ListedSet(h)
  BY NeatIs
<1>2. Full(k) /\ Quiet(k, U, X)
  BY <1>1 DEF KeepsFull, Quiet
<1> QED BY <1>1, <1>2, NeatIs

(* A step that changes no more than the lists, the books and the failures. *)
LEMMA OnlyLists ==
  ASSUME IInv, Up, NEW k, Sound(k, upstreamBlocks), k.blocks = heap.blocks,
         ListedSet(k) = ListedSet(heap), KeepsFull(heap, k), heap' = k,
         UNCHANGED <<params, traits, upstreamBlocks, usedSize, allocSize, held>>,
         failures' \in 0 .. MaxFailures, GivenInv',
         failures' = failures \/ failures' # 0
  PROVE  IInv'
<1>1. TypeInv /\ HeldInv /\ CountInv /\ DividedInv /\ NeatInv
  BY DEF IInv
<1>2. TypeInv'
  BY <1>1 DEF TypeInv
<1>3. HeapInv'
  BY DEF HeapInv
<1>4. HeldInv'
  BY <1>1 DEF HeldInv
<1>5. DownInv' /\ CountInv'
  BY <1>1 DEF DownInv, CountInv, Up
<1>6. NeatInv'
  <2>1. CASE failures' # 0
    BY <2>1 DEF NeatInv
  <2>2. CASE failures' = 0 /\ failures = 0
    <3>1. Neat(heap, upstreamBlocks, {}) /\ \A a \in DOMAIN heap.blocks : heap.blocks[a].used => a \in DOMAIN held
      BY <1>1, <2>2 DEF NeatInv
    <3>2. Neat(k, upstreamBlocks, {})
      BY <3>1, NeatRelisted
    <3> QED BY <3>1, <3>2 DEF NeatInv
  <2> QED BY <2>1, <2>2
<1>7. DividedInv'
  BY <1>1 DEF DividedInv, Divided
<1> QED BY <1>2, <1>3, <1>4, <1>5, <1>6, <1>7 DEF IInv

(* A region is apart from all that the upstream provider has given. *)
LEMMA RegionIs ==
  ASSUME GivenInv, NEW a \in Addresses, NEW n \in Nat, n > 0, Region(a, n)
  PROVE  /\ a \in Nat /\ a + n <= Memory /\ a % PageSize = 0
         /\ Cells(given) \cap Bytes(a, n) = {}
<1>1. a \in Nat /\ a + n <= Memory /\ a % PageSize = 0
  BY CoarseAssumption DEF Addresses, Region
<1>2. \A x \in DOMAIN given : Bytes(a, n) \cap Bytes(x, given[x]) = {}
  BY DEF Region
<1>3. Cells(given) \cap Bytes(a, n) = {}
  BY <1>2 DEF Cells
<1> QED BY <1>1, <1>3

(* What the upstream provider still has on its books when it is given the *)
(* region back, or not.                                                   *)
LEMMA GivenExtended ==
  ASSUME GivenInv, NEW a \in Nat, NEW n \in Nat, n > 0, a + n <= Memory,
         Cells(given) \cap Bytes(a, n) = {},
         given' = given \/ given' = Extend(given, a, n),
         UNCHANGED <<params, traits, upstreamBlocks>>, failures' # 0
  PROVE  GivenInv'
<1>1. Ranges(given) /\ (HasUpstream => \A o \in DOMAIN upstreamBlocks : o \in DOMAIN given /\ given[o] = upstreamBlocks[o])
  BY DEF GivenInv
<1>2. a \notin DOMAIN given /\ Ranges(Extend(given, a, n))
  BY <1>1, RangesExtend
<1>3. CASE given' = given
  BY <1>1, <1>3 DEF GivenInv, HasUpstream
<1>4. CASE given' = Extend(given, a, n)
  <2>1. \A o \in DOMAIN given : o \in DOMAIN given' /\ given'[o] = given[o]
    BY <1>2, <1>4 DEF Extend
  <2>2. Ranges(given')
    BY <1>2, <1>4
  <2> QED BY <1>1, <2>1, <2>2 DEF GivenInv, HasUpstream
<1> QED BY <1>3, <1>4

(* An allocation that finds nothing. *)
LEMMA AllocNothingIs ==
  ASSUME IInv, Up, NEW size, NEW al, <<size, al>> \in Requests[params.strategy],
         AllocNothing(size, al), UNCHANGED <<params, traits>>
  PROVE  IInv' /\ UNCHANGED <<held, upstreamBlocks>>
<1> DEFINE h == FindFree(heap, size, al).heap
<1>1. FindFree(heap, size, al).found = {} /\ heap' = h
      /\ UNCHANGED <<upstreamBlocks, usedSize, allocSize, given, held, failures>>
  BY DEF AllocNothing
<1>2. /\ Sound(h, upstreamBlocks) /\ h.blocks = heap.blocks
      /\ ListedSet(h) = ListedSet(heap) /\ KeepsFull(heap, h)
  BY <1>1, NoneFound
<1> HIDE DEF h
<1>3. GivenInv' /\ failures' \in 0 .. MaxFailures
  BY <1>1 DEF IInv, GivenInv, HasUpstream, TypeInv
<1>4. IInv'
  BY <1>1, <1>2, <1>3, OnlyLists
<1> QED BY <1>1, <1>4

(* The region is not adopted. *)
LEMMA RegionSpoiled ==
  ASSUME IInv, Up, NEW size, NEW al, <<size, al>> \in Requests[params.strategy],
         FindFree(heap, size, al).found = {}, NEW a \in Addresses, Region(a, size),
         AdoptFails, Fail(1), heap' = FindFree(heap, size, al).heap,
         given' = IF "free" \in traits THEN given ELSE Extend(given, a, size),
         UNCHANGED <<upstreamBlocks, usedSize, allocSize, held>>, UNCHANGED <<params, traits>>
  PROVE  IInv'
<1> DEFINE h == FindFree(heap, size, al).heap
<1>1. /\ size \in Nat /\ size > 0 /\ Sound(h, upstreamBlocks) /\ h.blocks = heap.blocks
      /\ ListedSet(h) = ListedSet(heap) /\ KeepsFull(heap, h) /\ heap' = h
  BY NoneFound
<1> HIDE DEF h
<1>2. GivenInv /\ TypeInv
  BY DEF IInv
<1>3. SomeFailure
  BY DEF AdoptFails, SomeFailure, Sites
<1>4. failures' \in 0 .. MaxFailures /\ failures' # 0
  BY <1>2, <1>3, FailOk
<1>5. a \in Nat /\ a + size <= Memory /\ Cells(given) \cap Bytes(a, size) = {}
  BY <1>1, <1>2, RegionIs
<1>6. GivenInv'
  BY <1>1, <1>2, <1>4, <1>5, GivenExtended
<1> QED BY <1>1, <1>4, <1>6, OnlyLists

(* The region becomes a block that is handed out. *)
LEMMA RegionHanded ==
  ASSUME IInv, Up, Careful, NEW size, NEW al, <<size, al>> \in Requests[params.strategy],
         FindFree(heap, size, al).found = {}, HasUpstream, NEW a \in Addresses, Region(a, size),
         Adopt(FindFree(heap, size, al).heap, a, size),
         given' = Put(given, Grown(a, size)), held' = Extend(held, a, size),
         UNCHANGED <<params, traits>>
  PROVE  IInv' /\ Handed /\ Cells(upstreamBlocks) \subseteq Cells(upstreamBlocks')
<1> DEFINE h == FindFree(heap, size, al).heap
           U == upstreamBlocks
           r == Grown(a, size)
           V == Put(U, r)
           C == Extend(heap.blocks, a, [size |-> size, used |-> TRUE])
<1>1. /\ size \in Nat /\ size > 0 /\ Sound(h, U) /\ Fine(h) /\ h.blocks = heap.blocks
      /\ ListedSet(h) = ListedSet(heap) /\ KeepsFull(heap, h)
  BY NoneFound
<1>2. TypeInv /\ HeldInv /\ GivenInv /\ CountInv /\ DividedInv /\ NeatInv
  BY DEF IInv
<1>3. /\ heap' = [h EXCEPT !.blocks = Extend(h.blocks, a, [size |-> size, used |-> TRUE])]
      /\ U' = V /\ allocSize' = allocSize + size /\ usedSize' = usedSize + size /\ failures' = failures
  BY <1>2 DEF Adopt, Fail, TypeInv
<1> HIDE DEF h
<1>4. /\ a \in Nat /\ a + size <= Memory /\ a % PageSize = 0
      /\ Cells(given) \cap Bytes(a, size) = {}
  BY <1>1, <1>2, RegionIs
<1>5. /\ Ranges(given) /\ Ranges(U) /\ Tiles(heap.blocks, U)
      /\ \A o \in DOMAIN U : o \in DOMAIN given /\ given[o] = U[o]
  BY <1>1, <1>2 DEF GivenInv, Sound, Tiles
<1>6. Cells(U) \cap Bytes(a, size) = {}
  BY <1>4, <1>5 DEF Cells
<1>7. Covering(U, r, a, size) /\ Covering(given, r, a, size)
  <2>1. \A o \in DOMAIN U : o \in DOMAIN U /\ U[o] = U[o]
    OBVIOUS
  <2>2. Covering(U, r, a, size)
    BY <2>1, <1>1, <1>4, <1>5, <1>6, GrownCovering
  <2>3. Covering(given, r, a, size)
    BY <1>1, <1>4, <1>5, GrownCovering
  <2> QED BY <2>2, <2>3
<1> HIDE DEF r
<1>8. Grew(U, V, r, a, size) /\ Grew(given, given', r, a, size)
  <2>1. Grew(U, Put(U, r), r, a, size)
    BY <1>1, <1>4, <1>5, <1>7, PutCovering
  <2>2. Grew(given, Put(given, r), r, a, size)
    BY <1>1, <1>4, <1>5, <1>7, PutCovering
  <2> QED BY <2>1, <2>2 DEF r
<1>9. /\ C = [b \in DOMAIN C |-> C[b]] /\ DOMAIN C = DOMAIN heap.blocks \cup {a}
      /\ C[a] = [size |-> size, used |-> TRUE] /\ \A b \in DOMAIN heap.blocks \ {a} : C[b] = heap.blocks[b]
  BY DEF Extend
<1>10. heap' = [h EXCEPT !.blocks = C]
  BY <1>1, <1>3
<1> HIDE DEF C
<1>11. /\ a \notin DOMAIN heap.blocks /\ Tiles(C, V)
       /\ \A b, c \in DOMAIN heap.blocks : Joins(C, V, b, c) => Joins(heap.blocks, U, b, c)
  <2>1. C[a].size = size /\ \A b \in DOMAIN heap.blocks : b # a => C[b] = heap.blocks[b]
    BY <1>9
  <2>2. DOMAIN C = DOMAIN heap.blocks \cup {a}
    BY <1>9
  <2>3. Adopted(heap.blocks, U, C, Put(U, r), a)
    BY <2>1, <2>2, <1>1, <1>4, <1>5, <1>6, <1>7, GrowTiles
  <2> QED BY <2>3 DEF Adopted
<1> HIDE DEF V
<1>12. Changed(h, heap', a, size, TRUE)
  <2>1. a \notin ListedSet(h)
    BY <1>1, <1>11 DEF ListedSet
  <2> QED BY <2>1, <1>1, <1>9, <1>10, ChangedIs
<1>13. /\ Fine(heap') /\ ListedSet(heap') = ListedSet(heap) /\ KeepsFull(heap, heap') /\ heap'.blocks = C
  <2>1. heap'.blocks = C
    BY <1>1, <1>10 DEF Fine, Shape
  <2> QED BY <2>1, <1>1, <1>12 DEF Changed, Now, KeepsFull
<1>14. TypeInv'
  BY <1>1, <1>2, <1>3 DEF TypeInv
<1>15. HeapInv'
  BY <1>3, <1>11, <1>13 DEF HeapInv, Sound, Fine
<1>16. \A b \in DOMAIN held : /\ b \in DOMAIN heap.blocks /\ b # a
                               /\ heap.blocks[b].used /\ heap.blocks[b].size = held[b]
  BY <1>2, <1>11 DEF HeldInv
<1>17. /\ held' = [x \in DOMAIN held' |-> held'[x]] /\ DOMAIN held' = DOMAIN held \cup {a}
       /\ a \notin DOMAIN held /\ held'[a] = size /\ \A x \in DOMAIN held : held'[x] = held[x]
  BY <1>16 DEF Extend
<1>18. HeldInv'
  <2>1. ASSUME NEW b \in DOMAIN held'
        PROVE  b \in DOMAIN C /\ C[b].used /\ C[b].size = held'[b]
    <3>1. CASE b = a
      BY <3>1, <1>9, <1>17
    <3>2. CASE b \in DOMAIN held
      BY <3>2, <1>9, <1>16, <1>17
    <3> QED BY <3>1, <3>2, <1>17
  <2> QED BY <2>1, <1>13, <1>17 DEF HeldInv
<1>19. CountInv'
  <2>1. Ranges(held')
    <3>1. Sound(heap', U') /\ held' = [b \in DOMAIN held' |-> held'[b]]
      BY <1>15, <1>17 DEF HeapInv
    <3>2. \A b \in DOMAIN held' : b \in DOMAIN heap'.blocks /\ heap'.blocks[b].size = held'[b]
      BY <1>18 DEF HeldInv
    <3> QED BY <3>1, <3>2, HeldRanges
  <2>2. held = [x \in DOMAIN held |-> held[x]]
    BY <1>2 DEF HeldInv
  <2>3. Cardinality(Cells(held')) = Cardinality(Cells(held)) + size
    BY <2>1, <2>2, <1>17, CellsApart
  <2>4. allocSize = Cardinality(Cells(U)) /\ usedSize = Cardinality(Cells(held))
    BY <1>2 DEF CountInv
  <2>5. Gained(U, V, a, size) /\ Ranges(V)
    BY <1>6, <1>8 DEF Grew, Gained
  <2>6. Cardinality(Cells(V)) = Cardinality(Cells(U)) + size
    BY <2>5, <1>1, <1>4, <1>5, CellsAdd
  <2> QED BY <2>3, <2>4, <2>6, <1>3 DEF CountInv, Up
<1>20. DownInv'
  BY DEF DownInv, Up
<1>21. GivenInv'
  <2>1. Ranges(given')
    BY <1>8 DEF Grew
  <2>2. \A o \in DOMAIN V : o \in DOMAIN given' /\ given'[o] = V[o]
    <3> SUFFICES ASSUME NEW o \in DOMAIN V
                 PROVE  o \in DOMAIN given' /\ given'[o] = V[o]
      OBVIOUS
    <3>1. CASE o = r.at
      BY <3>1, <1>8 DEF Grew
    <3>2. CASE o \in Beside(U, r)
      <4>1. o \in DOMAIN U /\ o \in Beside(given, r)
        BY <3>2, <1>5 DEF Beside
      <4> QED BY <4>1, <3>2, <1>5, <1>8 DEF Grew
    <3> QED BY <3>1, <3>2, <1>8 DEF Grew
  <2>3. ASSUME failures = 0, "free" \in traits
        PROVE  given' = V
    <3>1. given = U
      BY <2>3, <1>2 DEF GivenInv
    <3> QED BY <3>1 DEF V, r
  <2> QED BY <2>1, <2>2, <2>3, <1>3 DEF GivenInv, HasUpstream
<1>22. NeatInv'
  <2> SUFFICES ASSUME failures = 0
               PROVE  /\ Neat(heap', V, {})
                      /\ \A b \in DOMAIN C : C[b].used => b \in DOMAIN held'
    BY <1>3, <1>13 DEF NeatInv
  <2>1. /\ Full(heap) /\ Quiet(heap, U, {})
        /\ \A b \in DOMAIN heap.blocks \ {} : heap.blocks[b].used \/ b \in ListedSet(heap)
        /\ \A b \in DOMAIN heap.blocks : heap.blocks[b].used => b \in DOMAIN held
    BY <1>2, NeatIs DEF NeatInv
  <2>2. Full(heap')
    BY <2>1, <1>13 DEF KeepsFull
  <2>3. \A b \in DOMAIN C \ {} : C[b].used \/ b \in ListedSet(heap')
    BY <2>1, <1>9, <1>13
  <2>4. \A b \in DOMAIN C : C[b].used => b \in DOMAIN held'
    BY <2>1, <1>9, <1>17
  <2>5. ASSUME NEW b \in DOMAIN C, NEW c \in DOMAIN C, Joins(C, V, b, c)
        PROVE  FALSE
    <3>1. ~ C[b].used /\ ~ C[c].used
      BY <2>5, JoinsIs
    <3>2. b \in DOMAIN heap.blocks /\ c \in DOMAIN heap.blocks
      BY <3>1, <1>9
    <3>3. Joins(heap.blocks, U, b, c)
      BY <3>2, <2>5, <1>11
    <3> QED BY <3>2, <3>3, <2>1 DEF Quiet
  <2>6. Quiet(heap', V, {})
    BY <2>5, <1>13 DEF Quiet
  <2> QED BY <2>2, <2>3, <2>4, <2>6, <1>13, NeatIs
<1>23. DividedInv'
  <2> SUFFICES ASSUME NEW d \in Tested(params.strategy), NEW b \in DOMAIN C
               PROVE  b % d = 0 /\ C[b].size % d = 0
    BY <1>13 DEF DividedInv, Divided
  <2>1. d \in Nat \ {0} /\ size % d = 0 /\ PageSize % d = 0
    <3>1. params.strategy \in Strategies
      BY <1>2, RequestIs
    <3>2. <<size, al>>[1] = size
      OBVIOUS
    <3> QED BY <3>1, <3>2, TestedIs DEF Careful
  <2>2. CASE b = a
    <3>1. PageSize \in Nat \ {0}
      BY CoarseAssumption
    <3>2. a % d = 0
      BY <3>1, <2>1, <1>4, DividedThrough
    <3> QED BY <3>2, <2>1, <2>2, <1>9
  <2>3. CASE b \in DOMAIN heap.blocks \ {a}
    <3>1. Divided(heap.blocks, d)
      BY <1>2 DEF DividedInv
    <3> QED BY <3>1, <2>3, <1>9 DEF Divided
  <2> QED BY <2>2, <2>3, <1>9
<1>24. Handed
  BY <1>1, <1>4, <1>17 DEF Handed
<1>25. Cells(U) \subseteq Cells(U')
  BY <1>3, <1>8 DEF Grew
<1> QED BY <1>14, <1>15, <1>18, <1>19, <1>20, <1>21, <1>22, <1>23, <1>24, <1>25 DEF IInv

(* Every way an allocation from a new region can end. *)
LEMMA AllocRegionIs ==
  ASSUME IInv, Up, Careful, NEW size, NEW al, <<size, al>> \in Requests[params.strategy],
         AllocRegion(size, al), UNCHANGED <<params, traits>>
  PROVE  /\ IInv' /\ (Handed \/ UNCHANGED held)
         /\ Cells(upstreamBlocks) \subseteq Cells(upstreamBlocks')
<1> DEFINE h == FindFree(heap, size, al).heap
<1>1. FindFree(heap, size, al).found = {} /\ HasUpstream
  BY DEF AllocRegion
<1>2. PICK a \in Addresses :
       /\ Region(a, size) /\ Aligned(a, al)
       /\ \/ /\ Adopt(h, a, size)
             /\ given' = Put(given, Grown(a, size))
             /\ held' = Extend(held, a, size)
          \/ /\ AdoptFails /\ Fail(1)
             /\ heap' = h
             /\ given' = IF "free" \in traits THEN given ELSE Extend(given, a, size)
             /\ UNCHANGED <<upstreamBlocks, usedSize, allocSize, held>>
  BY DEF AllocRegion
<1>3. CASE Adopt(h, a, size) /\ given' = Put(given, Grown(a, size)) /\ held' = Extend(held, a, size)
  BY <1>1, <1>2, <1>3, RegionHanded
<1>4. CASE /\ AdoptFails /\ Fail(1) /\ heap' = h
           /\ given' = IF "free" \in traits THEN given ELSE Extend(given, a, size)
           /\ UNCHANGED <<upstreamBlocks, usedSize, allocSize, held>>
  BY <1>1, <1>2, <1>4, RegionSpoiled
<1> QED BY <1>2, <1>3, <1>4

(***************************************************************************)
(* Free, split and merge                                                   *)
(***************************************************************************)
(* A function with one value less. *)
LEMMA WithoutIs ==
  ASSUME NEW f, NEW a
  PROVE  /\ Without(f, a) = [x \in DOMAIN Without(f, a) |-> Without(f, a)[x]]
         /\ DOMAIN Without(f, a) = DOMAIN f \ {a}
         /\ \A x \in DOMAIN f \ {a} : Without(f, a)[x] = f[x]
BY DEF Without

(* The release of what a caller holds. *)
LEMMA FreeIs ==
  ASSUME IInv, NEW a, Free(a)
  PROVE  IInv'
<1> DEFINE U == upstreamBlocks
<1>1. /\ Up /\ a \in DOMAIN held /\ usedSize' = usedSize - heap.blocks[a].size
      /\ held' = Without(held, a) /\ UNCHANGED <<params, traits, upstreamBlocks, allocSize, given>>
  BY DEF Free
<1>2. TypeInv /\ HeldInv /\ GivenInv /\ CountInv /\ DividedInv /\ NeatInv /\ Sound(heap, U)
  BY DEF IInv, HeapInv
<1>3. PICK r \in FreeIn(heap, U, a) : heap' = r.heap /\ Fail(IF r.ok THEN 0 ELSE 1)
  BY DEF Free
<1>4. a \in DOMAIN heap.blocks /\ heap.blocks[a].used /\ heap.blocks[a].size = held[a]
  BY <1>1, <1>2 DEF HeldInv
<1>5. Freed(heap, r, U, a)
  BY <1>2, <1>3, <1>4, FreeInIs
<1> DEFINE C == heap'.blocks
<1>6. /\ Sound(heap', U) /\ r.ok \in BOOLEAN
      /\ \A b \in DOMAIN heap.blocks \ {a} : heap.blocks[b].used => b \in DOMAIN C /\ C[b] = heap.blocks[b]
      /\ \A b \in DOMAIN C : C[b].used => b \in DOMAIN heap.blocks \ {a} /\ heap.blocks[b].used
      /\ KeepsDivided(heap, heap') /\ (~ r.ok => SomeFailure)
      /\ r.ok /\ Neat(heap, U, {a}) => Neat(heap', U, {})
  BY <1>3, <1>5 DEF Freed
<1> HIDE DEF C
<1>7. failures' \in 0 .. MaxFailures /\ (failures' = 0 => r.ok /\ failures = 0)
  <2>1. CASE r.ok
    <3>1. failures' = failures
      BY <1>2, <1>3, <2>1 DEF Fail, TypeInv
    <3> QED BY <3>1, <1>2, <2>1 DEF TypeInv
  <2>2. CASE ~ r.ok
    BY <1>2, <1>3, <1>6, <2>2, FailOk
  <2> QED BY <2>1, <2>2
<1>8. /\ held' = [x \in DOMAIN held' |-> held'[x]] /\ DOMAIN held' = DOMAIN held \ {a}
      /\ \A x \in DOMAIN held' : held'[x] = held[x]
  BY <1>1 DEF Without
<1>9. held = [x \in DOMAIN held |-> held[x]] /\ Ranges(held)
  <2>1. /\ held = [x \in DOMAIN held |-> held[x]]
        /\ \A b \in DOMAIN held : b \in DOMAIN heap.blocks /\ heap.blocks[b].size = held[b]
    BY <1>2 DEF HeldInv
  <2> QED BY <2>1, <1>2, HeldRanges
<1>10. TypeInv'
  <2>1. usedSize' \in Int
    <3>1. heap.blocks[a].size \in Nat
      BY <1>2, <1>4 DEF Sound, Shape
    <3> QED BY <3>1, <1>1, <1>2 DEF TypeInv
  <2> QED BY <2>1, <1>1, <1>2, <1>7 DEF TypeInv
<1>11. HeapInv'
  BY <1>1, <1>6 DEF HeapInv
<1>12. HeldInv'
  <2>1. ASSUME NEW b \in DOMAIN held'
        PROVE  b \in DOMAIN C /\ C[b].used /\ C[b].size = held'[b]
    <3>1. b \in DOMAIN heap.blocks \ {a} /\ heap.blocks[b].used /\ heap.blocks[b].size = held[b]
      BY <1>2, <1>8 DEF HeldInv
    <3> QED BY <3>1, <1>6, <1>8
  <2> QED BY <2>1, <1>8 DEF HeldInv, C
<1>13. CountInv'
  <2>1. DOMAIN held = DOMAIN held' \cup {a} /\ a \notin DOMAIN held'
        /\ \A b \in DOMAIN held' : held[b] = held'[b]
    BY <1>1, <1>8
  <2>2. /\ Cardinality(Cells(held)) = Cardinality(Cells(held')) + held[a]
        /\ Ranges(held') /\ held[a] \in Nat
    BY <2>1, <1>8, <1>9, CellsApart
  <2>3. Cardinality(Cells(held')) \in Nat
    BY <2>2, CellsNat
  <2>4. allocSize = Cardinality(Cells(U)) /\ usedSize = Cardinality(Cells(held))
    BY <1>1, <1>2 DEF CountInv
  <2> QED BY <2>2, <2>3, <2>4, <1>1, <1>4 DEF CountInv, Up
<1>14. DownInv'
  BY <1>1 DEF DownInv, Up
<1>15. GivenInv'
  BY <1>1, <1>2, <1>7 DEF GivenInv, HasUpstream
<1>16. NeatInv'
  <2> SUFFICES ASSUME failures' = 0
               PROVE  /\ Neat(heap', U, {})
                      /\ \A b \in DOMAIN C : C[b].used => b \in DOMAIN held'
    BY <1>1 DEF NeatInv, C
  <2>1. /\ Neat(heap, U, {})
        /\ \A b \in DOMAIN heap.blocks : heap.blocks[b].used => b \in DOMAIN held
    BY <1>2, <1>7 DEF NeatInv
  <2>2. Neat(heap, U, {a})
    BY <2>1 DEF Neat
  <2> QED BY <2>1, <2>2, <1>6, <1>7, <1>8
<1>17. DividedInv'
  <2> SUFFICES ASSUME NEW d \in Tested(params.strategy)
               PROVE  Divided(C, d)
    BY <1>1 DEF DividedInv, C
  <2>1. d \in Nat \ {0} /\ Divided(heap.blocks, d)
    BY <1>2 DEF Tested, DividedInv
  <2> QED BY <2>1, <1>6 DEF KeepsDivided, C
<1> QED BY <1>10, <1>11, <1>12, <1>13, <1>14, <1>15, <1>16, <1>17 DEF IInv

(* A range in two. *)
LEMMA CellsCut ==
  ASSUME NEW f, Ranges(f), NEW g, NEW a \in DOMAIN f, NEW k \in Nat, 0 < k, k < f[a],
         DOMAIN g = DOMAIN f \cup {a + k}, a + k \notin DOMAIN f, g[a] = k, g[a + k] = f[a] - k,
         \A b \in DOMAIN f \ {a} : g[b] = f[b]
  PROVE  Cells(g) = Cells(f)
<1>0. a \in Nat /\ f[a] \in Nat
  BY DEF Ranges
<1>1. ASSUME NEW b \in DOMAIN g, NEW x \in Bytes(b, g[b])
      PROVE  x \in Cells(f)
  <2>1. CASE b = a \/ b = a + k
    <3>1. x \in Bytes(a, f[a])
      BY <1>0, <1>1, <2>1 DEF Bytes
    <3> QED BY <3>1 DEF Cells
  <2>2. CASE b \in DOMAIN f \ {a}
    BY <2>2, <1>1 DEF Cells
  <2> QED BY <2>1, <2>2
<1>2. ASSUME NEW b \in DOMAIN f, NEW x \in Bytes(b, f[b])
      PROVE  x \in Cells(g)
  <2>1. CASE b = a
    <3>1. x \in Bytes(a, g[a]) \/ x \in Bytes(a + k, g[a + k])
      BY <1>0, <1>2, <2>1 DEF Bytes
    <3> QED BY <3>1 DEF Cells
  <2>2. CASE b # a
    BY <2>2, <1>2 DEF Cells
  <2> QED BY <2>1, <2>2
<1> QED BY <1>1, <1>2 DEF Cells

(* The tree node of the second half cannot be made. *)
LEMMA SplitFails ==
  ASSUME IInv, Up, SomeFailure, Fail(1), UNCHANGED <<heap, held>>,
         UNCHANGED <<params, traits, upstreamBlocks, usedSize, allocSize, given>>
  PROVE  IInv'
<1>1. TypeInv /\ HeldInv /\ GivenInv /\ CountInv /\ DividedInv /\ HeapInv
  BY DEF IInv
<1>2. failures' \in 0 .. MaxFailures /\ failures' # 0
  BY <1>1, FailOk
<1>3. TypeInv' /\ HeapInv' /\ HeldInv' /\ DividedInv'
  BY <1>1, <1>2 DEF TypeInv, HeapInv, HeldInv, DividedInv
<1>4. DownInv' /\ CountInv' /\ NeatInv'
  BY <1>1, <1>2 DEF DownInv, CountInv, NeatInv, Up
<1>5. GivenInv'
  BY <1>1, <1>2 DEF GivenInv, HasUpstream
<1> QED BY <1>3, <1>4, <1>5 DEF IInv

(* A used block becomes two. *)
LEMMA SplitSucceeds ==
  ASSUME IInv, Careful, Up, NEW q \in Requests[params.strategy], NEW first, first = q[1],
         NEW a \in DOMAIN held, first < heap.blocks[a].size, NEW n, n = heap.blocks[a].size - first,
         NEW h, NEW u \in BOOLEAN, Changed(heap, h, a + first, n, u),
         heap' = SetUsed(SetSize(h, a, first), a + first, TRUE),
         held' = Extend(Extend(held, a + first, n), a, first), Fail(0),
         UNCHANGED <<params, traits, upstreamBlocks, usedSize, allocSize, given>>
  PROVE  IInv'
<1> DEFINE U == upstreamBlocks
           e == SetSize(h, a, first)
           t == a + first
<1>1. TypeInv /\ HeldInv /\ GivenInv /\ CountInv /\ DividedInv /\ NeatInv /\ Sound(heap, U)
      /\ Fine(heap) /\ Tiles(heap.blocks, U)
  BY DEF IInv, HeapInv, Sound, Fine
<1>2. /\ a \in DOMAIN heap.blocks /\ heap.blocks[a].used /\ heap.blocks[a].size = held[a]
      /\ a \in Nat /\ heap.blocks[a].size \in Nat
  BY <1>1, BlockFacts DEF HeldInv
<1>3. first \in Nat /\ first > 0
  <2>1. Requests[params.strategy] \subseteq (Nat \ {0}) \X Nat
    BY <1>1, CoarseAssumption DEF TypeInv, Up
  <2> QED BY <2>1
<1>4. n \in Nat /\ n > 0 /\ failures' = failures /\ t \in Nat
  BY <1>1, <1>2, <1>3 DEF Fail, TypeInv
<1>5. /\ Fine(h) /\ ListedSet(h) = ListedSet(heap) /\ KeepsFull(heap, h)
      /\ DOMAIN h.blocks = DOMAIN heap.blocks \cup {t}
      /\ h.blocks[t].size = n
      /\ \A b \in DOMAIN heap.blocks \ {t} : h.blocks[b] = heap.blocks[b]
  BY DEF Changed, Now
<1>6. t \notin DOMAIN heap.blocks
  <2> SUFFICES ASSUME t \in DOMAIN heap.blocks PROVE FALSE
    OBVIOUS
  <2>1. a < t => a + heap.blocks[a].size <= t
    BY <1>1, <1>2, BlockFacts
  <2> QED BY <2>1, <1>2, <1>3
<1>7. a # t /\ a \notin ListedSet(heap) /\ t \notin ListedSet(heap)
  BY <1>1, <1>2, <1>3, <1>6, ListedUnused DEF ListedSet
<1> HIDE DEF e, t
<1>8. Changed(h, e, a, first, h.blocks[a].used)
  BY <1>2, <1>3, <1>5, <1>7, SetSizeIs DEF e
<1>9. /\ Fine(e) /\ ListedSet(e) = ListedSet(heap) /\ KeepsFull(heap, e)
      /\ DOMAIN e.blocks = DOMAIN heap.blocks \cup {t}
      /\ e.blocks[t].size = n /\ e.blocks[a].size = first /\ e.blocks[a].used
      /\ \A b \in DOMAIN heap.blocks \ {a} : e.blocks[b] = heap.blocks[b]
  BY <1>2, <1>5, <1>6, <1>7, <1>8 DEF Changed, Now, KeepsFull
<1>10. Changed(e, heap', t, e.blocks[t].size, TRUE)
  <2>1. t \in DOMAIN e.blocks /\ t \notin ListedSet(e) /\ heap' = SetUsed(e, t, TRUE)
    BY <1>7, <1>9 DEF e, t
  <2> QED BY <2>1, <1>9, SetUsedIs
<1> DEFINE C == heap'.blocks
<1>11. /\ Fine(heap') /\ ListedSet(heap') = ListedSet(heap) /\ KeepsFull(heap, heap')
       /\ DOMAIN C = DOMAIN heap.blocks \cup {t}
       /\ C[t].size = n /\ C[a].size = first /\ C[a].used /\ C[t].used
       /\ \A b \in DOMAIN heap.blocks \ {a} : C[b] = heap.blocks[b]
  BY <1>2, <1>6, <1>7, <1>9, <1>10 DEF Changed, Now, KeepsFull
<1> HIDE DEF C
<1>12. /\ DOMAIN C = DOMAIN heap.blocks \cup {a + first} /\ C[a].size = first
       /\ C[a + first].size = heap.blocks[a].size - first
       /\ \A b \in DOMAIN heap.blocks \ {a} : C[b].size = heap.blocks[b].size
       /\ 0 < first
  BY <1>3, <1>11 DEF t
<1>13. Tiles(C, U)
  BY <1>1, <1>2, <1>3, <1>12, CutTiles
<1>14. TypeInv'
  BY <1>1, <1>4 DEF TypeInv
<1>15. HeapInv'
  BY <1>11, <1>13 DEF HeapInv, Sound, Fine, C
<1>16. t \notin DOMAIN held
  BY <1>1, <1>6 DEF HeldInv
<1>17. /\ held' = [x \in DOMAIN held' |-> held'[x]] /\ DOMAIN held' = DOMAIN held \cup {t}
       /\ held'[a] = first /\ held'[t] = n /\ \A x \in DOMAIN held \ {a} : held'[x] = held[x]
  <2>1. held' = Extend(Extend(held, t, n), a, first)
    BY DEF t
  <2> DEFINE f == Extend(held, t, n)
  <2>2. /\ DOMAIN f = DOMAIN held \cup {t} /\ f[t] = n /\ \A x \in DOMAIN held : f[x] = held[x]
    BY <1>16 DEF Extend
  <2> HIDE DEF f
  <2>3. held' = Extend(f, a, first)
    BY <2>1 DEF f
  <2>4. /\ held' = [x \in DOMAIN held' |-> held'[x]] /\ DOMAIN held' = DOMAIN f \cup {a}
        /\ held'[a] = first /\ \A x \in DOMAIN f \ {a} : held'[x] = f[x]
    BY <2>3 DEF Extend
  <2> QED BY <2>2, <2>4, <1>7, <1>16
<1>18. HeldInv'
  <2>1. ASSUME NEW b \in DOMAIN held'
        PROVE  b \in DOMAIN C /\ C[b].used /\ C[b].size = held'[b]
    <3>1. CASE b = a
      BY <3>1, <1>2, <1>11, <1>17
    <3>2. CASE b = t
      BY <3>2, <1>11, <1>17
    <3>3. CASE b \in DOMAIN held \ {a}
      <4>1. b \in DOMAIN heap.blocks \ {a} /\ heap.blocks[b].used /\ heap.blocks[b].size = held[b]
        BY <3>3, <1>1 DEF HeldInv
      <4> QED BY <4>1, <3>3, <1>11, <1>17
    <3> QED BY <3>1, <3>2, <3>3, <1>17
  <2> QED BY <2>1, <1>17 DEF HeldInv, C
<1>19. CountInv'
  <2>1. Ranges(held)
    <3>1. /\ held = [x \in DOMAIN held |-> held[x]]
          /\ \A b \in DOMAIN held : b \in DOMAIN heap.blocks /\ heap.blocks[b].size = held[b]
      BY <1>1 DEF HeldInv
    <3> QED BY <3>1, <1>1, HeldRanges
  <2>2. /\ DOMAIN held' = DOMAIN held \cup {a + first} /\ a + first \notin DOMAIN held
        /\ held'[a + first] = held[a] - first /\ 0 < first /\ first < held[a]
    BY <1>2, <1>3, <1>16, <1>17 DEF t
  <2>3. Cells(held') = Cells(held)
    BY <2>1, <2>2, <1>3, <1>17, CellsCut
  <2> QED BY <2>3, <1>1 DEF CountInv, Up
<1>20. DownInv'
  BY DEF DownInv, Up
<1>21. GivenInv'
  BY <1>1, <1>4 DEF GivenInv, HasUpstream
<1>22. NeatInv'
  <2> SUFFICES ASSUME failures = 0
               PROVE  /\ Neat(heap', U, {})
                      /\ \A b \in DOMAIN C : C[b].used => b \in DOMAIN held'
    BY <1>4 DEF NeatInv, C
  <2>1. /\ Full(heap) /\ Quiet(heap, U, {})
        /\ \A b \in DOMAIN heap.blocks \ {} : heap.blocks[b].used \/ b \in ListedSet(heap)
        /\ \A b \in DOMAIN heap.blocks : heap.blocks[b].used => b \in DOMAIN held
    BY <1>1, NeatIs DEF NeatInv
  <2>2. Full(heap')
    BY <2>1, <1>11 DEF KeepsFull
  <2>3. \A b \in DOMAIN C \ {} : C[b].used \/ b \in ListedSet(heap')
    BY <2>1, <1>11
  <2>4. \A b \in DOMAIN C : C[b].used => b \in DOMAIN held'
    BY <2>1, <1>11, <1>17
  <2>5. ASSUME NEW b \in DOMAIN C, NEW c \in DOMAIN C, Joins(C, U, b, c)
        PROVE  FALSE
    <3>1. ~ C[b].used /\ ~ C[c].used /\ Touch(C, U, b, c)
      BY <2>5, JoinsIs
    <3>2. b \notin {a, t} /\ c \notin {a, t}
      BY <3>1, <1>11
    <3>3. ~ (b = a /\ c = a + first)
      BY <3>2
    <3>4. AsBefore(heap.blocks, U, a, a + first, b, c)
      BY <3>1, <3>3, <1>1, <1>2, <1>3, <1>12, CutTouch
    <3>5. Touch(heap.blocks, U, b, c)
      BY <3>2, <3>4 DEF AsBefore, t
    <3>6. /\ b \in DOMAIN heap.blocks /\ c \in DOMAIN heap.blocks
          /\ ~ heap.blocks[b].used /\ ~ heap.blocks[c].used
      BY <3>1, <3>2, <1>11
    <3>7. Joins(heap.blocks, U, b, c)
      BY <3>5, <3>6, JoinsIs
    <3> QED BY <3>6, <3>7, <2>1 DEF Quiet
  <2>6. Quiet(heap', U, {})
    BY <2>5 DEF Quiet, C
  <2> QED BY <2>2, <2>3, <2>4, <2>6, NeatIs DEF C
<1>23. DividedInv'
  <2> SUFFICES ASSUME NEW d \in Tested(params.strategy), NEW b \in DOMAIN C
               PROVE  b % d = 0 /\ C[b].size % d = 0
    BY DEF DividedInv, Divided, C
  <2>1. d \in Nat \ {0} /\ first % d = 0
    <3>1. params.strategy \in Strategies
      BY <1>1 DEF TypeInv
    <3> QED BY <3>1, TestedIs DEF Careful
  <2>2. \A x \in DOMAIN heap.blocks : x % d = 0 /\ heap.blocks[x].size % d = 0
    BY <1>1 DEF DividedInv, Divided
  <2>3. CASE b = t
    <3>1. (a + first) % d = 0
      BY <2>1, <2>2, <1>2, <1>3, DividedSum
    <3>2. (heap.blocks[a].size - first) % d = 0
      BY <2>1, <2>2, <1>2, <1>3, DividedDifference
    <3> QED BY <3>1, <3>2, <2>3, <1>11 DEF t
  <2>4. CASE b = a
    BY <2>1, <2>2, <2>4, <1>2, <1>11
  <2>5. CASE b \in DOMAIN heap.blocks \ {a}
    BY <2>2, <2>5, <1>11
  <2> QED BY <2>3, <2>4, <2>5, <1>11
<1> QED BY <1>14, <1>15, <1>18, <1>19, <1>20, <1>21, <1>22, <1>23 DEF IInv

(* The split of what a caller holds. *)
LEMMA AllocationSplitIs ==
  ASSUME IInv, Careful, NEW q \in Requests[params.strategy], NEW a, AllocationSplit(a, q[1])
  PROVE  IInv'
<1> DEFINE first == q[1]
           n == heap.blocks[a].size - first
<1>1. /\ Up /\ a \in DOMAIN held /\ first < heap.blocks[a].size
      /\ UNCHANGED <<params, traits, upstreamBlocks, usedSize, allocSize, given>>
  BY DEF AllocationSplit
<1>2. PICK r \in AddNew(heap, a + first, n, "allocationSplit") :
       IF r.ok
       THEN /\ heap' = SetUsed(SetSize(r.heap, a, first), a + first, TRUE)
            /\ held' = Extend(Extend(held, a + first, n), a, first)
            /\ Fail(0)
       ELSE Fail(1) /\ UNCHANGED <<heap, held>>
  BY DEF AllocationSplit
<1> HIDE DEF first, n
<1>3. Created(heap, a + first, n, "allocationSplit", r)
  <2>1. Fine(heap) /\ Tiles(heap.blocks, upstreamBlocks) /\ TypeInv
    BY DEF IInv, HeapInv, Sound, Fine
  <2>2. a \in DOMAIN heap.blocks /\ a \in Nat /\ heap.blocks[a].size \in Nat
    <3>1. a \in DOMAIN heap.blocks
      BY <1>1 DEF IInv, HeldInv
    <3> QED BY <2>1, <3>1, BlockFacts
  <2>3. first \in Nat /\ first > 0
    <3>1. Requests[params.strategy] \subseteq (Nat \ {0}) \X Nat
      BY <2>1, <1>1, CoarseAssumption DEF TypeInv, Up
    <3> QED BY <3>1 DEF first
  <2>4. a + first \notin DOMAIN heap.blocks
    <3> SUFFICES ASSUME a + first \in DOMAIN heap.blocks PROVE FALSE
      OBVIOUS
    <3>1. a < a + first => a + heap.blocks[a].size <= a + first
      BY <2>1, <2>2, BlockFacts
    <3> QED BY <3>1, <2>2, <2>3, <1>1
  <2>5. n \in Nat
    BY <2>2, <2>3, <1>1 DEF n
  <2> QED BY <2>1, <2>4, <2>5, <1>2, AddNewIs
<1>4. CASE r.ok
  <2>1. PICK u \in BOOLEAN : Changed(heap, r.heap, a + first, n, u)
    BY <1>3, <1>4 DEF Created
  <2>2. n = heap.blocks[a].size - first /\ first = q[1]
    BY DEF n, first
  <2> QED BY <2>1, <2>2, <1>1, <1>2, <1>4, SplitSucceeds
<1>5. CASE ~ r.ok
  <2>1. SomeFailure
    BY <1>3, <1>5 DEF Created, SomeFailure, Sites
  <2> QED BY <2>1, <1>1, <1>2, <1>5, SplitFails
<1> QED BY <1>4, <1>5

(* The merge of two neighbours that callers hold. *)
LEMMA AllocationMergeIs ==
  ASSUME IInv, NEW low, NEW high, AllocationMerge(low, high)
  PROVE  IInv'
<1> DEFINE U == upstreamBlocks
           B == heap.blocks
           C == heap'.blocks
           n == heap.blocks[low].size + heap.blocks[high].size
<1>1. /\ Up /\ low \in DOMAIN held /\ high \in DOMAIN held
      /\ Mergeable(U, heap, low, high, TRUE)
      /\ heap' = JoinBlocks(heap, low, high)
      /\ held' = Extend(Without(held, high), low, n)
      /\ UNCHANGED <<params, traits, upstreamBlocks, usedSize, allocSize, given, failures>>
  BY DEF AllocationMerge
<1>2. TypeInv /\ HeldInv /\ GivenInv /\ CountInv /\ DividedInv /\ NeatInv /\ Sound(heap, U)
      /\ Fine(heap) /\ Tiles(heap.blocks, U)
  BY DEF IInv, HeapInv, Sound, Fine
<1>3. /\ low \in DOMAIN B /\ high \in DOMAIN B /\ B[low].used /\ B[high].used
      /\ B[low].size = held[low] /\ B[high].size = held[high]
  BY <1>1, <1>2 DEF HeldInv
<1>4. /\ low \in Nat /\ high \in Nat /\ B[low].size \in Nat /\ B[high].size \in Nat
      /\ B[low].size > 0 /\ B[high].size > 0
  BY <1>2, <1>3, BlockFacts
<1>5. Touch(B, U, low, high)
  <2>1. low + B[low].size = high /\ SameOrigin(U, heap, low, high)
    BY <1>1 DEF Mergeable
  <2> QED BY <2>1, <1>2, <1>3, SameOriginIs DEF Touch
<1>6. low + B[low].size = high /\ low # high
  BY <1>4, <1>5 DEF Touch
<1>7. Joined(heap, heap', low, high)
  BY <1>1, <1>2, <1>3, <1>6, JoinBlocksIs
<1>8. Sound(heap', U) /\ low \in DOMAIN C
  BY <1>2, <1>3, <1>5, <1>7, JoinSound
<1>9. low \notin ListedSet(heap) /\ high \notin ListedSet(heap)
  BY <1>2, <1>3, ListedUnused
<1>10. /\ ListedSet(heap') = ListedSet(heap) /\ KeepsFull(heap, heap')
       /\ DOMAIN C = DOMAIN B \ {high} /\ C[low].size = n /\ C[low].used
       /\ \A c \in DOMAIN B \ {low, high} : C[c] = B[c]
  BY <1>3, <1>7, <1>9 DEF Joined, Now
<1>11. /\ held' = [x \in DOMAIN held' |-> held'[x]] /\ DOMAIN held' = DOMAIN held \ {high}
       /\ held'[low] = n /\ \A x \in DOMAIN held \ {low, high} : held'[x] = held[x]
  BY <1>1, <1>6 DEF Extend, Without
<1> HIDE DEF B, C, n
<1>12. TypeInv' /\ HeapInv' /\ DownInv' /\ GivenInv'
  BY <1>1, <1>2, <1>8 DEF TypeInv, HeapInv, DownInv, GivenInv, Up, HasUpstream
<1>13. HeldInv'
  <2>1. ASSUME NEW b \in DOMAIN held'
        PROVE  b \in DOMAIN C /\ C[b].used /\ C[b].size = held'[b]
    <3>1. CASE b = low
      BY <3>1, <1>8, <1>10, <1>11
    <3>2. CASE b # low
      <4>1. b \in DOMAIN B \ {low, high} /\ B[b].used /\ B[b].size = held[b]
        BY <3>2, <1>2, <1>11 DEF HeldInv, B
      <4> QED BY <4>1, <3>2, <1>10, <1>11
    <3> QED BY <3>1, <3>2
  <2> QED BY <2>1, <1>11 DEF HeldInv, C
<1>14. CountInv'
  <2>1. Ranges(held')
    <3>1. \A b \in DOMAIN held' : b \in DOMAIN heap'.blocks /\ heap'.blocks[b].size = held'[b]
      BY <1>13 DEF HeldInv
    <3> QED BY <3>1, <1>8, <1>11, HeldRanges
  <2>2. /\ low \in DOMAIN held' /\ held[low] \in Nat /\ 0 < held[low] /\ held[low] < held'[low]
        /\ low + held[low] = high /\ held[high] = held'[low] - held[low]
    BY <1>1, <1>3, <1>4, <1>6, <1>11 DEF n, B
  <2>3. DOMAIN held = DOMAIN held' \cup {low + held[low]} /\ low + held[low] \notin DOMAIN held'
    BY <2>2, <1>1, <1>11
  <2>4. \A b \in DOMAIN held' \ {low} : held[b] = held'[b]
    BY <1>11
  <2>5. held[low + held[low]] = held'[low] - held[low]
    BY <2>2
  <2>6. Cells(held) = Cells(held')
    BY <2>1, <2>2, <2>3, <2>4, <2>5, CellsCut
  <2> QED BY <2>6, <1>1, <1>2 DEF CountInv, Up
<1>15. NeatInv'
  <2> SUFFICES ASSUME failures = 0
               PROVE  /\ Neat(heap', U, {})
                      /\ \A b \in DOMAIN C : C[b].used => b \in DOMAIN held'
    BY <1>1 DEF NeatInv, C
  <2>1. /\ Full(heap) /\ Quiet(heap, U, {})
        /\ \A b \in DOMAIN B \ {} : B[b].used \/ b \in ListedSet(heap)
        /\ \A b \in DOMAIN B : B[b].used => b \in DOMAIN held
    BY <1>2, NeatIs DEF NeatInv, B
  <2>2. Full(heap')
    BY <2>1, <1>10 DEF KeepsFull
  <2>3. \A b \in DOMAIN C \ {} : C[b].used \/ b \in ListedSet(heap')
    <3> TAKE b \in DOMAIN C \ {}
    <3>1. CASE b = low
      BY <3>1, <1>10
    <3>2. CASE b # low
      BY <3>2, <2>1, <1>10
    <3> QED BY <3>1, <3>2
  <2>4. \A b \in DOMAIN C : C[b].used => b \in DOMAIN held'
    <3> TAKE b \in DOMAIN C
    <3>1. CASE b = low
      BY <3>1, <1>1, <1>6, <1>11
    <3>2. CASE b # low
      BY <3>2, <2>1, <1>10, <1>11
    <3> QED BY <3>1, <3>2
  <2>5. ASSUME NEW b \in DOMAIN C, NEW c \in DOMAIN C, Joins(C, U, b, c)
        PROVE  FALSE
    <3>1. ~ C[b].used /\ ~ C[c].used /\ Touch(C, U, b, c)
      BY <2>5, JoinsIs
    <3>2. b # low /\ c # low
      BY <3>1, <1>10
    <3>3. BeforeJoin(heap.blocks, U, low, high, b, c)
      BY <3>1, <1>2, <1>3, <1>5, <1>7, JoinTouch DEF B, C
    <3>4. Touch(B, U, b, c)
      BY <3>2, <3>3 DEF BeforeJoin, B
    <3>5. b \in DOMAIN B /\ c \in DOMAIN B /\ ~ B[b].used /\ ~ B[c].used
      BY <3>1, <3>2, <1>10
    <3>6. Joins(B, U, b, c)
      BY <3>4, <3>5, JoinsIs
    <3> QED BY <3>5, <3>6, <2>1 DEF Quiet, B
  <2>6. Quiet(heap', U, {})
    BY <2>5 DEF Quiet, C
  <2> QED BY <2>2, <2>3, <2>4, <2>6, NeatIs DEF C
<1>16. DividedInv'
  <2> SUFFICES ASSUME NEW d \in Tested(params.strategy), NEW b \in DOMAIN C
               PROVE  b % d = 0 /\ C[b].size % d = 0
    BY <1>1 DEF DividedInv, Divided, C
  <2>1. d \in Nat \ {0} /\ \A x \in DOMAIN B : x % d = 0 /\ B[x].size % d = 0
    BY <1>2 DEF DividedInv, Divided, Tested, B
  <2>2. CASE b = low
    <3>1. (B[low].size + B[high].size) % d = 0
      BY <2>1, <1>3, <1>4, DividedSum DEF B
    <3> QED BY <3>1, <2>1, <2>2, <1>3, <1>10 DEF n, B
  <2>3. CASE b # low
    BY <2>1, <2>3, <1>10
  <2> QED BY <2>2, <2>3
<1> QED BY <1>12, <1>13, <1>14, <1>15, <1>16 DEF IInv

(***************************************************************************)
(* The provider comes up and goes down                                     *)
(***************************************************************************)
(* A provider without memory. *)
LEMMA NothingHere ==
  /\ Sound(EmptyHeap, Empty) /\ Neat(EmptyHeap, Empty, {})
  /\ DOMAIN EmptyHeap.blocks = {} /\ DOMAIN Empty = {}
<1>1. /\ EmptyHeap.blocks = Empty /\ EmptyHeap.free = Empty /\ DOMAIN Empty = {}
      /\ EmptyHeap = [blocks |-> EmptyHeap.blocks, free |-> EmptyHeap.free]
  BY DEF EmptyHeap, Empty
<1>2. Empty \in [{} -> [size : Nat, used : BOOLEAN]] /\ Empty \in [{} -> Seq(Nat)]
  BY DEF Empty
<1>3. Shape(EmptyHeap)
  BY <1>1, <1>2 DEF Shape
<1>4. Ranges(Empty) /\ Ranges(Sizes(Empty, DOMAIN Empty))
  BY <1>1, CellsOfNone, SizesRanges
<1> QED BY <1>1, <1>3, <1>4 DEF Sound, Tiles, Lists, Neat

(* A heap of one block that is all there is. *)
Single(h, U, a, n) ==
  /\ Sound(h, U) /\ Neat(h, U, {a}) /\ DOMAIN h.blocks = {a} /\ h.blocks[a].used
  /\ DOMAIN U = {a} /\ U[a] = n /\ Cardinality(Cells(U)) = n
  /\ \A d \in Nat \ {0} : a % d = 0 /\ n % d = 0 => Divided(h.blocks, d)

(* The heap that coarse_memory_provider_initialize starts from. *)
LEMMA FirstBlock ==
  ASSUME NEW a \in Nat, NEW n \in Nat, n > 0, a + n <= Memory
  PROVE  Single([EmptyHeap EXCEPT !.blocks = Extend(Empty, a, [size |-> n, used |-> TRUE])],
                Extend(Empty, a, n), a, n)
<1> DEFINE B == Extend(Empty, a, [size |-> n, used |-> TRUE])
           h == [EmptyHeap EXCEPT !.blocks = B]
           U == Extend(Empty, a, n)
<1>1. h.blocks = B /\ h.free = Empty /\ h = [blocks |-> h.blocks, free |-> h.free]
  BY DEF EmptyHeap
<1>2. DOMAIN B = {a} /\ B[a].size = n /\ B[a].used /\ B \in [DOMAIN B -> [size : Nat, used : BOOLEAN]]
  BY DEF Extend, Empty
<1>3. DOMAIN U = {a} /\ U[a] = n
  BY DEF Extend, Empty
<1>4. DOMAIN Empty = {} /\ Empty \in [{} -> Seq(Nat)]
  BY DEF Empty
<1>5. Ranges(U) /\ Cardinality(Cells(U)) = n
  <2>1. Cells(Empty) = {} /\ Cardinality(Cells(Empty)) = 0 /\ Ranges(Empty)
    BY CellsOfNone
  <2>2. Ranges(U)
    BY <2>1, RangesExtend
  <2>3. Gained(Empty, U, a, n)
    BY <2>1, <1>4, CellsExtend DEF Gained
  <2>4. Cardinality(Cells(U)) = Cardinality(Cells(Empty)) + n
    BY <2>1, <2>2, <2>3, CellsAdd
  <2> QED BY <2>1, <2>2, <2>4
<1> HIDE DEF B, U, h
<1>6. Shape(h)
  BY <1>1, <1>2, <1>4 DEF Shape
<1>7. Tiles(B, U)
  <2>1. Ranges(Sizes(B, DOMAIN B))
    BY <1>2, SizesRanges
  <2>2. Lies(B, U, a, a)
    BY <1>2, <1>3 DEF Lies
  <2>3. \A x \in a .. a + U[a] - 1 : x \in Bytes(a, B[a].size)
    BY <1>2, <1>3 DEF Bytes
  <2> QED BY <2>1, <2>2, <2>3, <1>2, <1>3, <1>5 DEF Tiles
<1>8. Sound(h, U)
  BY <1>1, <1>4, <1>6, <1>7 DEF Sound, Lists
<1>9. Neat(h, U, {a})
  BY <1>1, <1>2, <1>4 DEF Neat
<1>10. \A d \in Nat \ {0} : a % d = 0 /\ n % d = 0 => Divided(h.blocks, d)
  BY <1>1, <1>2 DEF Divided
<1>11. Single(h, U, a, n)
  BY <1>1, <1>2, <1>3, <1>5, <1>8, <1>9, <1>10 DEF Single
<1> QED BY <1>11 DEF h, B, U

(* A provider comes up without memory, because it has none yet or because it *)
(* could not adopt it, *)
LEMMA UpAndEmpty ==
  ASSUME IInv, ~ Up, NEW p \in [strategy : Strategies, source : Sources], params' = p,
         held' = Empty, p.source # "buffer", heap' = EmptyHeap, upstreamBlocks' = Empty,
         usedSize' = 0, allocSize' = 0, UNCHANGED traits,
         Ranges(given'), failures' \in 0 .. MaxFailures,
         failures' = 0 => UNCHANGED <<given, failures>>
  PROVE  IInv'
<1>1. TypeInv /\ DownInv /\ GivenInv
  BY DEF IInv
<1>2. upstreamBlocks = Empty
  BY <1>1 DEF DownInv
<1>3. TypeInv'
  BY <1>1 DEF TypeInv, Sources
<1>4. HeapInv' /\ HeldInv' /\ NeatInv'
  BY NothingHere DEF HeapInv, HeldInv, NeatInv
<1>5. DownInv' /\ Up'
  BY DEF DownInv, Up, Sources
<1>6. CountInv'
  BY <1>5, CellsOfNone DEF CountInv
<1>7. GivenInv'
  <2>1. failures' = 0 /\ "free" \in traits => given' = Empty
    BY <1>1, <1>2 DEF GivenInv
  <2>2. HasUpstream'
    BY DEF HasUpstream
  <2> QED BY <2>1, <2>2, NothingHere DEF GivenInv
<1>8. DividedInv'
  BY NothingHere DEF DividedInv, Divided
<1> QED BY <1>3, <1>4, <1>5, <1>6, <1>7, <1>8 DEF IInv

(* or with its first region, *)
LEMMA UpWithRegion ==
  ASSUME IInv, ~ Up, Careful, NEW p \in [strategy : Strategies, source : Sources], params' = p,
         held' = Empty, NEW a \in Addresses, Region(a, InitSize),
         given' = IF p.source = "buffer" THEN given ELSE Extend(given, a, InitSize),
         upstreamBlocks' = Extend(Empty, a, InitSize), NEW h,
         h = [EmptyHeap EXCEPT !.blocks = Extend(Empty, a, [size |-> InitSize, used |-> TRUE])],
         NEW r \in FreeIn(h, Extend(Empty, a, InitSize), a),
         heap' = r.heap, Fail(IF r.ok THEN 0 ELSE 1), usedSize' = 0, allocSize' = InitSize,
         UNCHANGED traits
  PROVE  IInv'
<1> DEFINE U == Extend(Empty, a, InitSize)
<1>1. TypeInv /\ DownInv /\ GivenInv
  BY DEF IInv
<1>2. InitSize \in Nat /\ InitSize > 0
  BY CoarseAssumption
<1>3. a \in Nat /\ a + InitSize <= Memory /\ a % PageSize = 0 /\ Cells(given) \cap Bytes(a, InitSize) = {}
  BY <1>1, <1>2, RegionIs
<1>4. Single(h, U, a, InitSize)
  BY <1>2, <1>3, FirstBlock
<1>5. /\ Sound(h, U) /\ Neat(h, U, {a}) /\ DOMAIN h.blocks = {a} /\ h.blocks[a].used
      /\ DOMAIN U = {a} /\ U[a] = InitSize /\ Cardinality(Cells(U)) = InitSize
      /\ \A d \in Nat \ {0} : a % d = 0 /\ InitSize % d = 0 => Divided(h.blocks, d)
  BY <1>4 DEF Single
<1>6. upstreamBlocks' = U
  OBVIOUS
<1> HIDE DEF U
<1>7. Freed(h, r, U, a)
  BY <1>5, FreeInIs DEF U
<1> DEFINE C == heap'.blocks
<1>8. /\ Sound(heap', U) /\ r.ok \in BOOLEAN /\ (~ r.ok => SomeFailure)
      /\ \A b \in DOMAIN C : ~ C[b].used
      /\ KeepsDivided(h, heap') /\ (r.ok => Neat(heap', U, {}))
  BY <1>5, <1>7 DEF Freed, Sound, Shape
<1>9. failures' \in 0 .. MaxFailures /\ (failures' = 0 => r.ok /\ failures = 0)
  <2>1. CASE r.ok
    <3>1. failures' = failures
      BY <1>1, <2>1 DEF Fail, TypeInv
    <3> QED BY <3>1, <1>1, <2>1 DEF TypeInv
  <2>2. CASE ~ r.ok
    BY <1>1, <1>8, <2>2, FailOk
  <2> QED BY <2>1, <2>2
<1>10. TypeInv'
  BY <1>1, <1>2, <1>9 DEF TypeInv
<1>11. HeapInv' /\ HeldInv'
  BY <1>6, <1>8, NothingHere DEF HeapInv, HeldInv, Empty
<1>12. DownInv' /\ Up'
  BY DEF DownInv, Up, Sources
<1>13. CountInv'
  BY <1>5, <1>6, <1>12, CellsOfNone DEF CountInv
<1>14. GivenInv'
  <2>1. Ranges(given) /\ Ranges(Extend(given, a, InitSize))
    BY <1>1, <1>2, <1>3, RangesExtend DEF GivenInv
  <2>2. Ranges(given')
    BY <2>1
  <2>3. ASSUME HasUpstream', NEW o \in DOMAIN U
        PROVE  o \in DOMAIN given' /\ given'[o] = U[o]
    <3>1. given' = Extend(given, a, InitSize)
      BY <2>3 DEF HasUpstream
    <3> QED BY <3>1, <1>5 DEF Extend
  <2>4. ASSUME failures' = 0, "free" \in traits
        PROVE  given' = IF HasUpstream' THEN U ELSE Empty
    <3>1. given = Empty
      BY <2>4, <1>1, <1>9 DEF GivenInv, DownInv
    <3> QED BY <3>1 DEF HasUpstream, U
  <2> QED BY <2>2, <2>3, <2>4, <1>6 DEF GivenInv
<1>15. NeatInv'
  BY <1>6, <1>8, <1>9 DEF NeatInv
<1>16. DividedInv'
  <2> SUFFICES ASSUME NEW d \in Tested(p.strategy)
               PROVE  Divided(C, d)
    BY DEF DividedInv
  <2>1. d \in Nat \ {0} /\ InitSize % d = 0 /\ PageSize % d = 0
    BY TestedIs DEF Careful
  <2>2. PageSize \in Nat \ {0}
    BY CoarseAssumption
  <2>3. a % d = 0
    BY <2>1, <2>2, <1>3, DividedThrough
  <2>4. Divided(h.blocks, d)
    BY <2>1, <2>3, <1>5
  <2> QED BY <2>1, <2>4, <1>8 DEF KeepsDivided
<1> QED BY <1>10, <1>11, <1>12, <1>13, <1>14, <1>15, <1>16 DEF IInv

(* which are the ways it comes up. *)
LEMMA InitializeIs ==
  ASSUME IInv, Careful, NEW p \in [strategy : Strategies, source : Sources], Initialize(p)
  PROVE  IInv'
<1>1. ~ Up /\ params' = p /\ held' = Empty /\ UNCHANGED traits
  BY DEF Initialize
<1>2. CASE /\ p.source = "upstream" /\ heap' = EmptyHeap /\ upstreamBlocks' = Empty
           /\ usedSize' = 0 /\ allocSize' = 0 /\ UNCHANGED <<given, failures>>
  <2>1. Ranges(given') /\ failures' \in 0 .. MaxFailures
    BY <1>2 DEF IInv, GivenInv, TypeInv
  <2> QED BY <1>1, <1>2, <2>1, UpAndEmpty
<1>3. CASE /\ p.source # "upstream" /\ Cardinality(DOMAIN given) < MaxRegions
           /\ \E a \in Addresses :
                /\ Region(a, InitSize)
                /\ given' = IF p.source = "buffer" THEN given ELSE Extend(given, a, InitSize)
                /\ upstreamBlocks' = Extend(Empty, a, InitSize)
                /\ \E r \in FreeIn([EmptyHeap EXCEPT !.blocks = Extend(Empty, a, [size |-> InitSize, used |-> TRUE])],
                                   Extend(Empty, a, InitSize), a) :
                     heap' = r.heap /\ Fail(IF r.ok THEN 0 ELSE 1)
           /\ usedSize' = 0 /\ allocSize' = InitSize
  <2>1. PICK a \in Addresses :
                /\ Region(a, InitSize)
                /\ given' = IF p.source = "buffer" THEN given ELSE Extend(given, a, InitSize)
                /\ upstreamBlocks' = Extend(Empty, a, InitSize)
                /\ \E r \in FreeIn([EmptyHeap EXCEPT !.blocks = Extend(Empty, a, [size |-> InitSize, used |-> TRUE])],
                                   Extend(Empty, a, InitSize), a) :
                     heap' = r.heap /\ Fail(IF r.ok THEN 0 ELSE 1)
    BY <1>3
  <2> DEFINE h == [EmptyHeap EXCEPT !.blocks = Extend(Empty, a, [size |-> InitSize, used |-> TRUE])]
  <2>2. PICK r \in FreeIn(h, Extend(Empty, a, InitSize), a) : heap' = r.heap /\ Fail(IF r.ok THEN 0 ELSE 1)
    BY <2>1
  <2>3. usedSize' = 0 /\ allocSize' = InitSize
    BY <1>3
  <2> QED BY <1>1, <2>1, <2>2, <2>3, UpWithRegion
<1> QED BY <1>2, <1>3 DEF Initialize

(* It comes up with nothing in it, *)
LEMMA InitializeEmptyIs ==
  ASSUME IInv, NEW p \in [strategy : Strategies, source : Sources], InitializeEmpty(p)
  PROVE  IInv'
<1>1. /\ ~ Up /\ p.source = "immediate" /\ AdoptFails /\ Fail(1)
      /\ params' = p /\ held' = Empty /\ heap' = EmptyHeap /\ upstreamBlocks' = Empty
      /\ usedSize' = 0 /\ allocSize' = 0 /\ UNCHANGED traits
  BY DEF InitializeEmpty
<1>2. PICK a \in Addresses :
        /\ Region(a, InitSize)
        /\ given' = IF "free" \in traits THEN given ELSE Extend(given, a, InitSize)
  BY DEF InitializeEmpty
<1>3. failures' \in 0 .. MaxFailures /\ failures' # 0
  <2>1. SomeFailure
    BY <1>1 DEF AdoptFails, SomeFailure, Sites
  <2> QED BY <2>1, <1>1, FailOk DEF IInv
<1>4. Ranges(given')
  <2>1. InitSize \in Nat /\ InitSize > 0
    BY CoarseAssumption
  <2>2. Ranges(given)
    BY DEF IInv, GivenInv
  <2>3. a \in Nat /\ a + InitSize <= Memory /\ Cells(given) \cap Bytes(a, InitSize) = {}
    BY <2>1, <1>2, RegionIs DEF IInv
  <2>4. Ranges(Extend(given, a, InitSize))
    BY <2>1, <2>2, <2>3, RangesExtend
  <2> QED BY <2>2, <2>4, <1>2
<1> QED BY <1>1, <1>3, <1>4, UpAndEmpty

(* or it does not come up. *)
LEMMA InitializeFailsIs ==
  ASSUME IInv, InitializeFails
  PROVE  IInv' /\ UNCHANGED <<held, upstreamBlocks>>
<1>1. /\ ~ Up /\ AdoptFails /\ Fail(1)
      /\ UNCHANGED <<params, traits, heap, upstreamBlocks, usedSize, allocSize, given, held>>
  BY DEF InitializeFails
<1>2. TypeInv /\ HeapInv /\ HeldInv /\ DownInv /\ GivenInv /\ DividedInv
  BY DEF IInv
<1>3. failures' \in 0 .. MaxFailures /\ failures' # 0
  <2>1. SomeFailure
    BY <1>1 DEF AdoptFails, SomeFailure, Sites
  <2> QED BY <2>1, <1>1, <1>2, FailOk
<1>4. TypeInv' /\ HeapInv' /\ HeldInv' /\ DownInv' /\ DividedInv'
  BY <1>1, <1>2, <1>3 DEF TypeInv, HeapInv, HeldInv, DownInv, DividedInv, Up
<1>5. CountInv' /\ NeatInv' /\ GivenInv'
  BY <1>1, <1>2, <1>3 DEF CountInv, NeatInv, GivenInv, Up, HasUpstream
<1> QED BY <1>1, <1>4, <1>5 DEF IInv

(* Some of the ranges. *)
LEMMA RangesPart ==
  ASSUME NEW f, Ranges(f), NEW g, g = [a \in DOMAIN g |-> g[a]], DOMAIN g \subseteq DOMAIN f,
         \A a \in DOMAIN g : g[a] = f[a]
  PROVE  Ranges(g)
<1>1. /\ DOMAIN f \subseteq Nat
      /\ \A a \in DOMAIN f : f[a] \in Nat /\ f[a] > 0 /\ a + f[a] <= Memory
      /\ \A a, b \in DOMAIN f : a < b => a + f[a] <= b
  BY DEF Ranges
<1>2. \A a, b \in DOMAIN g : a < b => a + g[a] <= b
  BY <1>1
<1>3. \A a \in DOMAIN g : g[a] \in Nat /\ g[a] > 0 /\ a + g[a] <= Memory
  BY <1>1
<1> QED BY <1>1, <1>2, <1>3 DEF Ranges

(* It goes down. *)
LEMMA FinalizeIs ==
  ASSUME IInv, Finalize
  PROVE  IInv'
<1> DEFINE S == Sizes(heap.blocks, UsedBlocks)
<1>1. /\ Up /\ params' = Down /\ held' = Empty
      /\ heap' = EmptyHeap /\ upstreamBlocks' = Empty
      /\ usedSize' = usedSize - Total(S) /\ allocSize' = allocSize - Total(upstreamBlocks)
      /\ given' = IF HasUpstream /\ "free" \in traits
                  THEN [a \in {x \in DOMAIN given :
                                 ~(x \in DOMAIN upstreamBlocks /\ upstreamBlocks[x] = given[x])}
                          |-> given[a]]
                  ELSE given
      /\ UNCHANGED <<traits, failures>>
  BY DEF Finalize
<1>2. TypeInv /\ HeldInv /\ CountInv /\ GivenInv /\ NeatInv /\ Sound(heap, upstreamBlocks)
  BY DEF IInv, HeapInv
<1>3. /\ S = [a \in DOMAIN S |-> S[a]] /\ DOMAIN S = UsedBlocks
      /\ \A a \in DOMAIN S : a \in DOMAIN heap.blocks /\ heap.blocks[a].size = S[a]
  BY DEF Sizes, UsedBlocks
<1> HIDE DEF S
<1>4. Ranges(S) /\ Ranges(upstreamBlocks)
  <2>1. Ranges(S)
    BY <1>2, <1>3, HeldRanges
  <2> QED BY <2>1, <1>2 DEF Sound, Tiles
<1>5. /\ Total(S) = Cardinality(Cells(S)) /\ Total(upstreamBlocks) = Cardinality(Cells(upstreamBlocks))
      /\ Cardinality(Cells(S)) \in Nat /\ Cardinality(Cells(upstreamBlocks)) \in Nat
  BY <1>4, TotalIsCells, CellsNat
<1>6. ~ Up' /\ HasUpstream'
  BY <1>1 DEF Up, HasUpstream, Down
<1>7. TypeInv'
  BY <1>1, <1>2, <1>5 DEF TypeInv, Down, Strategies
<1>8. HeapInv' /\ HeldInv' /\ NeatInv' /\ DownInv'
  BY <1>1, NothingHere DEF HeapInv, HeldInv, NeatInv, DownInv, Empty
<1>9. CountInv'
  <2> SUFFICES ASSUME failures = 0 PROVE allocSize' = 0 /\ usedSize' = 0
    BY <1>1, <1>6 DEF CountInv
  <2>1. S = held
    <3>1. held = [a \in DOMAIN held |-> held[a]]
          /\ \A a \in DOMAIN held : a \in UsedBlocks /\ heap.blocks[a].size = held[a]
      BY <1>2 DEF HeldInv, UsedBlocks
    <3>2. \A a \in UsedBlocks : a \in DOMAIN held
      BY <1>2 DEF NeatInv, UsedBlocks
    <3>3. DOMAIN S = DOMAIN held
      BY <3>1, <3>2, <1>3
    <3>4. \A a \in DOMAIN S : S[a] = held[a]
      BY <3>1, <3>3, <1>3
    <3> QED BY <3>1, <3>3, <3>4, <1>3
  <2> QED BY <2>1, <1>1, <1>2, <1>5 DEF CountInv
<1>10. GivenInv'
  <2>1. Ranges(given)
    BY <1>2 DEF GivenInv
  <2>2. Ranges(given')
    <3>1. CASE HasUpstream /\ "free" \in traits
      <4>1. given' = [a \in DOMAIN given' |-> given'[a]] /\ DOMAIN given' \subseteq DOMAIN given
            /\ \A a \in DOMAIN given' : given'[a] = given[a]
        BY <3>1, <1>1
      <4> QED BY <4>1, <2>1, RangesPart
    <3>2. CASE ~ (HasUpstream /\ "free" \in traits)
      BY <2>1, <3>2, <1>1
    <3> QED BY <3>1, <3>2
  <2>3. ASSUME failures = 0, "free" \in traits
        PROVE  given' = Empty
    <3>1. CASE HasUpstream
      <4>1. given = upstreamBlocks
        BY <2>3, <3>1, <1>2 DEF GivenInv
      <4> QED BY <4>1, <2>3, <3>1, <1>1 DEF Empty
    <3>2. CASE ~ HasUpstream
      BY <2>3, <3>2, <1>1, <1>2 DEF GivenInv
    <3> QED BY <3>1, <3>2
  <2> QED BY <2>2, <2>3, <1>1, <1>6, NothingHere DEF GivenInv
<1>11. DividedInv'
  BY <1>1, NothingHere DEF DividedInv, Divided
<1> QED BY <1>7, <1>8, <1>9, <1>10, <1>11 DEF IInv

(***************************************************************************)
(* The invariant of the specification                                      *)
(***************************************************************************)
(* The invariant holds at the start, *)
LEMMA InitIs ==
  ASSUME Init
  PROVE  IInv
<1>1. /\ params = Down /\ heap = EmptyHeap /\ upstreamBlocks = Empty
      /\ usedSize = 0 /\ allocSize = 0 /\ given = Empty /\ held = Empty /\ failures = 0
  BY DEF Init
<1>2. TypeInv
  BY <1>1, CoarseAssumption DEF TypeInv, Down, Strategies
<1>3. ~ Up
  BY <1>1 DEF Up, Down
<1>4. HeapInv /\ HeldInv /\ NeatInv /\ DividedInv
  BY <1>1, NothingHere DEF HeapInv, HeldInv, NeatInv, DividedInv, Divided, Empty
<1>5. DownInv /\ CountInv
  BY <1>1, <1>3 DEF DownInv, CountInv
<1>6. GivenInv
  <2>1. Ranges(given) /\ DOMAIN upstreamBlocks = {}
    BY <1>1, NothingHere, CellsOfNone
  <2>2. given = IF HasUpstream THEN upstreamBlocks ELSE Empty
    BY <1>1
  <2> QED BY <2>1, <2>2 DEF GivenInv
<1> QED BY <1>2, <1>4, <1>5, <1>6 DEF IInv

(* What callers hold and the upstream blocks, in a step of the allocation. *)
LEMMA AllocIs ==
  ASSUME IInv, Careful, NEW size, NEW al, Alloc(size, al)
  PROVE  /\ IInv' /\ (Handed \/ UNCHANGED held)
         /\ Cells(upstreamBlocks) \subseteq Cells(upstreamBlocks')
<1>1. Up /\ <<size, al>> \in Requests[params.strategy] /\ UNCHANGED <<params, traits>>
  BY DEF Alloc
<1>2. CASE AllocBlock(size, al)
  BY <1>1, <1>2, AllocBlockIs
<1>3. CASE AllocRegion(size, al)
  BY <1>1, <1>3, AllocRegionIs
<1>4. CASE AllocNothing(size, al)
  BY <1>1, <1>4, AllocNothingIs
<1> QED BY <1>2, <1>3, <1>4 DEF Alloc

(* and every step keeps it. *)
LEMMA NextIs ==
  ASSUME IInv, Careful, [Next]_vars
  PROVE  IInv'
<1>1. ASSUME NEW p \in [strategy : Strategies, source : Sources], Initialize(p) \/ InitializeEmpty(p)
      PROVE  IInv'
  BY <1>1, InitializeIs, InitializeEmptyIs
<1>2. CASE InitializeFails
  BY <1>2, InitializeFailsIs
<1>3. ASSUME NEW r \in Requests[params.strategy], Alloc(r[1], r[2])
      PROVE  IInv'
  BY <1>3, AllocIs
<1>4. ASSUME NEW a \in DOMAIN held, Free(a)
      PROVE  IInv'
  BY <1>4, FreeIs
<1>5. ASSUME NEW a \in DOMAIN held, NEW r \in Requests[params.strategy], AllocationSplit(a, r[1])
      PROVE  IInv'
  BY <1>5, AllocationSplitIs
<1>6. ASSUME NEW a \in DOMAIN held, NEW b \in DOMAIN held, AllocationMerge(a, b)
      PROVE  IInv'
  BY <1>6, AllocationMergeIs
<1>7. CASE Finalize
  BY <1>7, FinalizeIs
<1>8. CASE UNCHANGED vars
  BY <1>8 DEF IInv, TypeInv, HeapInv, HeldInv, DownInv, CountInv, GivenInv, NeatInv, DividedInv,
              vars, Up, HasUpstream
<1> QED BY <1>1, <1>2, <1>3, <1>4, <1>5, <1>6, <1>7, <1>8 DEF Next

(***************************************************************************)
(* What the invariant implies                                              *)
(***************************************************************************)
(* The blocks have the bytes of the upstream blocks. *)
LEMMA TilesCells ==
  ASSUME NEW B, NEW U, Tiles(B, U)
  PROVE  Cells(Sizes(B, DOMAIN B)) = Cells(U)
<1> DEFINE S == Sizes(B, DOMAIN B)
<1>1. DOMAIN S = DOMAIN B /\ \A a \in DOMAIN B : S[a] = B[a].size
  BY DEF Sizes
<1> HIDE DEF S
<1>2. ASSUME NEW a \in DOMAIN S, NEW x \in Bytes(a, S[a])
      PROVE  x \in Cells(U)
  <2>1. PICK o \in DOMAIN U : Lies(B, U, a, o)
    BY <1>1 DEF Tiles
  <2>2. a \in Nat /\ B[a].size \in Nat /\ o \in Nat /\ U[o] \in Nat
    BY <1>1, BlockFacts
  <2>3. x \in Bytes(o, U[o])
    BY <1>1, <1>2, <2>1, <2>2 DEF Lies, Bytes
  <2> QED BY <2>3 DEF Cells
<1>3. ASSUME NEW o \in DOMAIN U, NEW x \in Bytes(o, U[o])
      PROVE  x \in Cells(S)
  <2>1. PICK a \in DOMAIN B : x \in Bytes(a, B[a].size)
    BY <1>3 DEF Tiles, Bytes
  <2> QED BY <2>1, <1>1 DEF Cells
<1>4. Cells(S) = Cells(U)
  BY <1>2, <1>3 DEF Cells
<1> QED BY <1>4 DEF S

(* The types, *)
LEMMA InvTypeOK ==
  ASSUME IInv
  PROVE  TypeOK
<1>1. TypeInv /\ Sound(heap, upstreamBlocks)
  BY DEF IInv, HeapInv
<1>2. Shape(heap) /\ Tiles(heap.blocks, upstreamBlocks) /\ Lists(heap) /\ Memory \in Nat
  BY <1>1, CoarseAssumption DEF Sound
<1>3. ASSUME NEW a \in DOMAIN heap.blocks
      PROVE  a \in Addresses /\ heap.blocks[a] \in [size : 1 .. Memory, used : BOOLEAN]
  <2>1. a \in Nat /\ heap.blocks[a].size \in Nat /\ heap.blocks[a].size > 0
        /\ a + heap.blocks[a].size <= Memory
    BY <1>2, BlockFacts
  <2>2. heap.blocks[a] \in [size : Nat, used : BOOLEAN]
    BY <1>2 DEF Shape
  <2> QED BY <2>1, <2>2, <1>2 DEF Addresses
<1>4. ASSUME NEW n \in DOMAIN heap.free
      PROVE  heap.free[n] \in Seq(DOMAIN heap.blocks)
  <2>1. heap.free[n] \in Seq(Nat)
    BY <1>2 DEF Shape
  <2>2. \A i \in 1 .. Len(heap.free[n]) : heap.free[n][i] \in DOMAIN heap.blocks
    BY <1>2, <2>1 DEF Lists, ToSet
  <2> QED BY <2>1, <2>2
<1> QED BY <1>1, <1>2, <1>3, <1>4 DEF TypeOK, TypeInv, Shape

(* the blocks, *)
LEMMA InvBlocksTile ==
  ASSUME IInv
  PROVE  BlocksTile
<1> DEFINE U == upstreamBlocks
           B == heap.blocks
<1>1. TypeInv /\ HeldInv /\ CountInv /\ Sound(heap, U) /\ Tiles(B, U)
  BY DEF IInv, HeapInv, Sound
<1> HIDE DEF U, B
<1>2. ASSUME NEW a \in DOMAIN B
      PROVE  \E o \in DOMAIN U : Bytes(a, B[a].size) \subseteq Bytes(o, U[o])
  <2>1. PICK o \in DOMAIN U : Lies(B, U, a, o)
    BY <1>1 DEF Tiles
  <2>2. a \in Nat /\ B[a].size \in Nat /\ o \in Nat /\ U[o] \in Nat
    BY <1>1, BlockFacts
  <2> QED BY <2>1, <2>2 DEF Lies, Bytes
<1>3. ASSUME NEW a \in DOMAIN B, NEW b \in DOMAIN B, a # b
      PROVE  Bytes(a, B[a].size) \cap Bytes(b, B[b].size) = {}
  <2>1. a \in Nat /\ b \in Nat /\ B[a].size \in Nat /\ B[b].size \in Nat
    BY <1>1, BlockFacts
  <2>2. a + B[a].size <= b \/ b + B[b].size <= a
    BY <1>1, <1>3, <2>1, BlockFacts
  <2> QED BY <2>1, <2>2 DEF Bytes
<1>4. Total(Sizes(B, DOMAIN B)) = Cardinality(Cells(U)) /\ Total(U) = Cardinality(Cells(U))
  BY <1>1, TilesCells, TotalIsCells DEF Tiles
<1>5. Total(held) = Cardinality(Cells(held))
  <2>1. /\ held = [a \in DOMAIN held |-> held[a]]
        /\ \A a \in DOMAIN held : a \in DOMAIN heap.blocks /\ heap.blocks[a].size = held[a]
    BY <1>1 DEF HeldInv
  <2>2. Ranges(held)
    BY <2>1, <1>1, HeldRanges
  <2> QED BY <2>2, TotalIsCells
<1>6. Up => /\ Total(Sizes(B, DOMAIN B)) = allocSize /\ Total(U) = allocSize
            /\ Total(held) = usedSize
  BY <1>1, <1>4, <1>5 DEF CountInv, U
<1>7. \A a \in DOMAIN held : a \in UsedBlocks /\ heap.blocks[a].size = held[a]
  BY <1>1 DEF HeldInv, UsedBlocks
<1> QED BY <1>2, <1>3, <1>6, <1>7, InvTypeOK DEF BlocksTile, Blocks, B, U

(* the lists, *)
LEMMA InvFreeListsExact ==
  ASSUME IInv
  PROVE  FreeListsExact
<1> DEFINE U == upstreamBlocks
<1>1. HeldInv /\ NeatInv /\ Sound(heap, U)
  BY DEF IInv, HeapInv
<1>2. ASSUME NEW n \in DOMAIN heap.free
      PROVE  /\ IsInjective(heap.free[n])
             /\ \A a \in ToSet(heap.free[n]) :
                  a \in DOMAIN heap.blocks /\ heap.blocks[a] = [size |-> n, used |-> FALSE]
  <2>1. Lists(heap) /\ Shape(heap)
    BY <1>1 DEF Sound
  <2>2. ASSUME NEW a \in ToSet(heap.free[n])
        PROVE  a \in DOMAIN heap.blocks /\ heap.blocks[a] = [size |-> n, used |-> FALSE]
    <3>1. a \in DOMAIN heap.blocks /\ heap.blocks[a].size = n /\ ~ heap.blocks[a].used
      BY <2>1 DEF Lists
    <3>2. heap.blocks[a] \in [size : Nat, used : BOOLEAN]
      BY <2>1, <3>1 DEF Shape
    <3> QED BY <3>1, <3>2
  <2> QED BY <2>1, <2>2 DEF Lists
<1>3. ASSUME failures = 0
      PROVE  /\ <<>> \notin Range(heap.free)
             /\ \A a \in DOMAIN heap.blocks :
                  /\ heap.blocks[a].used \/ a \in ToSet(ListOf(heap, heap.blocks[a].size))
                  /\ a \in UsedBlocks <=> a \in DOMAIN held
                  /\ \A b \in DOMAIN heap.blocks : ~ Mergeable(U, heap, a, b, FALSE)
  <2>1. /\ Neat(heap, U, {})
        /\ \A a \in DOMAIN heap.blocks : heap.blocks[a].used => a \in DOMAIN held
    BY <1>1, <1>3 DEF NeatInv
  <2>2. <<>> \notin Range(heap.free)
    BY <2>1 DEF Neat, Range
  <2>3. ASSUME NEW a \in DOMAIN heap.blocks
        PROVE  /\ heap.blocks[a].used \/ a \in ToSet(ListOf(heap, heap.blocks[a].size))
               /\ a \in UsedBlocks <=> a \in DOMAIN held
    BY <1>1, <2>1 DEF Neat, Listed, HeldInv, UsedBlocks
  <2>4. ASSUME NEW a \in DOMAIN heap.blocks, NEW b \in DOMAIN heap.blocks
        PROVE  ~ Mergeable(U, heap, a, b, FALSE)
    <3>1. ~ Joins(heap.blocks, U, a, b)
      BY <2>1 DEF Neat
    <3> QED BY <3>1, <1>1, MergeableHere
  <2> QED BY <2>2, <2>3, <2>4
<1> QED BY <1>2, <1>3 DEF FreeListsExact

(* and what has been given back. *)
LEMMA InvAllReturned ==
  ASSUME IInv
  PROVE  AllReturned
BY DEF IInv, AllReturned, DownInv, CountInv, GivenInv

(***************************************************************************)
(* Every step is one of the abstract allocator, or none                    *)
(***************************************************************************)
(* The bytes that the refinement says the provider owns. *)
LEMMA OwnedIs ==
  UNION {Bytes(o, upstreamBlocks[o]) : o \in DOMAIN upstreamBlocks} = Cells(upstreamBlocks)
BY DEF Cells

(* What callers hold is memory the provider owns. *)
LEMMA HeldFacts ==
  ASSUME IInv
  PROVE  /\ Ranges(held) /\ Cells(held) \subseteq Cells(upstreamBlocks)
         /\ held = [a \in DOMAIN held |-> held[a]]
         /\ \A a \in DOMAIN held : heap.blocks[a].size = held[a]
<1>1. HeldInv /\ Sound(heap, upstreamBlocks) /\ Tiles(heap.blocks, upstreamBlocks)
  BY DEF IInv, HeapInv, Sound
<1>2. /\ held = [a \in DOMAIN held |-> held[a]]
      /\ \A a \in DOMAIN held : a \in DOMAIN heap.blocks /\ heap.blocks[a].size = held[a]
  BY <1>1 DEF HeldInv
<1>3. Ranges(held)
  BY <1>1, <1>2, HeldRanges
<1>4. ASSUME NEW a \in DOMAIN held, NEW x \in Bytes(a, held[a])
      PROVE  x \in Cells(Sizes(heap.blocks, DOMAIN heap.blocks))
  BY <1>2, <1>4 DEF Cells, Sizes
<1>5. Cells(held) \subseteq Cells(upstreamBlocks)
  BY <1>1, <1>4, TilesCells DEF Cells
<1> QED BY <1>2, <1>3, <1>5

(* A range is handed out. *)
LEMMA HandedRefines ==
  ASSUME IInv, IInv', Handed, Cells(upstreamBlocks) \subseteq Cells(upstreamBlocks')
  PROVE  Allocator!Next
<1>1. PICK at \in Nat : \E n \in Nat : at \notin DOMAIN held /\ held' = Extend(held, at, n)
  BY DEF Handed
<1>2. PICK n \in Nat : at \notin DOMAIN held /\ held' = Extend(held, at, n)
  BY <1>1
<1>3. /\ DOMAIN held' = DOMAIN held \cup {at} /\ held'[at] = n
      /\ \A b \in DOMAIN held : held'[b] = held[b]
  BY <1>2 DEF Extend
<1>4. held = [a \in DOMAIN held |-> held[a]]
  BY HeldFacts
<1>5. Ranges(held') /\ Cells(held') \subseteq Cells(upstreamBlocks')
  <2>1. (Ranges(held) /\ Cells(held) \subseteq Cells(upstreamBlocks))'
    BY HeldFacts, PTL
  <2> QED BY <2>1
<1>6. n > 0 /\ Gained(held, held', at, n)
  BY <1>2, <1>3, <1>4, <1>5, CellsApart
<1>7. Bytes(at, n) \cap Cells(held) = {} /\ Bytes(at, n) \subseteq Cells(upstreamBlocks')
  BY <1>5, <1>6 DEF Gained
<1>8. held' = Allocator!With(held, at, n)
  BY <1>2 DEF Extend, Allocator!With
<1>9. Allocator!Alloc(at, n)
  BY <1>6, <1>7, <1>8 DEF Allocator!Alloc, Allocator!Bytes, Allocator!Occupied, Bytes, Cells
<1> QED BY <1>3, <1>9 DEF Allocator!Next

(* Callers see nothing but, at most, more memory. *)
LEMMA GrowRefines ==
  ASSUME UNCHANGED held, Cells(upstreamBlocks) \subseteq Cells(upstreamBlocks')
  PROVE  Allocator!Next
<1>1. Allocator!Grow
  BY DEF Allocator!Grow, Cells
<1> QED BY <1>1 DEF Allocator!Next

(* A caller frees, *)
LEMMA FreeRefines ==
  ASSUME NEW a \in DOMAIN held, Free(a)
  PROVE  Allocator!Next
<1>1. held' = Without(held, a) /\ UNCHANGED upstreamBlocks
  BY DEF Free
<1>2. Allocator!Free(a)
  BY <1>1 DEF Allocator!Free, Allocator!Without, Without
<1> QED BY <1>2 DEF Allocator!Next

(* splits, or is refused a split, *)
LEMMA SplitRefines ==
  ASSUME IInv, NEW a \in DOMAIN held, NEW q \in Requests[params.strategy], AllocationSplit(a, q[1])
  PROVE  Allocator!Next \/ UNCHANGED Allocator!vars
<1> DEFINE first == q[1]
           n == heap.blocks[a].size - first
<1>1. /\ Up /\ first < heap.blocks[a].size /\ UNCHANGED upstreamBlocks
      /\ \/ held' = Extend(Extend(held, a + first, n), a, first)
         \/ UNCHANGED held
  BY DEF AllocationSplit
<1>2. heap.blocks[a].size = held[a] /\ held[a] \in Nat
  BY HeldFacts DEF Ranges
<1>3. first \in Nat \ {0}
  <2>1. TypeInv
    BY DEF IInv
  <2>2. Requests[params.strategy] \subseteq (Nat \ {0}) \X Nat
    BY <1>1, <2>1, CoarseAssumption DEF TypeInv, Up
  <2> QED BY <2>2
<1>4. CASE held' = Extend(Extend(held, a + first, n), a, first)
  <2>1. first \in 1 .. held[a] - 1 /\ first \in 1 .. held[a] /\ n = held[a] - first
    BY <1>1, <1>2, <1>3
  <2> HIDE DEF n, first
  <2>2. held' = Allocator!With(Allocator!With(held, a + first, held[a] - first), a, first)
    BY <1>4, <2>1 DEF Extend, Allocator!With
  <2>3. Allocator!Split(a, first)
    BY <1>1, <2>1, <2>2 DEF Allocator!Split
  <2> QED BY <2>1, <2>3 DEF Allocator!Next
<1>5. CASE UNCHANGED held
  BY <1>1, <1>5 DEF Allocator!vars
<1> QED BY <1>1, <1>4, <1>5

(* or merges. *)
LEMMA MergeRefines ==
  ASSUME IInv, NEW low \in DOMAIN held, NEW high \in DOMAIN held, AllocationMerge(low, high)
  PROVE  Allocator!Next
<1>1. /\ held' = Extend(Without(held, high), low, heap.blocks[low].size + heap.blocks[high].size)
      /\ low + heap.blocks[low].size = high /\ UNCHANGED upstreamBlocks
  BY DEF AllocationMerge, Mergeable
<1>2. heap.blocks[low].size = held[low] /\ heap.blocks[high].size = held[high]
  BY HeldFacts
<1>3. held' = Allocator!With(Allocator!Without({high}), low, held[low] + held[high])
  BY <1>1, <1>2 DEF Extend, Without, Allocator!With, Allocator!Without
<1>4. Allocator!Merge(low, high)
  BY <1>1, <1>2, <1>3 DEF Allocator!Merge
<1> QED BY <1>4 DEF Allocator!Next

(* The provider comes up, *)
LEMMA StartRefines ==
  ASSUME IInv, NEW p, Initialize(p) \/ InitializeEmpty(p)
  PROVE  Allocator!Next
<1>1. held = Empty /\ upstreamBlocks = Empty
  BY DEF IInv, DownInv, Initialize, InitializeEmpty
<1>2. held' = Empty
  BY DEF Initialize, InitializeEmpty
<1>3. Cells(upstreamBlocks) \subseteq Cells(upstreamBlocks')
  BY <1>1, CellsOfNone
<1> QED BY <1>1, <1>2, <1>3, GrowRefines

(* and goes down with all it has. *)
LEMMA EndRefines ==
  ASSUME Finalize
  PROVE  Allocator!Next
<1>1. held' = Empty /\ upstreamBlocks' = Empty
  BY DEF Finalize
<1>2. Cells(upstreamBlocks') = {}
  BY <1>1, CellsOfNone
<1>3. Allocator!Close
  BY <1>1, <1>2 DEF Allocator!Close, Allocator!Empty, Empty, Cells
<1> QED BY <1>3 DEF Allocator!Next

(* The first state, *)
LEMMA InitRefines ==
  ASSUME Init
  PROVE  Allocator!Init
<1>1. held = Empty /\ Cells(upstreamBlocks) = {}
  BY CellsOfNone DEF Init
<1> QED BY <1>1 DEF Allocator!Init, Allocator!Empty, Empty, Cells

(* and every step. *)
LEMMA NextRefines ==
  ASSUME IInv, IInv', Careful, [Next]_vars
  PROVE  Allocator!Next \/ UNCHANGED Allocator!vars
<1>1. ASSUME NEW p \in [strategy : Strategies, source : Sources], Initialize(p) \/ InitializeEmpty(p)
      PROVE  Allocator!Next
  BY <1>1, StartRefines
<1>2. CASE InitializeFails
  BY <1>2 DEF InitializeFails, Allocator!vars
<1>3. ASSUME NEW r \in Requests[params.strategy], Alloc(r[1], r[2])
      PROVE  Allocator!Next
  BY <1>3, AllocIs, HandedRefines, GrowRefines
<1>4. ASSUME NEW a \in DOMAIN held, Free(a)
      PROVE  Allocator!Next
  BY <1>4, FreeRefines
<1>5. ASSUME NEW a \in DOMAIN held, NEW r \in Requests[params.strategy], AllocationSplit(a, r[1])
      PROVE  Allocator!Next \/ UNCHANGED Allocator!vars
  BY <1>5, SplitRefines
<1>6. ASSUME NEW a \in DOMAIN held, NEW b \in DOMAIN held, AllocationMerge(a, b)
      PROVE  Allocator!Next
  BY <1>6, MergeRefines
<1>7. CASE Finalize
  BY <1>7, EndRefines
<1>8. CASE UNCHANGED vars
  BY <1>8 DEF vars, Allocator!vars
<1> QED BY <1>1, <1>2, <1>3, <1>4, <1>5, <1>6, <1>7, <1>8 DEF Next

(***************************************************************************)
(* The theorems                                                            *)
(***************************************************************************)
(* The invariant holds in every state the provider reaches. *)
LEMMA Invariance ==
  ASSUME Careful
  PROVE  Spec => []IInv
<1>1. Init => IInv
  BY InitIs
<1>2. IInv /\ [Next]_vars => IInv'
  BY NextIs
<1> QED BY <1>1, <1>2, PTL DEF Spec

(* For every memory, every set of requests and any number of failures of host *)
(* allocations, but that of the list of a block that is split: the blocks     *)
(* tile the upstream blocks and what callers hold are used blocks of the size *)
(* they asked for, and both counters are the sums they stand for.  Requests   *)
(* whose alignment does not divide their sizes are left out.                  *)
THEOREM CoarseBlocksTile ==
  ASSUME SizesAligned, "splitList" \notin FailingAt
  PROVE  Spec => []BlocksTile
<1>1. Careful
  BY DEF Careful
<1>2. IInv => BlocksTile
  BY InvBlocksTile
<1> QED BY <1>1, <1>2, Invariance, PTL

(* Under the same hypotheses: a free list has unused blocks of its size, each *)
(* once; and before a host allocation fails it has all of them, no head is    *)
(* empty, callers hold all used blocks and no two blocks are left unmerged.   *)
THEOREM CoarseFreeListsExact ==
  ASSUME SizesAligned, "splitList" \notin FailingAt
  PROVE  Spec => []FreeListsExact
<1>1. Careful
  BY DEF Careful
<1>2. IInv => FreeListsExact
  BY InvFreeListsExact
<1> QED BY <1>1, <1>2, Invariance, PTL

(* Under the same hypotheses: a provider that is finalized has given back all *)
(* it had from upstream and counts nothing, if no host allocation failed.     *)
THEOREM CoarseAllReturned ==
  ASSUME SizesAligned, "splitList" \notin FailingAt
  PROVE  Spec => []AllReturned
<1>1. Careful
  BY DEF Careful
<1>2. IInv => AllReturned
  BY InvAllReturned
<1> QED BY <1>1, <1>2, Invariance, PTL

(* Under the same hypotheses: the provider implements the abstract allocator; *)
(* what is handed out lies in memory it owns, apart from all that callers     *)
(* hold, and this changes only by their own calls.                            *)
THEOREM CoarseImplementsAllocator ==
  ASSUME SizesAligned, "splitList" \notin FailingAt
  PROVE  Spec => ImplementsAllocator
<1>1. Careful
  BY DEF Careful
<1>2. Init => Allocator!Init
  BY InitRefines
<1>3. IInv /\ IInv' /\ [Next]_vars => [Allocator!Next]_(Allocator!vars)
  BY <1>1, NextRefines
<1> QED BY <1>1, <1>2, <1>3, Invariance, PTL DEF Spec, ImplementsAllocator, Allocator!Spec
=============================================================================
