----------------------- MODULE TrackingProviderProofs -----------------------
(* Proofs about the regions that pools hold and about their IPC handles,     *)
(* and on top of these about the tracker's map and its values.               *)
EXTENDS TrackingProvider, FiniteSetTheorems, WellFoundedInduction, TLAPS

Reg      == [pool : Pools, size : Nat \ {0}, opened : BOOLEAN]
Freeing  == {"uncache", "put", "give"}
Shaping  == {"lock", "compare", "upstream", "add", "update", "undo"}
Shaped   == {"retire", "remove", "unlock"}
Using    == {"find", "size", "read", "answer", "look", "get", "insert",
             "putAndLook", "putAndFail"}
Clearing == {"seek", "match", "drop", "on", "cleared"}
Carrying == {"track"} \cup Freeing \cup Shaping \cup Shaped

(* What the upstream providers have given to a pool. *)
Land(p) == {b \in Addresses :
              \E x \in DOMAIN given : given[x].pool = p /\ b \in Bytes(x, given[x].size)}

(* The region, or the two, that a thread frees, adds, splits or merges. *)
Carries(t) == th[t].pc \in Carrying
Single(t)  == th[t].pc \in {"track"} \cup Freeing
PoolBy(t)  == IF Single(t) THEN th[t].region.pool ELSE th[t].after[th[t].at].pool
SizeBy(t)  == IF Single(t) THEN th[t].region.size
              ELSE IF th[t].op = "split"
                   THEN th[t].after[th[t].at].size + th[t].after[th[t].high].size
                   ELSE th[t].after[th[t].at].size
Ground(t)  == Bytes(th[t].at, SizeBy(t))

GivenInv ==
  /\ DOMAIN given \subseteq Addresses
  /\ \A x \in DOMAIN given : given[x] \in Reg /\ Bytes(x, given[x].size) \subseteq Addresses
  /\ \A x, y \in DOMAIN given :
       x # y => Bytes(x, given[x].size) \cap Bytes(y, given[y].size) = {}

(* What a thread's record holds depends on where the thread is. *)
RecordOK(r) ==
  /\ "pc" \in DOMAIN r
  /\ r.pc \in {"idle"} \cup Carrying \cup Using \cup Clearing
  /\ "at" \in DOMAIN r <=> r.pc \in Carrying \cup Using
  /\ "pool" \in DOMAIN r <=> r.pc \in Clearing
  /\ "after" \in DOMAIN r <=> r.pc \in Shaping \cup Shaped
  /\ "new" \in DOMAIN r <=> r.pc \in Shaping
  /\ r.pc \in {"track"} \cup Freeing => "region" \in DOMAIN r
  /\ r.pc \in Shaping \cup Shaped => {"op", "high", "old", "before"} \subseteq DOMAIN r

ThreadInv ==
  /\ DOMAIN th = Threads /\ live \subseteq Pools
  /\ \A t \in Threads : /\ RecordOK(th[t])
                        /\ th[t].pc \in Clearing => th[t].pool \in Pools \ live

(* Two parts of a region, before a merge or after a split. *)
Parts(parts, whole, a, b) ==
  /\ DOMAIN parts = {a, b} /\ DOMAIN whole = {a}
  /\ parts[a] \in Reg /\ parts[b] \in Reg /\ whole[a] \in Reg
  /\ b = a + parts[a].size /\ whole[a].size = parts[a].size + parts[b].size
  /\ parts[a].pool = whole[a].pool /\ parts[b].pool = whole[a].pool
  /\ ~parts[a].opened /\ ~parts[b].opened /\ ~whole[a].opened

ShapeInv ==
  \A t \in Threads :
    LET r == th[t] IN
    r.pc \in Shaping \cup Shaped =>
      /\ r.op \in {"split", "merge"}
      /\ r.op = "split" => Parts(r.after, r.before, r.at, r.high)
      /\ r.op = "merge" => Parts(r.before, r.after, r.at, r.high)

HeldInv ==
  /\ \A a \in DOMAIN held :
       /\ held[a] \in Reg /\ held[a].pool \in live
       /\ a \in DOMAIN given /\ given[a].pool = held[a].pool
       /\ Bytes(a, held[a].size) \subseteq Land(held[a].pool)
       /\ held[a].opened => given[a] = held[a]
  /\ \A a, b \in DOMAIN held :
       a # b => Bytes(a, held[a].size) \cap Bytes(b, held[b].size) = {}

CarriedInv ==
  \A t \in Threads :
    Carries(t) =>
      /\ PoolBy(t) \in live /\ th[t].at \in DOMAIN given
      /\ given[th[t].at].pool = PoolBy(t) /\ Ground(t) \subseteq Land(PoolBy(t))
      /\ Single(t) => /\ th[t].region \in Reg
                      /\ th[t].region.opened => given[th[t].at] = th[t].region
      /\ \A a \in DOMAIN held : Ground(t) \cap Bytes(a, held[a].size) = {}
      /\ \A s \in Threads \ {t} : Carries(s) => Ground(t) \cap Ground(s) = {}

(* The high part of a split or a merge is one of the books' own regions until *)
(* the merge, and from the split on.                                         *)
HighGiven(t) ==
  \/ th[t].op = "merge" /\ th[t].pc \in {"lock", "compare", "upstream", "undo"}
  \/ th[t].op = "split" /\ th[t].pc \in {"add", "update"} \cup Shaped

HighInv ==
  \A t \in Threads :
    th[t].pc \in Shaping \cup Shaped =>
      /\ HighGiven(t) => th[t].high \in DOMAIN given /\ given[th[t].high].pool = PoolBy(t)
      /\ th[t].pc = "add" => th[t].op = "split"

UsedInv == \A t \in Threads : th[t].pc \in Using => th[t].at \in DOMAIN held

RegionInv ==
  GivenInv /\ ThreadInv /\ ShapeInv /\ HeldInv /\ CarriedInv /\ HighInv /\ UsedInv

LEMMA InitRegions == Init => RegionInv
<1> SUFFICES ASSUME Init PROVE RegionInv
    OBVIOUS
<1> USE DEF Init
<1>1. GivenInv
      BY DEF GivenInv
<1>2. ThreadInv
      BY DEF ThreadInv, RecordOK, NoQuery, Carrying, Using, Clearing, Freeing, Shaping, Shaped
<1>3. ShapeInv
      BY DEF ShapeInv, NoQuery, Shaping, Shaped
<1>4. HeldInv
      BY DEF HeldInv
<1>5. CarriedInv
      BY DEF CarriedInv, Carries, NoQuery, Carrying, Freeing, Shaping, Shaped
<1>6. UsedInv
      BY DEF UsedInv, NoQuery, Using
<1>7. HighInv
      BY DEF HighInv, NoQuery, Shaping, Shaped
<1> QED
    BY <1>1, <1>2, <1>3, <1>4, <1>5, <1>6, <1>7 DEF RegionInv

-----------------------------------------------------------------------------
(* What happens to the land of the pools when the upstream providers'      *)
(* books change.                                                           *)

LEMMA LandTyped ==
  ASSUME NEW p
  PROVE  Land(p) \subseteq Addresses
BY DEF Land

LEMMA LandApart ==
  ASSUME GivenInv, NEW p, NEW q, p # q
  PROVE  Land(p) \cap Land(q) = {}
BY DEF GivenInv, Land

LEMMA GivenIsLand ==
  ASSUME GivenInv, NEW x \in DOMAIN given
  PROVE  /\ Bytes(x, given[x].size) \subseteq Land(given[x].pool)
         /\ x \in Bytes(x, given[x].size) /\ x \in Land(given[x].pool)
<1>1. given[x].size \in Nat \ {0} /\ x \in Nat /\ Memory \in Nat
      BY TrackingAssumption DEF GivenInv, Addresses, Reg
<1>2. x \in Bytes(x, given[x].size)
      BY <1>1 DEF Bytes
<1> QED
    BY <1>2 DEF GivenInv, Land

LEMMA LandGrows ==
  ASSUME GivenInv, NEW a \in Addresses, NEW r \in Reg, Unused(a, r.size),
         given' = Over(Only(a, r), given)
  PROVE  /\ GivenInv'
         /\ \A p : Land(p) \subseteq Land(p)' /\ Land(p) \cap Bytes(a, r.size) = {}
         /\ Bytes(a, r.size) \subseteq Land(r.pool)'
         /\ a \in DOMAIN given' /\ given'[a] = r
         /\ \A x \in DOMAIN given : x # a /\ x \in DOMAIN given' /\ given'[x] = given[x]
<1>1. DOMAIN given' = {a} \cup DOMAIN given
      BY DEF Over, Only
<1>2. given'[a] = r
      BY DEF Over, Only
<1>3. a \in Bytes(a, r.size)
      BY TrackingAssumption DEF Bytes, Reg, Addresses
<1>4. \A x \in DOMAIN given : x # a /\ given'[x] = given[x]
      <2> SUFFICES ASSUME NEW x \in DOMAIN given
                   PROVE  x # a /\ given'[x] = given[x]
          OBVIOUS
      <2>1. x \in Bytes(x, given[x].size)
            BY GivenIsLand
      <2>2. x # a
            BY <1>3, <2>1 DEF Unused
      <2> QED
          BY <2>2 DEF Over, Only
<1>5. GivenInv'
      BY <1>1, <1>2, <1>4 DEF GivenInv, Unused
<1>6. \A p : Land(p) \subseteq Land(p)'
      BY <1>1, <1>4 DEF Land
<1>7. \A p : Land(p) \cap Bytes(a, r.size) = {}
      BY DEF Land, Unused
<1>8. Bytes(a, r.size) \subseteq Land(r.pool)'
      BY <1>1, <1>2 DEF Land, Unused
<1> QED
    BY <1>1, <1>2, <1>4, <1>5, <1>6, <1>7, <1>8

LEMMA LandShrinks ==
  ASSUME GivenInv, NEW S, given' = Without(given, S)
  PROVE  /\ GivenInv'
         /\ DOMAIN given' = DOMAIN given \ S
         /\ \A x \in DOMAIN given \ S : given'[x] = given[x]
         /\ \A p, b : b \in Land(p) /\ (\A x \in DOMAIN given \cap S : b \notin Bytes(x, given[x].size))
                        => b \in Land(p)'
<1>1. DOMAIN given' = DOMAIN given \ S
      BY DEF Without
<1>2. \A x \in DOMAIN given \ S : given'[x] = given[x]
      BY DEF Without
<1>3. GivenInv'
      BY <1>1, <1>2 DEF GivenInv
<1> QED
    BY <1>1, <1>2, <1>3 DEF Land

(* A region in two parts, as a split leaves it and a merge finds it: the    *)
(* parts cover the whole, and do not overlap.                               *)
Cover(regions, pool, S) ==
  /\ DOMAIN regions \subseteq S
  /\ \A x \in DOMAIN regions :
       /\ regions[x] \in Reg /\ ~regions[x].opened /\ regions[x].pool = pool
       /\ Bytes(x, regions[x].size) \subseteq S
  /\ \A y \in S : \E x \in DOMAIN regions : y \in Bytes(x, regions[x].size)
  /\ \A x, y \in DOMAIN regions :
       x # y => Bytes(x, regions[x].size) \cap Bytes(y, regions[y].size) = {}

LEMMA PartsCover ==
  ASSUME NEW parts, NEW whole, NEW a \in Addresses, NEW b, Parts(parts, whole, a, b)
  PROVE  /\ Cover(parts, whole[a].pool, Bytes(a, whole[a].size))
         /\ Cover(whole, whole[a].pool, Bytes(a, whole[a].size))
<1>1. /\ a \in Nat /\ parts[a].size \in Nat \ {0} /\ parts[b].size \in Nat \ {0}
      /\ b = a + parts[a].size /\ whole[a].size = parts[a].size + parts[b].size
      BY TrackingAssumption DEF Parts, Reg, Addresses
<1>2. /\ Bytes(a, whole[a].size) = Bytes(a, parts[a].size) \cup Bytes(b, parts[b].size)
      /\ Bytes(a, parts[a].size) \cap Bytes(b, parts[b].size) = {}
      /\ a \in Bytes(a, parts[a].size) /\ b \in Bytes(b, parts[b].size)
      BY <1>1 DEF Bytes
<1> QED
    BY <1>2 DEF Parts, Cover

-----------------------------------------------------------------------------
(* The steps of one thread, by what they do to the regions.                *)

(* What is carried is in the thread's record; Keeps(t) says it stays.      *)
Keeps(t) ==
  /\ th'[t].pc \in Carrying => th[t].pc \in Carrying /\ th'[t].at = th[t].at
  /\ th'[t].pc \in {"track"} \cup Freeing =>
       th[t].pc \in {"track"} \cup Freeing /\ th'[t].region = th[t].region
  /\ th'[t].pc \in Shaping \cup Shaped =>
       /\ th[t].pc \in Shaping \cup Shaped /\ th'[t].op = th[t].op
       /\ th'[t].high = th[t].high /\ th'[t].after = th[t].after /\ th'[t].before = th[t].before
       /\ LET early == {"lock", "compare", "upstream", "undo"}
              late  == {"add", "update"} \cup Shaped
          IN /\ th'[t].op = "merge" /\ th'[t].pc \in early => th[t].pc \in early
             /\ th'[t].op = "split" /\ th'[t].pc \in late => th[t].pc \in late
       /\ th'[t].pc = "add" => th[t].pc = "add"

LEMMA CarriedAlike ==
  ASSUME NEW t \in Threads, Keeps(t), th'[t].pc \in Carrying
  PROVE  /\ Carries(t) /\ th'[t].at = th[t].at /\ (Single(t)' <=> Single(t))
         /\ PoolBy(t)' = PoolBy(t) /\ SizeBy(t)' = SizeBy(t) /\ Ground(t)' = Ground(t)
         /\ Single(t) => th'[t].region = th[t].region
BY DEF Keeps, Carries, Single, PoolBy, SizeBy, Ground, Carrying, Freeing, Shaping, Shaped

(* A step that leaves all regions where they are. *)
LEMMA Frame ==
  ASSUME RegionInv, ThreadInv', ShapeInv', UsedInv', UNCHANGED <<given, held, live>>,
         \A t \in Threads : Keeps(t)
  PROVE  RegionInv'
<1>1. GivenInv' /\ HeldInv'
      BY DEF RegionInv, GivenInv, HeldInv, Land
<1>2. \A p : Land(p)' = Land(p)
      BY DEF Land
<1>3. CarriedInv'
      <2> SUFFICES ASSUME NEW t \in Threads, Carries(t)'
                   PROVE  /\ PoolBy(t)' \in live' /\ th'[t].at \in DOMAIN given'
                          /\ given'[th'[t].at].pool = PoolBy(t)'
                          /\ Ground(t)' \subseteq Land(PoolBy(t))'
                          /\ Single(t)' => /\ th'[t].region \in Reg
                                           /\ th'[t].region.opened => given'[th'[t].at] = th'[t].region
                          /\ \A a \in DOMAIN held' : Ground(t)' \cap Bytes(a, held'[a].size) = {}
                          /\ \A s \in Threads \ {t} : Carries(s)' => Ground(t)' \cap Ground(s)' = {}
          BY DEF CarriedInv
      <2>1. /\ Carries(t) /\ th'[t].at = th[t].at /\ (Single(t)' <=> Single(t))
            /\ PoolBy(t)' = PoolBy(t) /\ Ground(t)' = Ground(t)
            /\ Single(t) => th'[t].region = th[t].region
            BY CarriedAlike DEF Carries
      <2>2. \A s \in Threads : Carries(s)' => Carries(s) /\ Ground(s)' = Ground(s)
            BY CarriedAlike DEF Carries
      <2>3. Ground(t)' \subseteq Land(PoolBy(t))
            BY <2>1 DEF RegionInv, CarriedInv
      <2>4. Land(PoolBy(t))' = Land(PoolBy(t))
            BY <2>1, <1>2 DEF Land
      <2> QED
          BY <2>1, <2>2, <2>3, <2>4 DEF RegionInv, CarriedInv
<1>4. HighInv'
      <2> SUFFICES ASSUME NEW t \in Threads, th'[t].pc \in Shaping \cup Shaped
                   PROVE  /\ HighGiven(t)' => /\ th'[t].high \in DOMAIN given'
                                              /\ given'[th'[t].high].pool = PoolBy(t)'
                          /\ th'[t].pc = "add" => th'[t].op = "split"
          BY DEF HighInv
      <2>1. PoolBy(t)' = PoolBy(t)
            BY CarriedAlike DEF Carrying
      <2>2. /\ th[t].pc \in Shaping \cup Shaped /\ th'[t].op = th[t].op
            /\ th'[t].high = th[t].high
            BY DEF Keeps
      <2>3. /\ HighGiven(t) => th[t].high \in DOMAIN given /\ given[th[t].high].pool = PoolBy(t)
            /\ th[t].pc = "add" => th[t].op = "split"
            BY <2>2 DEF RegionInv, HighInv
      <2>4. /\ HighGiven(t)' => HighGiven(t)
            /\ th'[t].pc = "add" => th[t].pc = "add"
            BY <2>2 DEF HighGiven, Keeps
      <2> QED
          BY <2>1, <2>2, <2>3, <2>4
<1> QED
    BY <1>1, <1>3, <1>4 DEF RegionInv

(* What has to hold of a thread that carries regions, on its own. *)
CarriedBy(t) ==
  /\ PoolBy(t) \in live /\ th[t].at \in DOMAIN given
  /\ given[th[t].at].pool = PoolBy(t) /\ Ground(t) \subseteq Land(PoolBy(t))
  /\ Single(t) => /\ th[t].region \in Reg
                  /\ th[t].region.opened => given[th[t].at] = th[t].region
  /\ ~Single(t) =>
       /\ HighGiven(t) => th[t].high \in DOMAIN given /\ given[th[t].high].pool = PoolBy(t)
       /\ th[t].pc = "add" => th[t].op = "split"

Apart(t) ==
  /\ \A a \in DOMAIN held : Ground(t) \cap Bytes(a, held[a].size) = {}
  /\ \A s \in Threads \ {t} : Carries(s) => Ground(t) \cap Ground(s) = {}

LEMMA CarriedParts ==
  CarriedInv /\ HighInv <=> \A t \in Threads : Carries(t) => CarriedBy(t) /\ Apart(t)
BY DEF CarriedInv, HighInv, CarriedBy, Apart, Carries, Single, Carrying, Freeing, Shaping, Shaped

(* Where a carried region begins, and its high part if the books have one. *)
LEMMA GroundFacts ==
  ASSUME RegionInv, NEW t \in Threads, Carries(t)
  PROVE  /\ SizeBy(t) \in Nat \ {0} /\ th[t].at \in Addresses
         /\ th[t].at \in Ground(t)
         /\ ~Single(t) /\ HighGiven(t) => th[t].high \in Ground(t)
<1>1. th[t].at \in DOMAIN given /\ (Single(t) => th[t].region \in Reg)
      BY DEF RegionInv, CarriedInv
<1>2. th[t].at \in Addresses /\ th[t].at \in Nat
      BY <1>1, TrackingAssumption DEF RegionInv, GivenInv, Addresses
<1>3. CASE Single(t)
      BY <1>1, <1>2, <1>3 DEF Reg, SizeBy, Ground, Bytes
<1>4. CASE th[t].pc \in Shaping \cup Shaped
      <2>1. ~Single(t)
            BY <1>4 DEF Single, Shaping, Shaped, Freeing
      <2>2. \/ th[t].op = "split" /\ Parts(th[t].after, th[t].before, th[t].at, th[t].high)
            \/ th[t].op = "merge" /\ Parts(th[t].before, th[t].after, th[t].at, th[t].high)
            BY <1>4 DEF RegionInv, ShapeInv
      <2> QED
          BY <1>2, <2>1, <2>2 DEF Parts, Reg, SizeBy, Ground, Bytes
<1> QED
    BY <1>3, <1>4 DEF Carries, Single, Carrying

(* A thread that does not move keeps what it carries, if what the books say *)
(* of it stays and no pool ends.                                            *)
LEMMA OthersKeep ==
  ASSUME RegionInv, NEW t \in Threads, Carries(t), th'[t] = th[t],
         PoolBy(t) \in live',
         \A x \in Ground(t) : x \in DOMAIN given => x \in DOMAIN given' /\ given'[x] = given[x],
         \A b \in Ground(t) : \A p : b \in Land(p) => b \in Land(p)'
  PROVE  CarriedBy(t)' /\ Carries(t)' /\ Ground(t)' = Ground(t) /\ PoolBy(t)' = PoolBy(t)
<1>1. CarriedBy(t) /\ th[t].at \in Ground(t)
      BY CarriedParts, GroundFacts DEF RegionInv
<1>2. ~Single(t) /\ HighGiven(t) => th[t].high \in Ground(t)
      BY GroundFacts
<1>3. /\ Carries(t)' /\ (Single(t)' <=> Single(t)) /\ (HighGiven(t)' <=> HighGiven(t))
      BY DEF Carries, Single, HighGiven
<1>4. Ground(t)' = Ground(t) /\ PoolBy(t)' = PoolBy(t)
      BY DEF Ground, SizeBy, PoolBy, Single
<1>5. Ground(t)' \subseteq Land(PoolBy(t))'
      <2>1. \A b \in Ground(t) : b \in Land(PoolBy(t))'
            <3> SUFFICES ASSUME NEW b \in Ground(t)
                         PROVE  \E x \in DOMAIN given' : /\ given'[x].pool = PoolBy(t)
                                                         /\ b \in Bytes(x, given'[x].size)
                BY <1>4, <1>1, LandTyped DEF CarriedBy, Land
            <3>. PICK p : p = PoolBy(t)
                 OBVIOUS
            <3>1. b \in Land(p)
                  BY <1>1 DEF CarriedBy
            <3>2. b \in Land(p)'
                  BY <3>1
            <3>3. \E x \in DOMAIN given' : given'[x].pool = p /\ b \in Bytes(x, given'[x].size)
                  BY <3>2 DEF Land
            <3> QED
                BY <3>3
      <2> QED
          BY <1>4, <2>1
<1> QED
    BY <1>1, <1>2, <1>3, <1>4, <1>5 DEF CarriedBy

(* Alone(t): every other thread stands still. *)
OthersStand(t) == \A s \in Threads \ {t} : th'[s] = th[s]

(* The books change, on bytes S that nobody but t carries or holds. *)
LEMMA BooksChange ==
  ASSUME RegionInv, ThreadInv', ShapeInv', GivenInv', held' = held, live' = live,
         NEW t \in Threads, OthersStand(t), th'[t].pc \notin Using, NEW S,
         \A x \in DOMAIN given \ S : x \in DOMAIN given' /\ given'[x] = given[x],
         \A b, p : b \in Land(p) /\ b \notin S => b \in Land(p)',
         \A a \in DOMAIN held : S \cap Bytes(a, held[a].size) = {},
         \A s \in Threads \ {t} : Carries(s) => S \cap Ground(s) = {},
         Carries(t)' => CarriedBy(t)' /\ Ground(t)' \subseteq S
  PROVE  RegionInv'
<1>1. ASSUME NEW s \in Threads \ {t}, Carries(s)'
      PROVE  CarriedBy(s)' /\ Carries(s) /\ Ground(s)' = Ground(s)
      <2>1. Carries(s) /\ th'[s] = th[s]
            BY <1>1 DEF Carries, OthersStand
      <2>2. PoolBy(s) \in live'
            BY <2>1 DEF RegionInv, CarriedInv
      <2>3. \A x \in Ground(s) : x \in DOMAIN given => x \in DOMAIN given' /\ given'[x] = given[x]
            BY <2>1
      <2>4. \A b \in Ground(s) : \A p : b \in Land(p) => b \in Land(p)'
            BY <2>1
      <2> QED
          BY <2>1, <2>2, <2>3, <2>4, OthersKeep
<1>2. ASSUME NEW s \in Threads, Carries(s)'
      PROVE  CarriedBy(s)' /\ Apart(s)'
      <2>1. CASE s = t
            <3>1. CarriedBy(t)' /\ Ground(t)' \subseteq S
                  BY <1>2, <2>1
            <3> QED
                BY <1>1, <2>1, <3>1 DEF Apart
      <2>2. CASE s # t
            <3>1. CarriedBy(s)' /\ Carries(s) /\ Ground(s)' = Ground(s)
                  BY <1>1, <1>2, <2>2
            <3>2. Apart(s) /\ S \cap Ground(s) = {}
                  BY <2>2, <3>1, CarriedParts DEF RegionInv
            <3> QED
                BY <1>1, <2>2, <3>1, <3>2 DEF Apart
      <2> QED
          BY <2>1, <2>2
<1>3. CarriedInv' /\ HighInv'
      BY <1>2 DEF CarriedInv, HighInv, CarriedBy, Apart, Carries, Single, Carrying, Freeing,
                  Shaping, Shaped
<1>4. HeldInv'
      <2> SUFFICES ASSUME NEW a \in DOMAIN held
                   PROVE  /\ a \in DOMAIN given' /\ given'[a] = given[a]
                          /\ Bytes(a, held[a].size) \subseteq Land(held[a].pool)'
          BY DEF RegionInv, HeldInv
      <2>1. a \in Bytes(a, held[a].size)
            BY TrackingAssumption DEF RegionInv, HeldInv, GivenInv, Addresses, Reg, Bytes
      <2>. PICK p : p = held[a].pool
           OBVIOUS
      <2>2. Bytes(a, held[a].size) \subseteq Land(p)
            BY DEF RegionInv, HeldInv
      <2>3. Bytes(a, held[a].size) \subseteq Land(p)'
            BY <2>2
      <2> QED
          BY <2>1, <2>3 DEF RegionInv, HeldInv, Land
<1>5. UsedInv'
      BY DEF RegionInv, UsedInv, OthersStand
<1> QED
    BY <1>3, <1>4, <1>5 DEF RegionInv

(* An idle thread takes some of the regions that are held. *)
LEMMA HeldTaken ==
  ASSUME RegionInv, ThreadInv', ShapeInv', given' = given, live' = live,
         NEW t \in Threads, OthersStand(t), ~Carries(t), Carries(t)',
         NEW S \in SUBSET DOMAIN held, held' = Without(held, S),
         \A a \in S : Users(a) = {},
         \A b \in Ground(t)' : \E a \in S : b \in Bytes(a, held[a].size),
         CarriedBy(t)'
  PROVE  RegionInv'
<1>1. /\ DOMAIN held' = DOMAIN held \ S
      /\ \A a \in DOMAIN held \ S : held'[a] = held[a]
      BY DEF Without
<1>2. ASSUME NEW s \in Threads \ {t}, Carries(s)'
      PROVE  CarriedBy(s)' /\ Carries(s) /\ Ground(s)' = Ground(s)
      <2>1. Carries(s) /\ th'[s] = th[s]
            BY <1>2 DEF Carries, OthersStand
      <2>2. PoolBy(s) \in live'
            BY <2>1 DEF RegionInv, CarriedInv
      <2>3. \A b \in Ground(s) : \A p : b \in Land(p) => b \in Land(p)'
            BY DEF Land
      <2> QED
          BY <2>1, <2>2, <2>3, OthersKeep
<1>3. ASSUME NEW s \in Threads, Carries(s)'
      PROVE  CarriedBy(s)' /\ Apart(s)'
      <2>1. CASE s = t
            <3>1. \A a \in DOMAIN held' : Ground(t)' \cap Bytes(a, held'[a].size) = {}
                  BY <1>1 DEF RegionInv, HeldInv
            <3>2. ASSUME NEW u \in Threads \ {t}, Carries(u)'
                  PROVE  Ground(t)' \cap Ground(u)' = {}
                  <4>1. Carries(u) /\ Ground(u)' = Ground(u)
                        BY <3>2, <1>2
                  <4>2. \A a \in DOMAIN held : Ground(u) \cap Bytes(a, held[a].size) = {}
                        BY <4>1 DEF RegionInv, CarriedInv
                  <4> QED
                      BY <4>1, <4>2
            <3> QED
                BY <2>1, <3>1, <3>2 DEF Apart
      <2>2. CASE s # t
            <3>1. CarriedBy(s)' /\ Carries(s) /\ Ground(s)' = Ground(s)
                  BY <1>2, <1>3, <2>2
            <3>2. Apart(s)
                  BY <3>1, CarriedParts DEF RegionInv
            <3>3. Ground(s)' \cap Ground(t)' = {}
                  BY <3>1, <3>2 DEF Apart
            <3> QED
                BY <1>1, <1>2, <2>2, <3>1, <3>2, <3>3 DEF Apart
      <2> QED
          BY <2>1, <2>2
<1>4. CarriedInv' /\ HighInv'
      BY <1>3 DEF CarriedInv, HighInv, CarriedBy, Apart, Carries, Single, Carrying, Freeing,
                  Shaping, Shaped
<1>5. GivenInv' /\ HeldInv'
      <2>1. ASSUME NEW a \in DOMAIN held'
            PROVE  /\ held'[a] = held[a] /\ a \in DOMAIN held
                   /\ Bytes(a, held'[a].size) \subseteq Land(held[a].pool)'
            BY <1>1, <2>1 DEF RegionInv, HeldInv, Land
      <2>2. GivenInv'
            BY DEF RegionInv, GivenInv
      <2> QED
          BY <2>1, <2>2 DEF RegionInv, HeldInv
<1>6. UsedInv'
      <2> SUFFICES ASSUME NEW s \in Threads, th'[s].pc \in Using
                   PROVE  th'[s].at \in DOMAIN held'
          BY DEF UsedInv
      <2>1. s # t /\ th'[s] = th[s]
            BY DEF OthersStand, Carries, Using, Carrying, Freeing, Shaping, Shaped
      <2>2. th[s].at \in DOMAIN held /\ "at" \in DOMAIN th[s]
            BY <2>1 DEF RegionInv, UsedInv, ThreadInv, RecordOK
      <2>3. th[s].at \notin S
            BY <2>2 DEF Users
      <2> QED
          BY <1>1, <2>1, <2>2, <2>3
<1> QED
    BY <1>4, <1>5, <1>6 DEF RegionInv

(* A thread returns, and its caller holds what it carried. *)
LEMMA HeldAgain ==
  ASSUME RegionInv, ThreadInv', ShapeInv', given' = given, live' = live,
         NEW t \in Threads, OthersStand(t), Carries(t), th'[t].pc = "idle",
         NEW regions, held' = Over(regions, held),
         \A x \in DOMAIN regions :
           /\ regions[x] \in Reg /\ regions[x].pool = PoolBy(t)
           /\ x \in DOMAIN given /\ given[x].pool = PoolBy(t)
           /\ Bytes(x, regions[x].size) \subseteq Ground(t)
           /\ regions[x].opened => given[x] = regions[x],
         \A x, y \in DOMAIN regions :
           x # y => Bytes(x, regions[x].size) \cap Bytes(y, regions[y].size) = {}
  PROVE  RegionInv'
<1>1. CarriedBy(t) /\ Apart(t)
      BY CarriedParts DEF RegionInv
<1>2. \A x \in DOMAIN regions : x \in Bytes(x, regions[x].size)
      BY TrackingAssumption DEF RegionInv, GivenInv, Addresses, Reg, Bytes
<1>3. /\ DOMAIN held' = DOMAIN regions \cup DOMAIN held
      /\ \A x \in DOMAIN regions : held'[x] = regions[x]
      /\ \A x \in DOMAIN held \ DOMAIN regions : held'[x] = held[x]
      BY DEF Over
<1>4. HeldInv'
      <2>1. ASSUME NEW a \in DOMAIN held'
            PROVE  /\ held'[a] \in Reg /\ held'[a].pool \in live'
                   /\ a \in DOMAIN given' /\ given'[a].pool = held'[a].pool
                   /\ Bytes(a, held'[a].size) \subseteq Land(held[a].pool)'
                   /\ held'[a].opened => given'[a] = held'[a]
            <3>1. CASE a \in DOMAIN regions
                  <4>1. held'[a] = regions[a] /\ Bytes(a, regions[a].size) \subseteq Land(PoolBy(t))
                        BY <1>1, <1>3, <3>1 DEF CarriedBy
                  <4>2. Bytes(a, held'[a].size) \subseteq Land(held[a].pool)'
                        BY <3>1, <4>1 DEF Land
                  <4> QED
                      BY <1>1, <3>1, <4>1, <4>2 DEF CarriedBy
            <3>2. CASE a \in DOMAIN held \ DOMAIN regions
                  <4>1. held'[a] = held[a] /\ Bytes(a, held[a].size) \subseteq Land(held[a].pool)
                        BY <1>3, <3>2 DEF RegionInv, HeldInv
                  <4>2. Bytes(a, held'[a].size) \subseteq Land(held[a].pool)'
                        BY <4>1 DEF Land
                  <4> QED
                      BY <3>2, <4>1, <4>2 DEF RegionInv, HeldInv
            <3> QED
                BY <1>3, <2>1, <3>1, <3>2
      <2>2. ASSUME NEW a \in DOMAIN held', NEW b \in DOMAIN held', a # b
            PROVE  Bytes(a, held'[a].size) \cap Bytes(b, held'[b].size) = {}
            BY <1>1, <1>3, <2>2 DEF RegionInv, HeldInv, Apart
      <2> QED
          BY <2>1, <2>2 DEF HeldInv
<1>5. ASSUME NEW s \in Threads, Carries(s)'
      PROVE  s # t /\ CarriedBy(s)' /\ Carries(s) /\ Ground(s)' = Ground(s)
      <2>1. s # t /\ Carries(s) /\ th'[s] = th[s]
            BY <1>5 DEF Carries, OthersStand, Carrying, Freeing, Shaping, Shaped
      <2>2. PoolBy(s) \in live'
            BY <2>1 DEF RegionInv, CarriedInv
      <2>3. \A b \in Ground(s) : \A p : b \in Land(p) => b \in Land(p)'
            BY DEF Land
      <2> QED
          BY <2>1, <2>2, <2>3, OthersKeep
<1>6. ASSUME NEW s \in Threads, Carries(s)'
      PROVE  CarriedBy(s)' /\ Apart(s)'
      <2>1. s # t /\ CarriedBy(s)' /\ Carries(s) /\ Ground(s)' = Ground(s)
            BY <1>5, <1>6
      <2>2. Apart(s) /\ Ground(s) \cap Ground(t) = {}
            BY <2>1, CarriedParts DEF RegionInv, Apart
      <2>3. \A a \in DOMAIN held' : Ground(s)' \cap Bytes(a, held'[a].size) = {}
            BY <1>3, <2>1, <2>2 DEF Apart
      <2> QED
          BY <1>5, <2>1, <2>2, <2>3 DEF Apart
<1>7. CarriedInv' /\ HighInv'
      BY <1>6 DEF CarriedInv, HighInv, CarriedBy, Apart, Carries, Single, Carrying, Freeing,
                  Shaping, Shaped
<1>8. GivenInv' /\ UsedInv'
      BY <1>3 DEF RegionInv, GivenInv, UsedInv, OthersStand, Using
<1> QED
    BY <1>4, <1>7, <1>8 DEF RegionInv

-----------------------------------------------------------------------------
(* The threads' records, step by step.                                     *)

LEMMA Becomes ==
  ASSUME ThreadInv, NEW t \in Threads, NEW r, Become(t, r)
  PROVE  th'[t] = r /\ OthersStand(t) /\ DOMAIN th' = Threads
BY DEF ThreadInv, Become, OthersStand

LEMMA Goes ==
  ASSUME ThreadInv, NEW t \in Threads, NEW pc, Goto(t, pc)
  PROVE  /\ OthersStand(t) /\ DOMAIN th' = Threads
         /\ th'[t].pc = pc /\ DOMAIN th'[t] = DOMAIN th[t]
         /\ th[t].pc \in Carrying \cup Using => th'[t].at = th[t].at
         /\ th[t].pc \in {"track"} \cup Freeing => th'[t].region = th[t].region
         /\ th[t].pc \in Shaping \cup Shaped => /\ th'[t].op = th[t].op
                                               /\ th'[t].high = th[t].high
                                               /\ th'[t].after = th[t].after
                                               /\ th'[t].before = th[t].before
                                               /\ th'[t].old = th[t].old
         /\ th[t].pc \in Shaping => th'[t].new = th[t].new
         /\ th[t].pc \in Clearing => th'[t].pool = th[t].pool
<1>1. OthersStand(t) /\ DOMAIN th' = Threads /\ th'[t] = [th[t] EXCEPT !.pc = pc]
      BY DEF ThreadInv, Goto, OthersStand
<1>2. RecordOK(th[t])
      BY DEF ThreadInv
<1> QED
    BY <1>1, <1>2 DEF RecordOK

LEMMA RecordsStay ==
  ASSUME ThreadInv, NEW t \in Threads, OthersStand(t), DOMAIN th' = Threads, live' \subseteq live,
         RecordOK(th'[t]), th'[t].pc \in Clearing => th'[t].pool \in Pools \ live'
  PROVE  ThreadInv'
BY DEF ThreadInv, OthersStand

(* A thread that goes on with what it carries, or with something else. *)
LEMMA QuietStep ==
  ASSUME RegionInv, NEW t \in Threads, OthersStand(t), DOMAIN th' = Threads,
         UNCHANGED <<given, held, live>>, RecordOK(th'[t]), Keeps(t),
         th'[t].pc \in Clearing => th'[t].pool \in Pools \ live,
         th'[t].pc \in Using => th'[t].at \in DOMAIN held
  PROVE  RegionInv'
<1>1. ThreadInv'
      BY RecordsStay DEF RegionInv
<1>2. \A s \in Threads : Keeps(s)
      BY DEF Keeps, OthersStand
<1>3. UsedInv'
      BY DEF RegionInv, UsedInv, OthersStand
<1>4. ShapeInv'
      <2> SUFFICES ASSUME NEW s \in Threads, th'[s].pc \in Shaping \cup Shaped
                   PROVE  LET r == th'[s] IN
                          /\ r.op \in {"split", "merge"}
                          /\ r.op = "split" => Parts(r.after, r.before, r.at, r.high)
                          /\ r.op = "merge" => Parts(r.before, r.after, r.at, r.high)
          BY DEF ShapeInv
      <2>1. CASE s # t
            BY <2>1 DEF RegionInv, ShapeInv, OthersStand
      <2>2. CASE s = t
            BY <2>2 DEF RegionInv, ShapeInv, Keeps, Carrying
      <2> QED
          BY <2>1, <2>2
<1> QED
    BY <1>1, <1>2, <1>3, <1>4, Frame

(* The steps of a call that asks, gets a handle or clears the map. *)
LEMMA QueriesQuiet ==
  ASSUME RegionInv, NEW t \in Threads,
         \/ \E a \in DOMAIN held : GetHandle(t, a) \/ \E ptr \in Bytes(a, held[a].size) : Ask(t, a, ptr)
         \/ Found(t) \/ ReadSize(t) \/ ReadInfo(t) \/ Return(t)
         \/ Look(t) \/ GetUpstream(t) \/ Insert(t) \/ PutBack(t)
         \/ NextKey(t) \/ Match(t) \/ DropEntry(t) \/ GoOn(t)
  PROVE  RegionInv'
<1> USE DEF At, Idle, NoQuery, Carrying, Using, Clearing, Freeing, Shaping, Shaped
<1>1. ThreadInv /\ RecordOK(th[t])
      BY DEF RegionInv, ThreadInv
<1>2. UNCHANGED <<given, held, live>> /\ th[t].pc \in {"idle"} \cup Using \cup Clearing
      BY DEF GetHandle, Ask, Found, ReadSize, ReadInfo, Return, Look, GetUpstream, Insert, PutBack,
             NextKey, Match, DropEntry, GoOn, SeekOn, upstream, callers
<1>3. /\ OthersStand(t) /\ DOMAIN th' = Threads /\ RecordOK(th'[t])
      /\ th'[t].pc \in {"idle"} \cup Using \cup Clearing
      /\ th'[t].pc \in Clearing => th[t].pc \in Clearing /\ th'[t].pool = th[t].pool
      /\ th'[t].pc \in Using => \/ th[t].pc \in Using /\ th'[t].at = th[t].at
                               \/ th'[t].at \in DOMAIN held
      <2>1. CASE \E a \in DOMAIN held :
                   GetHandle(t, a) \/ \E ptr \in Bytes(a, held[a].size) : Ask(t, a, ptr)
            <3>1. PICK a \in DOMAIN held :
                         GetHandle(t, a) \/ \E ptr \in Bytes(a, held[a].size) : Ask(t, a, ptr)
                  BY <2>1
            <3>2. CASE GetHandle(t, a)
                  BY <1>1, <3>2, Becomes DEF GetHandle, RecordOK
            <3>3. ASSUME NEW ptr, Ask(t, a, ptr)
                  PROVE  /\ OthersStand(t) /\ DOMAIN th' = Threads
                         /\ th'[t] = [pc |-> "find", at |-> a, ptr |-> ptr]
                  BY <1>1, <3>3, Becomes DEF Ask
            <3>4. CASE \E ptr \in Bytes(a, held[a].size) : Ask(t, a, ptr)
                  <4>1. PICK ptr \in Bytes(a, held[a].size) : Ask(t, a, ptr)
                        BY <3>4
                  <4>2. th'[t] = [pc |-> "find", at |-> a, ptr |-> ptr]
                        BY <3>3, <4>1
                  <4> QED
                      BY <3>3, <4>1, <4>2 DEF RecordOK
            <3> QED
                BY <3>1, <3>2, <3>4
      <2>2. CASE Found(t)
            BY <1>1, <2>2, Becomes DEF Found, Answered, RecordOK
      <2>3. CASE ReadSize(t)
            BY <1>1, <2>3, Becomes, Goes DEF ReadSize, Answered, RecordOK
      <2>4. CASE ReadInfo(t)
            BY <1>1, <2>4, Becomes DEF ReadInfo, Answered, RecordOK
      <2>5. CASE Return(t)
            BY <1>1, <2>5, Becomes DEF Return, Done, RecordOK
      <2>6. CASE Look(t)
            BY <1>1, <2>6, Becomes, Goes DEF Look, Done, RecordOK
      <2>7. CASE GetUpstream(t)
            BY <1>1, <2>7, Becomes, Goes DEF GetUpstream, Done, RecordOK
      <2>8. CASE Insert(t)
            BY <1>1, <2>8, Becomes, Goes DEF Insert, Done, RecordOK
      <2>9. CASE PutBack(t)
            BY <1>1, <2>9, Becomes, Goes DEF PutBack, Done, RecordOK
      <2>10. CASE NextKey(t)
            BY <1>1, <2>10, Becomes DEF NextKey, RecordOK
      <2>11. CASE Match(t)
            BY <1>1, <2>11, Becomes, Goes DEF Match, SeekOn, RecordOK
      <2>12. CASE DropEntry(t)
            BY <1>1, <2>12, Goes DEF DropEntry, RecordOK
      <2>13. CASE GoOn(t)
            BY <1>1, <2>13, Becomes DEF GoOn, SeekOn, RecordOK
      <2> QED
          BY <2>1, <2>2, <2>3, <2>4, <2>5, <2>6, <2>7, <2>8, <2>9, <2>10, <2>11, <2>12, <2>13
<1>4. Keeps(t)
      BY <1>3 DEF Keeps
<1>5. th'[t].pc \in Clearing => th'[t].pool \in Pools \ live
      BY <1>1, <1>3 DEF ThreadInv
<1>6. th'[t].pc \in Using => th'[t].at \in DOMAIN held
      BY <1>3 DEF RegionInv, UsedInv
<1> QED
    BY <1>2, <1>3, <1>4, <1>5, <1>6, QuietStep

(* The steps of a free, a split or a merge that move no region. *)
LEMMA CarryingQuiet ==
  ASSUME RegionInv, NEW t \in Threads,
         \/ Uncache(t) \/ PutCached(t) \/ Lock(t) \/ Compare(t) \/ AddHigh(t) \/ Update(t)
         \/ Retire(t) \/ RemoveHigh(t)
         \/ At(t, "upstream") /\ Goto(t, "undo") /\ UNCHANGED <<given, held, live>>
         \/ /\ At(t, "give") /\ UNCHANGED <<given, held, live>>
            /\ Become(t, [pc |-> "track", at |-> th[t].at, region |-> th[t].region])
  PROVE  RegionInv'
<1> USE DEF At, Carrying, Using, Clearing, Freeing, Shaping, Shaped
<1>1. ThreadInv /\ RecordOK(th[t])
      BY DEF RegionInv, ThreadInv
<1>2. UNCHANGED <<given, held, live>>
      BY DEF Uncache, PutCached, Lock, Compare, AddHigh, Update, Retire, RemoveHigh, upstream, callers
<1>3. /\ OthersStand(t) /\ DOMAIN th' = Threads /\ RecordOK(th'[t]) /\ Keeps(t)
      /\ th'[t].pc \in Carrying
      <2>1. CASE Uncache(t)
            BY <1>1, <2>1, Goes DEF Uncache, RecordOK, Keeps
      <2>2. CASE PutCached(t)
            BY <1>1, <2>2, Goes DEF PutCached, RecordOK, Keeps
      <2>3. CASE Lock(t)
            BY <1>1, <2>3, Goes DEF Lock, RecordOK, Keeps
      <2>4. CASE Compare(t)
            <3>1. CASE Goto(t, "undo")
                  BY <1>1, <2>4, <3>1, Goes DEF Compare, RecordOK, Keeps
            <3>2. ASSUME NEW v, Become(t, [th[t] EXCEPT !.pc = "upstream", !.old = v])
                  PROVE  /\ OthersStand(t) /\ DOMAIN th' = Threads /\ RecordOK(th'[t]) /\ Keeps(t)
                         /\ th'[t].pc = "upstream"
                  <4>1. /\ OthersStand(t) /\ DOMAIN th' = Threads
                        /\ th'[t] = [th[t] EXCEPT !.pc = "upstream", !.old = v]
                        BY <1>1, <3>2, Becomes
                  <4>2. th[t].pc = "compare"
                        BY <2>4 DEF Compare
                  <4> QED
                      BY <1>1, <4>1, <4>2 DEF RecordOK, Keeps
            <3> QED
                BY <2>4, <3>1, <3>2 DEF Compare
      <2>5. CASE AddHigh(t)
            <3>1. th[t].pc = "add" /\ th[t].op = "split"
                  BY <2>5 DEF AddHigh, RegionInv, HighInv
            <3> QED
                BY <1>1, <2>5, <3>1, Goes DEF AddHigh, RecordOK, Keeps
      <2>6. CASE Update(t)
            BY <1>1, <2>6, Becomes DEF Update, RecordOK, Keeps
      <2>7. CASE Retire(t)
            BY <1>1, <2>7, Goes DEF Retire, RecordOK, Keeps
      <2>8. CASE RemoveHigh(t)
            BY <1>1, <2>8, Goes DEF RemoveHigh, RecordOK, Keeps
      <2>9. CASE At(t, "upstream") /\ Goto(t, "undo")
            BY <1>1, <2>9, Goes DEF RecordOK, Keeps
      <2>10. CASE At(t, "give") /\ Become(t, [pc |-> "track", at |-> th[t].at, region |-> th[t].region])
            BY <1>1, <2>10, Becomes DEF RecordOK, Keeps
      <2> QED
          BY <2>1, <2>2, <2>3, <2>4, <2>5, <2>6, <2>7, <2>8, <2>9, <2>10
<1> QED
    BY <1>2, <1>3, QuietStep

-----------------------------------------------------------------------------
(* The steps that move regions.                                            *)

(* A thread that carries one region, or nothing, has nothing split or merged. *)
LEMMA ShapesStay ==
  ASSUME ShapeInv, NEW t \in Threads, OthersStand(t), th'[t].pc \notin Shaping \cup Shaped
  PROVE  ShapeInv'
BY DEF ShapeInv, OthersStand

LEMMA AllocRegions ==
  ASSUME RegionInv, NEW t \in Threads, NEW p \in live, NEW n \in 1 .. MaxSize, NEW o \in BOOLEAN,
         Alloc(t, p, n, o)
  PROVE  RegionInv'
<1> DEFINE r == Region(p, n, o)
<1>1. PICK a \in Addresses :
        /\ Unused(a, n) /\ given' = Over(Only(a, r), given)
        /\ Become(t, [pc |-> "track", at |-> a, region |-> r])
      BY DEF Alloc
<1>2. r \in Reg /\ r.size = n /\ r.pool = p
      BY TrackingAssumption DEF Region, Reg, RegionInv, ThreadInv
<1>3. held' = held /\ live' = live
      BY DEF Alloc, callers
<1>4. /\ th'[t] = [pc |-> "track", at |-> a, region |-> r]
      /\ OthersStand(t) /\ DOMAIN th' = Threads
      BY <1>1, Becomes DEF RegionInv
<1> HIDE DEF r
<1>5. th'[t].pc = "track" /\ th'[t].at = a /\ th'[t].region = r
      BY <1>4
<1>6. /\ GivenInv'
      /\ \A q : Land(q) \subseteq Land(q)' /\ Land(q) \cap Bytes(a, n) = {}
      /\ Bytes(a, n) \subseteq Land(r.pool)'
      /\ a \in DOMAIN given' /\ given'[a] = r
      /\ \A x \in DOMAIN given : x # a /\ x \in DOMAIN given' /\ given'[x] = given[x]
      BY <1>1, <1>2, LandGrows DEF RegionInv
<1>7. ThreadInv' /\ ShapeInv'
      <2>1. RecordOK(th'[t])
            BY <1>4 DEF RecordOK, Carrying, Using, Clearing, Freeing, Shaping, Shaped
      <2> QED
          BY <1>3, <1>4, <2>1, RecordsStay, ShapesStay
             DEF RegionInv, Clearing, Shaping, Shaped
<1>8. Ground(t)' = Bytes(a, n) /\ PoolBy(t)' = p /\ Single(t)'
      BY <1>2, <1>5 DEF Ground, SizeBy, PoolBy, Single
<1>9. CarriedBy(t)'
      <2>1. Ground(t)' \subseteq Land(PoolBy(t))'
            BY <1>2, <1>6, <1>8 DEF Land
      <2> QED
          BY <1>2, <1>3, <1>5, <1>6, <1>8, <2>1 DEF CarriedBy
<1>10. \A x \in DOMAIN held : Bytes(a, n) \cap Bytes(x, held[x].size) = {}
      BY <1>6 DEF RegionInv, HeldInv
<1>11. \A s \in Threads \ {t} : Carries(s) => Bytes(a, n) \cap Ground(s) = {}
      BY <1>6 DEF RegionInv, CarriedInv
<1>12. th'[t].pc \notin Using
      BY <1>5 DEF Using
<1> QED
    BY <1>3, <1>4, <1>6, <1>7, <1>8, <1>9, <1>10, <1>11, <1>12, BooksChange

(* What one free region is, whether it is freed or added. *)
LEMMA SingleFacts ==
  ASSUME RegionInv, NEW t \in Threads, Single(t)
  PROVE  /\ Carries(t) /\ CarriedBy(t) /\ Apart(t)
         /\ PoolBy(t) = th[t].region.pool /\ Ground(t) = Bytes(th[t].at, th[t].region.size)
         /\ th[t].region \in Reg /\ th[t].at \in DOMAIN given
<1>1. Carries(t)
      BY DEF Carries, Single, Carrying
<1> QED
    BY <1>1, CarriedParts DEF RegionInv, CarriedBy, PoolBy, Ground, SizeBy

(* The region goes back to the caller's hands, *)
LEMMA SingleHeld ==
  ASSUME RegionInv, NEW t \in Threads, Single(t), Hold(Only(th[t].at, th[t].region)), Done(t),
         given' = given, live' = live
  PROVE  RegionInv'
<1> DEFINE regions == Only(th[t].at, th[t].region)
<1>1. DOMAIN regions = {th[t].at} /\ regions[th[t].at] = th[t].region
      BY DEF Only
<1>2. held' = Over(regions, held)
      BY DEF Hold
<1> HIDE DEF regions
<1>3. th'[t] = NoQuery /\ OthersStand(t) /\ DOMAIN th' = Threads
      BY Becomes DEF Done, RegionInv
<1>4. ThreadInv' /\ ShapeInv' /\ th'[t].pc = "idle"
      <2>1. RecordOK(th'[t])
            BY <1>3 DEF RecordOK, NoQuery, Carrying, Using, Clearing, Freeing, Shaping, Shaped
      <2> QED
          BY <1>3, <2>1, RecordsStay, ShapesStay DEF RegionInv, NoQuery, Clearing, Shaping, Shaped
<1>5. Carries(t) /\ \A x \in DOMAIN regions :
           /\ regions[x] \in Reg /\ regions[x].pool = PoolBy(t)
           /\ x \in DOMAIN given /\ given[x].pool = PoolBy(t)
           /\ Bytes(x, regions[x].size) \subseteq Ground(t)
           /\ regions[x].opened => given[x] = regions[x]
      BY <1>1, SingleFacts DEF CarriedBy
<1> QED
    BY <1>1, <1>2, <1>3, <1>4, <1>5, HeldAgain

(* or to the upstream provider. *)
LEMMA SingleGiven ==
  ASSUME RegionInv, NEW t \in Threads, Single(t), Done(t),
         given' = Without(given, {th[t].at}), given[th[t].at] = th[t].region,
         held' = held, live' = live
  PROVE  RegionInv'
<1>1. /\ GivenInv'
      /\ DOMAIN given' = DOMAIN given \ {th[t].at}
      /\ \A x \in DOMAIN given \ {th[t].at} : given'[x] = given[x]
      /\ \A p, b : b \in Land(p) /\ (\A x \in DOMAIN given \cap {th[t].at} :
                                        b \notin Bytes(x, given[x].size)) => b \in Land(p)'
      BY LandShrinks DEF RegionInv
<1>2. /\ Apart(t) /\ Ground(t) = Bytes(th[t].at, given[th[t].at].size) /\ Carries(t)
      BY SingleFacts
<1>3. th[t].at \in Ground(t)
      BY <1>2, GroundFacts
<1>. PICK S : S = Ground(t)
     OBVIOUS
<1>4. \A x \in DOMAIN given \ S : x \in DOMAIN given' /\ given'[x] = given[x]
      BY <1>1, <1>3
<1>5. \A b, p : b \in Land(p) /\ b \notin S => b \in Land(p)'
      BY <1>1, <1>2
<1>6. th'[t] = NoQuery /\ OthersStand(t) /\ DOMAIN th' = Threads
      BY Becomes DEF Done, RegionInv
<1>7. ThreadInv' /\ ShapeInv' /\ th'[t].pc = "idle"
      <2>1. RecordOK(th'[t])
            BY <1>6 DEF RecordOK, NoQuery, Carrying, Using, Clearing, Freeing, Shaping, Shaped
      <2> QED
          BY <1>6, <2>1, RecordsStay, ShapesStay DEF RegionInv, NoQuery, Clearing, Shaping, Shaped
<1>8. th'[t].pc \notin Using /\ ~Carries(t)'
      BY <1>7 DEF Carries, Using, Carrying, Freeing, Shaping, Shaped
<1>9. /\ \A a \in DOMAIN held : S \cap Bytes(a, held[a].size) = {}
      /\ \A s \in Threads \ {t} : Carries(s) => S \cap Ground(s) = {}
      BY <1>2 DEF Apart
<1>10. Carries(t)' => CarriedBy(t)' /\ Ground(t)' \subseteq S
      BY <1>8
<1>11. GivenInv' /\ th'[t].pc \notin Using /\ OthersStand(t) /\ ThreadInv' /\ ShapeInv'
      BY <1>1, <1>6, <1>7, <1>8
<1> QED
    BY <1>4, <1>5, <1>9, <1>10, <1>11, BooksChange

LEMMA TrackRegions ==
  ASSUME RegionInv, NEW t \in Threads, Track(t)
  PROVE  RegionInv'
<1>1. Single(t) /\ live' = live
      BY DEF Track, Single, At
<1>2. CASE Hold(Only(th[t].at, th[t].region)) /\ Done(t) /\ UNCHANGED given
      BY <1>1, <1>2, SingleHeld
<1>3. CASE th[t].region.opened /\ given' = Without(given, {th[t].at}) /\ Done(t) /\ UNCHANGED held
      <2>1. given[th[t].at] = th[t].region
            BY <1>1, <1>3, SingleFacts DEF CarriedBy
      <2> QED
          BY <1>1, <1>3, <2>1, SingleGiven
<1> QED
    BY <1>2, <1>3 DEF Track

LEMMA GiveRegions ==
  ASSUME RegionInv, NEW t \in Threads, Give(t)
  PROVE  RegionInv'
<1>1. Single(t) /\ live' = live /\ At(t, "give")
      BY DEF Give, Single, At, Freeing
<1>2. CASE /\ given[th[t].at] = th[t].region /\ given' = Without(given, {th[t].at}) /\ Done(t)
           /\ UNCHANGED held
      BY <1>1, <1>2, SingleGiven
<1>3. CASE /\ Become(t, [pc |-> "track", at |-> th[t].at, region |-> th[t].region])
           /\ UNCHANGED <<given, held>>
      BY <1>1, <1>3, CarryingQuiet
<1>4. CASE Hold(Only(th[t].at, th[t].region)) /\ Done(t) /\ UNCHANGED given
      BY <1>1, <1>4, SingleHeld
<1> QED
    BY <1>2, <1>3, <1>4 DEF Give

LEMMA FreeRegions ==
  ASSUME RegionInv, NEW t \in Threads, NEW a \in DOMAIN held, Free(t, a)
  PROVE  RegionInv'
<1>1. /\ OthersStand(t) /\ DOMAIN th' = Threads
      /\ th'[t] = [pc |-> IF held[a].opened THEN "give" ELSE "uncache", at |-> a,
                   region |-> held[a], removed |-> Tracked(a)]
      BY Becomes DEF Free, RegionInv
<1>2. /\ th'[t].pc \in Freeing /\ th'[t].at = a /\ th'[t].region = held[a] /\ RecordOK(th'[t])
      BY <1>1 DEF RecordOK, Carrying, Using, Clearing, Freeing, Shaping, Shaped
<1>3. ThreadInv' /\ ShapeInv' /\ live' = live /\ given' = given /\ ~Carries(t)
      <2>1. live' = live /\ given' = given /\ th[t].pc = "idle"
            BY DEF Free, upstream, Idle
      <2> QED
          BY <1>1, <1>2, <2>1, RecordsStay, ShapesStay
             DEF RegionInv, Carries, Clearing, Shaping, Shaped, Freeing, Carrying
<1>4. held' = Without(held, {a}) /\ Users(a) = {}
      BY DEF Free, Drop
<1>5. Carries(t)' /\ Single(t)' /\ Ground(t)' = Bytes(a, held[a].size) /\ PoolBy(t)' = held[a].pool
      BY <1>2 DEF Carries, Single, Ground, SizeBy, PoolBy, Carrying
<1>6. CarriedBy(t)'
      <2>1. Ground(t)' \subseteq Land(PoolBy(t))'
            BY <1>3, <1>5 DEF RegionInv, HeldInv, Land
      <2> QED
          BY <1>2, <1>3, <1>5, <2>1 DEF RegionInv, HeldInv, CarriedBy
<1>7. PICK S \in SUBSET DOMAIN held : S = {a}
      OBVIOUS
<1> QED
    BY <1>1, <1>3, <1>4, <1>5, <1>6, <1>7, HeldTaken

(* What two regions that are split or merged are. *)
LEMMA ShapeFacts ==
  ASSUME RegionInv, NEW t \in Threads, th[t].pc \in Shaping \cup Shaped
  PROVE  /\ Carries(t) /\ CarriedBy(t) /\ Apart(t) /\ ~Single(t) /\ th[t].at \in Addresses
         /\ PoolBy(t) = th[t].after[th[t].at].pool /\ PoolBy(t) = th[t].before[th[t].at].pool
         /\ th[t].op = "split" =>
              /\ Parts(th[t].after, th[t].before, th[t].at, th[t].high)
              /\ Ground(t) = Bytes(th[t].at, th[t].before[th[t].at].size)
         /\ th[t].op = "merge" =>
              /\ Parts(th[t].before, th[t].after, th[t].at, th[t].high)
              /\ Ground(t) = Bytes(th[t].at, th[t].after[th[t].at].size)
         /\ th[t].op \in {"split", "merge"}
<1>1. Carries(t) /\ ~Single(t)
      BY DEF Carries, Single, Carrying, Freeing, Shaping, Shaped
<1>2. CarriedBy(t) /\ Apart(t) /\ th[t].at \in Addresses
      BY <1>1, CarriedParts, GroundFacts DEF RegionInv
<1> QED
    BY <1>1, <1>2 DEF RegionInv, ShapeInv, PoolBy, SizeBy, Ground, Parts

LEMMA ReshapeRegions ==
  ASSUME RegionInv, NEW t \in Threads, NEW op \in {"split", "merge"}, NEW a, NEW b,
         NEW regions, NEW shaped, Reshape(t, op, a, b, regions, shaped), a \in DOMAIN regions,
         op = "split" => Parts(shaped, regions, a, b),
         op = "merge" => Parts(regions, shaped, a, b)
  PROVE  RegionInv'
<1>1. PICK v : Become(t, [pc |-> "lock", op |-> op, at |-> a, high |-> b, new |-> v,
                          old |-> Null, before |-> regions, after |-> shaped])
      BY DEF Reshape
<1>2. /\ OthersStand(t) /\ DOMAIN th' = Threads
      /\ th'[t] = [pc |-> "lock", op |-> op, at |-> a, high |-> b, new |-> v,
                   old |-> Null, before |-> regions, after |-> shaped]
      BY <1>1, Becomes DEF RegionInv
<1>3. /\ th'[t].pc = "lock" /\ th'[t].op = op /\ th'[t].at = a /\ th'[t].high = b
      /\ th'[t].before = regions /\ th'[t].after = shaped /\ RecordOK(th'[t])
      BY <1>2 DEF RecordOK, Carrying, Using, Clearing, Freeing, Shaping, Shaped
<1>4. /\ live' = live /\ given' = given /\ th[t].pc = "idle" /\ DOMAIN regions \subseteq DOMAIN held
      /\ held' = Without(held, DOMAIN regions)
      /\ \A x \in DOMAIN regions : Users(x) = {} /\ held[x] = regions[x]
      BY DEF Reshape, upstream, Idle, Drop
<1>5. ThreadInv' /\ ~Carries(t) /\ Carries(t)' /\ ~Single(t)'
      BY <1>2, <1>3, <1>4, RecordsStay
         DEF RegionInv, Carries, Single, Clearing, Shaping, Shaped, Freeing, Carrying
<1>6. ShapeInv'
      BY <1>2, <1>3 DEF RegionInv, ShapeInv, OthersStand, Shaping, Shaped
<1>7. a \in Addresses /\ regions[a].pool = shaped[a].pool /\ a \in DOMAIN held
      BY <1>4 DEF RegionInv, HeldInv, GivenInv, Parts
<1>8. PoolBy(t)' = shaped[a].pool
      BY <1>3, <1>5 DEF PoolBy
<1>9. Ground(t)' = Bytes(a, IF op = "split" THEN regions[a].size ELSE shaped[a].size)
      BY <1>3, <1>5 DEF Ground, SizeBy, Parts
<1>10. \A x \in Ground(t)' : \E y \in DOMAIN regions : x \in Bytes(y, held[y].size)
      <2>1. CASE op = "split"
            BY <1>4, <1>9, <2>1
      <2>2. CASE op = "merge"
            <3>1. DOMAIN regions = {a, b}
                  BY <2>2 DEF Parts
            <3>2. Bytes(a, shaped[a].size) = Bytes(a, regions[a].size) \cup Bytes(b, regions[b].size)
                  BY <1>7, <2>2, TrackingAssumption DEF Parts, Reg, Bytes, Addresses
            <3> QED
                BY <1>4, <1>9, <2>2, <3>1, <3>2
      <2> QED
          BY <2>1, <2>2
<1>11. \A y \in DOMAIN regions :
         /\ y \in DOMAIN given /\ given[y].pool = shaped[a].pool /\ shaped[a].pool \in live
         /\ Bytes(y, held[y].size) \subseteq Land(shaped[a].pool)
      BY <1>4 DEF RegionInv, HeldInv, Parts
<1>12. CarriedBy(t)'
      <2>1. Ground(t)' \subseteq Land(PoolBy(t))'
            BY <1>4, <1>8, <1>10, <1>11 DEF Land
      <2>2. HighGiven(t)' => b \in DOMAIN given' /\ given'[b].pool = PoolBy(t)'
            BY <1>3, <1>4, <1>8, <1>11 DEF HighGiven, Parts, Shaped
      <2> QED
          BY <1>3, <1>4, <1>5, <1>7, <1>8, <1>11, <2>1, <2>2 DEF CarriedBy
<1> QED
    BY <1>2, <1>4, <1>5, <1>6, <1>10, <1>12, HeldTaken

LEMMA SplitRegions ==
  ASSUME RegionInv, NEW t \in Threads, NEW a \in DOMAIN held, NEW first \in 1 .. MaxSize,
         Split(t, a, first)
  PROVE  RegionInv'
<1> DEFINE r       == held[a]
           regions == Only(a, r)
           shaped  == Over(Only(a, [r EXCEPT !.size = first]),
                           Only(a + first, [r EXCEPT !.size = @ - first]))
<1>1. first < r.size /\ Reshape(t, "split", a, a + first, regions, shaped)
      BY DEF Split
<1>2. r \in Reg /\ a \in Nat /\ first \in Nat \ {0} /\ ~r.opened
      BY <1>1, TrackingAssumption DEF RegionInv, HeldInv, GivenInv, Addresses, Reshape, Only
<1>3. Parts(shaped, regions, a, a + first)
      <2>1. /\ DOMAIN regions = {a} /\ regions[a] = r /\ DOMAIN shaped = {a, a + first}
            /\ shaped[a] = [r EXCEPT !.size = first]
            /\ shaped[a + first] = [r EXCEPT !.size = @ - first]
            BY <1>2 DEF Only, Over
      <2> HIDE DEF regions, shaped
      <2> QED
          BY <1>1, <1>2, <2>1 DEF Parts, Reg
<1>4. a \in DOMAIN regions
      BY DEF Only
<1> HIDE DEF regions, shaped
<1> QED
    BY <1>1, <1>3, <1>4, ReshapeRegions

LEMMA MergeRegions ==
  ASSUME RegionInv, NEW t \in Threads, NEW a \in DOMAIN held, NEW b \in DOMAIN held, Merge(t, a, b)
  PROVE  RegionInv'
<1> DEFINE r       == held[a]
           regions == Over(Only(a, r), Only(b, held[b]))
           shaped  == Only(a, [r EXCEPT !.size = @ + held[b].size])
<1>1. b = a + r.size /\ r.pool = held[b].pool /\ Reshape(t, "merge", a, b, regions, shaped)
      BY DEF Merge
<1>2. r \in Reg /\ held[b] \in Reg /\ a \in Nat /\ a # b
      BY <1>1, TrackingAssumption DEF RegionInv, HeldInv, GivenInv, Addresses, Reg
<1>3. DOMAIN regions = {a, b} /\ regions[a] = r /\ regions[b] = held[b]
      BY <1>2 DEF Only, Over
<1>4. ~r.opened /\ ~held[b].opened
      BY <1>1, <1>3 DEF Reshape
<1>5. Parts(regions, shaped, a, b)
      <2>1. DOMAIN shaped = {a} /\ shaped[a] = [r EXCEPT !.size = @ + held[b].size]
            BY DEF Only
      <2> HIDE DEF regions, shaped
      <2> QED
          BY <1>1, <1>2, <1>3, <1>4, <2>1 DEF Parts, Reg
<1> HIDE DEF regions, shaped
<1> QED
    BY <1>1, <1>3, <1>5, ReshapeRegions

LEMMA UpstreamRegions ==
  ASSUME RegionInv, NEW t \in Threads, ShapeUpstream(t)
  PROVE  RegionInv'
<1> DEFINE r == th[t]
<1>1. CASE Goto(t, "undo") /\ UNCHANGED given
      BY <1>1, CarryingQuiet DEF ShapeUpstream, callers
<1>2. CASE /\ \A x \in DOMAIN r.before : given[x] = r.before[x]
           /\ given' = Over(r.after, Without(given, DOMAIN r.before))
           /\ Goto(t, IF r.op = "split" THEN "add" ELSE "update")
      <2>1. /\ r.pc = "upstream" /\ r.pc \in Shaping /\ r.op \in {"split", "merge"}
            /\ held' = held /\ live' = live
            BY ShapeFacts DEF ShapeUpstream, At, Shaping, callers
      <2>2. /\ OthersStand(t) /\ DOMAIN th' = Threads /\ DOMAIN th'[t] = DOMAIN r
            /\ th'[t].pc = IF r.op = "split" THEN "add" ELSE "update"
            /\ th'[t].at = r.at /\ th'[t].op = r.op /\ th'[t].high = r.high
            /\ th'[t].after = r.after /\ th'[t].before = r.before
            BY <1>2, <2>1, Goes DEF RegionInv, Carrying
      <2>3. Carries(t) /\ CarriedBy(t) /\ Apart(t) /\ ~Single(t) /\ r.at \in Addresses
            BY <2>1, ShapeFacts
      <2>4. RecordOK(th'[t]) /\ th'[t].pc \in Shaping /\ th'[t].pc \notin Using /\ Carries(t)' /\ ~Single(t)'
            BY <2>1, <2>2 DEF RegionInv, ThreadInv, RecordOK, Carries, Single, Carrying, Using, Clearing,
                              Freeing, Shaping, Shaped
      <2>5. ThreadInv'
            BY <2>1, <2>2, <2>4, RecordsStay DEF RegionInv, Clearing, Shaping
      <2>6. ShapeInv'
            BY <2>1, <2>2, <2>4 DEF RegionInv, ShapeInv, OthersStand, Shaping, Shaped
      <2>. PICK S : S = Ground(t)
           OBVIOUS
      <2>7. Ground(t)' = S /\ PoolBy(t)' = PoolBy(t)
            BY <2>2, <2>3, <2>4 DEF Ground, SizeBy, PoolBy
      <2>8. /\ DOMAIN given' = DOMAIN r.after \cup (DOMAIN given \ DOMAIN r.before)
            /\ \A x \in DOMAIN r.after : given'[x] = r.after[x]
            /\ \A x \in DOMAIN given \ (DOMAIN r.before \cup DOMAIN r.after) : given'[x] = given[x]
            BY <1>2 DEF Over, Without
      <2>9. Cover(r.after, PoolBy(t), S) /\ Cover(r.before, PoolBy(t), S)
            <3>1. CASE r.op = "split"
                  <4>1. /\ Parts(r.after, r.before, r.at, r.high)
                        /\ S = Bytes(r.at, r.before[r.at].size) /\ PoolBy(t) = r.after[r.at].pool
                        BY <2>1, <3>1, ShapeFacts
                  <4>2. r.after[r.at].pool = r.before[r.at].pool
                        BY <4>1 DEF Parts
                  <4>3. /\ Cover(r.after, r.before[r.at].pool, Bytes(r.at, r.before[r.at].size))
                        /\ Cover(r.before, r.before[r.at].pool, Bytes(r.at, r.before[r.at].size))
                        BY <2>3, <4>1, PartsCover
                  <4> QED
                      BY <4>1, <4>2, <4>3
            <3>2. CASE r.op = "merge"
                  <4>1. /\ Parts(r.before, r.after, r.at, r.high)
                        /\ S = Bytes(r.at, r.after[r.at].size) /\ PoolBy(t) = r.after[r.at].pool
                        BY <2>1, <3>2, ShapeFacts
                  <4>2. /\ Cover(r.before, r.after[r.at].pool, Bytes(r.at, r.after[r.at].size))
                        /\ Cover(r.after, r.after[r.at].pool, Bytes(r.at, r.after[r.at].size))
                        BY <2>3, <4>1, PartsCover
                  <4> QED
                      BY <4>1, <4>2
            <3> QED
                BY <2>1, <3>1, <3>2
      <2>11. S \subseteq Addresses
            BY <2>3, LandTyped DEF CarriedBy
      <2>12. DOMAIN r.before \subseteq DOMAIN given
            BY <2>1, <2>3, ShapeFacts DEF CarriedBy, HighGiven, Parts
      <2>13. \A x \in DOMAIN given \ DOMAIN r.before : Bytes(x, given[x].size) \cap S = {}
            <3> SUFFICES ASSUME NEW x \in DOMAIN given \ DOMAIN r.before, NEW b \in S,
                                b \in Bytes(x, given[x].size)
                         PROVE  FALSE
                OBVIOUS
            <3>1. PICK y \in DOMAIN r.before : b \in Bytes(y, r.before[y].size)
                  BY <2>9 DEF Cover
            <3>2. y \in DOMAIN given /\ given[y] = r.before[y] /\ x # y
                  BY <1>2, <2>12, <3>1
            <3> QED
                BY <3>1, <3>2 DEF RegionInv, GivenInv
      <2>14. \A x \in DOMAIN given \ DOMAIN r.before : x \notin S
            BY <2>13, GivenIsLand DEF RegionInv
      <2>15. GivenInv'
            <3>1. ASSUME NEW x \in DOMAIN given'
                  PROVE  x \in Addresses /\ given'[x] \in Reg /\ Bytes(x, given'[x].size) \subseteq Addresses
                  BY <2>8, <2>9, <2>11, <2>14 DEF RegionInv, GivenInv, Cover
            <3>2. ASSUME NEW x \in DOMAIN given', NEW y \in DOMAIN given', x # y
                  PROVE  Bytes(x, given'[x].size) \cap Bytes(y, given'[y].size) = {}
                  <4>1. CASE x \in DOMAIN r.after /\ y \in DOMAIN r.after
                        BY <2>8, <2>9, <3>2, <4>1 DEF Cover
                  <4>2. CASE x \in DOMAIN r.after /\ y \notin DOMAIN r.after
                        BY <2>8, <2>9, <2>13, <4>2 DEF Cover
                  <4>3. CASE x \notin DOMAIN r.after /\ y \in DOMAIN r.after
                        BY <2>8, <2>9, <2>13, <4>3 DEF Cover
                  <4>4. CASE x \notin DOMAIN r.after /\ y \notin DOMAIN r.after
                        BY <2>8, <3>2, <4>4 DEF RegionInv, GivenInv
                  <4> QED
                      BY <4>1, <4>2, <4>3, <4>4
            <3> QED
                BY <3>1, <3>2 DEF GivenInv
      <2>16. \A x \in DOMAIN given \ S : x \in DOMAIN given' /\ given'[x] = given[x]
            BY <2>8, <2>9 DEF Cover
      <2>17. ASSUME NEW b, NEW p, b \in Land(p), b \notin S
             PROVE  b \in Land(p)'
            <3>1. PICK x \in DOMAIN given : given[x].pool = p /\ b \in Bytes(x, given[x].size)
                  BY <2>17 DEF Land
            <3>2. x \notin DOMAIN r.before
                  BY <1>2, <2>9, <2>17, <3>1 DEF Cover
            <3>3. x \in DOMAIN given' /\ given'[x] = given[x]
                  BY <2>8, <2>9, <2>14, <3>1, <3>2 DEF Cover
            <3> QED
                BY <2>17, <3>1, <3>3 DEF Land
      <2>18. CarriedBy(t)'
            <3>1. Ground(t)' \subseteq Land(PoolBy(t))'
                  BY <2>7, <2>8, <2>9, <2>11 DEF Land, Cover
            <3>2. r.at \in DOMAIN r.after
                  BY <2>1, ShapeFacts DEF Parts
            <3>3. HighGiven(t)' => r.high \in DOMAIN r.after
                  BY <2>1, <2>2, ShapeFacts DEF HighGiven, Parts, Shaped
            <3>4. th'[t].pc = "add" => th'[t].op = "split"
                  BY <2>2
            <3>5. PoolBy(t)' \in live'
                  BY <2>1, <2>3, <2>7 DEF CarriedBy
            <3>6. th'[t].at \in DOMAIN given' /\ given'[th'[t].at].pool = PoolBy(t)'
                  BY <2>2, <2>7, <2>8, <2>9, <3>2 DEF Cover
            <3>7. HighGiven(t)' => th'[t].high \in DOMAIN given' /\ given'[th'[t].high].pool = PoolBy(t)'
                  BY <2>2, <2>7, <2>8, <2>9, <3>3 DEF Cover
            <3> QED
                BY <2>4, <3>1, <3>4, <3>5, <3>6, <3>7 DEF CarriedBy
      <2>19. /\ \A a \in DOMAIN held : S \cap Bytes(a, held[a].size) = {}
             /\ \A s \in Threads \ {t} : Carries(s) => S \cap Ground(s) = {}
            BY <2>3 DEF Apart
      <2>20. Carries(t)' => CarriedBy(t)' /\ Ground(t)' \subseteq S
            BY <2>7, <2>18
      <2> QED
          BY <2>1, <2>2, <2>4, <2>5, <2>6, <2>15, <2>16, <2>17, <2>19, <2>20, BooksChange
<1> QED
    BY <1>1, <1>2 DEF ShapeUpstream

(* A split or a merge returns: the caller holds what came of it, or what was. *)
LEMMA ShapeReturns ==
  ASSUME RegionInv, NEW t \in Threads, th[t].pc \in {"unlock", "undo"}, Done(t),
         Hold(IF th[t].pc = "unlock" THEN th[t].after ELSE th[t].before),
         given' = given, live' = live
  PROVE  RegionInv'
<1> DEFINE r       == th[t]
           regions == IF r.pc = "unlock" THEN r.after ELSE r.before
<1>1. th'[t] = NoQuery /\ OthersStand(t) /\ DOMAIN th' = Threads
      BY Becomes DEF Done, RegionInv
<1>2. ThreadInv' /\ ShapeInv' /\ th'[t].pc = "idle"
      <2>1. RecordOK(th'[t])
            BY <1>1 DEF RecordOK, NoQuery, Carrying, Using, Clearing, Freeing, Shaping, Shaped
      <2> QED
          BY <1>1, <2>1, RecordsStay, ShapesStay DEF RegionInv, NoQuery, Clearing, Shaping, Shaped
<1>3. Carries(t) /\ ~Single(t)
      BY DEF Carries, Single, Carrying, Freeing, Shaping, Shaped
<1>4. CarriedBy(t) /\ r.at \in Addresses
      BY <1>3, CarriedParts, GroundFacts DEF RegionInv
<1>5. PoolBy(t) = r.after[r.at].pool
      BY <1>3 DEF PoolBy
<1>6. /\ Cover(regions, PoolBy(t), Ground(t))
      /\ DOMAIN regions \subseteq {r.at} \cup (IF HighGiven(t) THEN {r.high} ELSE {})
      <2>1. /\ (r.pc = "unlock" /\ regions = r.after) \/ (r.pc = "undo" /\ regions = r.before)
            /\ r.pc \in Shaping \cup Shaped
            BY DEF Shaping, Shaped
      <2>2. CASE r.op = "split"
            <3>1. /\ Parts(r.after, r.before, r.at, r.high)
                  /\ Ground(t) = Bytes(r.at, r.before[r.at].size) /\ PoolBy(t) = r.before[r.at].pool
                  BY <2>1, <2>2, ShapeFacts
            <3>2. /\ Cover(r.after, r.before[r.at].pool, Bytes(r.at, r.before[r.at].size))
                  /\ Cover(r.before, r.before[r.at].pool, Bytes(r.at, r.before[r.at].size))
                  BY <1>4, <3>1, PartsCover
            <3>3. r.pc = "unlock" => HighGiven(t)
                  BY <2>2 DEF HighGiven, Shaped
            <3> QED
                BY <2>1, <3>1, <3>2, <3>3 DEF Parts
      <2>3. CASE r.op = "merge"
            <3>1. /\ Parts(r.before, r.after, r.at, r.high)
                  /\ Ground(t) = Bytes(r.at, r.after[r.at].size) /\ PoolBy(t) = r.after[r.at].pool
                  BY <2>1, <2>3, ShapeFacts
            <3>2. /\ Cover(r.before, r.after[r.at].pool, Bytes(r.at, r.after[r.at].size))
                  /\ Cover(r.after, r.after[r.at].pool, Bytes(r.at, r.after[r.at].size))
                  BY <1>4, <3>1, PartsCover
            <3>3. r.pc = "undo" => HighGiven(t)
                  BY <2>3 DEF HighGiven
            <3> QED
                BY <2>1, <3>1, <3>2, <3>3 DEF Parts
      <2> QED
          BY <2>1, <2>2, <2>3, ShapeFacts
<1>7. held' = Over(regions, held)
      BY DEF Hold
<1> HIDE DEF regions
<1>8. \A x \in DOMAIN regions :
        /\ regions[x] \in Reg /\ regions[x].pool = PoolBy(t)
        /\ x \in DOMAIN given /\ given[x].pool = PoolBy(t)
        /\ Bytes(x, regions[x].size) \subseteq Ground(t)
        /\ regions[x].opened => given[x] = regions[x]
      BY <1>3, <1>4, <1>6 DEF CarriedBy, Cover
<1>9. \A x, y \in DOMAIN regions :
        x # y => Bytes(x, regions[x].size) \cap Bytes(y, regions[y].size) = {}
      BY <1>6 DEF Cover
<1> QED
    BY <1>1, <1>2, <1>3, <1>7, <1>8, <1>9, HeldAgain

LEMMA DestroyRegions ==
  ASSUME RegionInv, NEW t \in Threads, NEW p \in live, Destroy(t, p)
  PROVE  RegionInv'
<1>1. /\ th[t].pc = "idle" /\ Busy(p) = {} /\ live' = live \ {p} /\ given' = given
      /\ held' = Without(held, Of(p, held))
      /\ Become(t, [pc |-> "seek", pool |-> p, overtaken |-> FALSE])
      BY DEF Destroy, Idle, Drop, upstream
<1>2. /\ OthersStand(t) /\ DOMAIN th' = Threads
      /\ th'[t] = [pc |-> "seek", pool |-> p, overtaken |-> FALSE]
      BY <1>1, Becomes DEF RegionInv
<1>3. /\ th'[t].pc = "seek" /\ th'[t].pool = p /\ RecordOK(th'[t])
      BY <1>2 DEF RecordOK, Carrying, Using, Clearing, Freeing, Shaping, Shaped
<1>4. ThreadInv' /\ ShapeInv'
      BY <1>1, <1>2, <1>3, RecordsStay, ShapesStay DEF RegionInv, ThreadInv, Clearing, Shaping, Shaped
<1>5. /\ DOMAIN held' = {a \in DOMAIN held : held[a].pool # p}
      /\ \A a \in DOMAIN held' : held'[a] = held[a]
      BY <1>1 DEF Without, Of
<1>6. GivenInv' /\ \A q : Land(q)' = Land(q)
      BY <1>1 DEF RegionInv, GivenInv, Land
<1>7. HeldInv'
      <2>1. ASSUME NEW a \in DOMAIN held'
            PROVE  /\ held'[a] = held[a] /\ a \in DOMAIN held /\ held[a].pool \in live'
                   /\ Bytes(a, held'[a].size) \subseteq Land(held[a].pool)'
            BY <1>1, <1>5 DEF RegionInv, HeldInv, Land
      <2> QED
          BY <1>1, <2>1 DEF RegionInv, HeldInv
<1>8. \A s \in Threads : "at" \in DOMAIN th[s] => given[th[s].at].pool # p
      <2> SUFFICES ASSUME NEW s \in Threads, "at" \in DOMAIN th[s], given[th[s].at].pool = p
                   PROVE  FALSE
          OBVIOUS
      <2>1. RecordOK(th[s])
            BY DEF RegionInv, ThreadInv
      <2>2. th[s].pc \in Carrying \cup Using
            BY <2>1 DEF RecordOK
      <2>3. th[s].pc # "idle" /\ "pool" \notin DOMAIN th[s]
            BY <2>1, <2>2 DEF RecordOK, Carrying, Using, Clearing, Freeing, Shaping, Shaped
      <2> QED
          BY <1>1, <2>3 DEF Busy, Idle
<1>9. ASSUME NEW s \in Threads, Carries(s)'
      PROVE  s # t /\ CarriedBy(s)' /\ Carries(s) /\ Ground(s)' = Ground(s)
      <2>1. s # t /\ Carries(s) /\ th'[s] = th[s]
            BY <1>2, <1>3, <1>9 DEF Carries, OthersStand, Carrying, Freeing, Shaping, Shaped
      <2>2. "at" \in DOMAIN th[s]
            BY <2>1 DEF RegionInv, ThreadInv, RecordOK, Carries
      <2>3. PoolBy(s) \in live'
            BY <1>1, <1>8, <2>1, <2>2 DEF RegionInv, CarriedInv
      <2>4. \A b \in Ground(s) : \A q : b \in Land(q) => b \in Land(q)'
            BY <1>6
      <2> QED
          BY <1>1, <2>1, <2>3, <2>4, OthersKeep
<1>10. ASSUME NEW s \in Threads, Carries(s)'
      PROVE  CarriedBy(s)' /\ Apart(s)'
      <2>1. s # t /\ CarriedBy(s)' /\ Carries(s) /\ Ground(s)' = Ground(s)
            BY <1>9, <1>10
      <2>2. Apart(s)
            BY <2>1, CarriedParts DEF RegionInv
      <2>3. \A a \in DOMAIN held' : Ground(s)' \cap Bytes(a, held'[a].size) = {}
            BY <1>5, <2>1, <2>2 DEF Apart
      <2> QED
          BY <1>9, <2>1, <2>2, <2>3 DEF Apart
<1>11. CarriedInv' /\ HighInv'
      BY <1>10 DEF CarriedInv, HighInv, CarriedBy, Apart, Carries, Single, Carrying, Freeing,
                   Shaping, Shaped
<1>12. UsedInv'
      <2> SUFFICES ASSUME NEW s \in Threads, th'[s].pc \in Using
                   PROVE  th'[s].at \in DOMAIN held'
          BY DEF UsedInv
      <2>1. s # t /\ th'[s] = th[s]
            BY <1>2, <1>3 DEF OthersStand, Using
      <2>2. "at" \in DOMAIN th[s] /\ th[s].at \in DOMAIN held
            BY <2>1 DEF RegionInv, UsedInv, ThreadInv, RecordOK
      <2>3. held[th[s].at].pool # p
            BY <1>8, <2>2 DEF RegionInv, HeldInv
      <2> QED
          BY <1>5, <2>1, <2>2, <2>3
<1> QED
    BY <1>4, <1>6, <1>7, <1>11, <1>12 DEF RegionInv

LEMMA DestroyedRegions ==
  ASSUME RegionInv, NEW t \in Threads, Destroyed(t)
  PROVE  RegionInv'
<1>. PICK p : p = th[t].pool
     OBVIOUS
<1>1. /\ th[t].pc = "cleared" /\ given' = Without(given, Of(p, given))
      /\ live' = live /\ held' = held /\ Done(t)
      BY DEF Destroyed, At
<1>2. p \in Pools \ live
      BY <1>1 DEF RegionInv, ThreadInv, Clearing
<1>3. th'[t] = NoQuery /\ OthersStand(t) /\ DOMAIN th' = Threads
      BY <1>1, Becomes DEF Done, RegionInv
<1>4. ThreadInv' /\ ShapeInv' /\ th'[t].pc = "idle"
      <2>1. RecordOK(th'[t])
            BY <1>3 DEF RecordOK, NoQuery, Carrying, Using, Clearing, Freeing, Shaping, Shaped
      <2> QED
          BY <1>1, <1>3, <2>1, RecordsStay, ShapesStay DEF RegionInv, NoQuery, Clearing, Shaping, Shaped
<1>5. /\ GivenInv'
      /\ DOMAIN given' = DOMAIN given \ Of(p, given)
      /\ \A x \in DOMAIN given \ Of(p, given) : given'[x] = given[x]
      /\ \A q, b : b \in Land(q) /\ (\A x \in DOMAIN given \cap Of(p, given) :
                                        b \notin Bytes(x, given[x].size)) => b \in Land(q)'
      <2>. PICK S : S = Of(p, given)
           OBVIOUS
      <2> QED
          BY <1>1, LandShrinks DEF RegionInv
<1>. PICK S : S = Land(p)
     OBVIOUS
<1>6. \A x \in DOMAIN given \ S : x \in DOMAIN given' /\ given'[x] = given[x]
      <2> SUFFICES ASSUME NEW x \in DOMAIN given \ S
                   PROVE  given[x].pool # p
          BY <1>5 DEF Of
      <2> QED
          BY GivenIsLand DEF RegionInv
<1>7. \A b, q : b \in Land(q) /\ b \notin S => b \in Land(q)'
      <2> SUFFICES ASSUME NEW b, NEW q, b \in Land(q), b \notin S
                   PROVE  \A x \in DOMAIN given \cap Of(p, given) : b \notin Bytes(x, given[x].size)
          BY <1>5
      <2> QED
          BY LandTyped DEF Land, Of
<1>8. \A a \in DOMAIN held : S \cap Bytes(a, held[a].size) = {}
      <2> SUFFICES ASSUME NEW a \in DOMAIN held
                   PROVE  S \cap Bytes(a, held[a].size) = {}
          OBVIOUS
      <2>1. held[a].pool # p /\ Bytes(a, held[a].size) \subseteq Land(held[a].pool)
            BY <1>2 DEF RegionInv, HeldInv
      <2> QED
          BY <2>1, LandApart DEF RegionInv
<1>9. \A s \in Threads \ {t} : Carries(s) => S \cap Ground(s) = {}
      <2> SUFFICES ASSUME NEW s \in Threads \ {t}, Carries(s)
                   PROVE  S \cap Ground(s) = {}
          OBVIOUS
      <2>1. PoolBy(s) # p /\ Ground(s) \subseteq Land(PoolBy(s))
            BY <1>2 DEF RegionInv, CarriedInv
      <2> QED
          BY <2>1, LandApart DEF RegionInv
<1>10. Carries(t)' => CarriedBy(t)' /\ Ground(t)' \subseteq S
      BY <1>4 DEF Carries, Carrying, Freeing, Shaping, Shaped
<1>11. GivenInv' /\ held' = held /\ live' = live /\ th'[t].pc \notin Using
      BY <1>1, <1>4, <1>5 DEF Using
<1> QED
    BY <1>3, <1>4, <1>6, <1>7, <1>8, <1>9, <1>10, <1>11, BooksChange

LEMMA CreateRegions ==
  ASSUME RegionInv, NEW p \in Pools, Create(p)
  PROVE  RegionInv'
<1>1. /\ th' = th /\ given' = given /\ held' = held /\ live' = live \cup {p} /\ Busy(p) = {}
      BY DEF Create, upstream
<1>2. \A t \in Threads : th[t].pc \in Clearing => th[t].pool # p
      <2> SUFFICES ASSUME NEW t \in Threads, th[t].pc \in Clearing, th[t].pool = p
                   PROVE  FALSE
          OBVIOUS
      <2>1. "pool" \in DOMAIN th[t] /\ th[t].pc # "idle"
            BY DEF RegionInv, ThreadInv, RecordOK, Clearing
      <2> QED
          BY <1>1, <2>1 DEF Busy, Idle
<1>3. ThreadInv' /\ ShapeInv' /\ GivenInv' /\ UsedInv'
      BY <1>1, <1>2 DEF RegionInv, ThreadInv, ShapeInv, GivenInv, UsedInv
<1>4. HeldInv'
      BY <1>1 DEF RegionInv, HeldInv, Land
<1>5. ASSUME NEW s \in Threads, Carries(s)'
      PROVE  CarriedBy(s)' /\ Apart(s)'
      <2>1. Carries(s) /\ th'[s] = th[s]
            BY <1>1, <1>5 DEF Carries
      <2>2. PoolBy(s) \in live'
            BY <1>1, <2>1 DEF RegionInv, CarriedInv
      <2>3. \A b \in Ground(s) : \A q : b \in Land(q) => b \in Land(q)'
            BY <1>1 DEF Land
      <2>4. CarriedBy(s)'
            BY <1>1, <2>1, <2>2, <2>3, OthersKeep
      <2>5. Apart(s)
            BY <2>1, CarriedParts DEF RegionInv
      <2> QED
          BY <1>1, <2>4, <2>5 DEF Apart, Carries, Ground, SizeBy, Single
<1>6. CarriedInv' /\ HighInv'
      BY <1>5 DEF CarriedInv, HighInv, CarriedBy, Apart, Carries, Single, Carrying, Freeing,
                  Shaping, Shaped
<1> QED
    BY <1>3, <1>4, <1>6 DEF RegionInv

LEMMA ShapingRegions ==
  ASSUME RegionInv, NEW t \in Threads, Unlock(t) \/ Undo(t)
  PROVE  RegionInv'
<1>1. /\ th[t].pc \in {"unlock", "undo"} /\ Done(t) /\ given' = given /\ live' = live
      BY DEF Unlock, Undo, At, upstream
<1>2. Hold(IF th[t].pc = "unlock" THEN th[t].after ELSE th[t].before)
      BY DEF Unlock, Undo, At
<1> QED
    BY <1>1, <1>2, ShapeReturns

LEMMA NextRegions ==
  ASSUME RegionInv, [Next]_vars
  PROVE  RegionInv'
<1>1. CASE UNCHANGED vars
      <2> USE <1>1 DEF vars, upstream, index, objects, callers, RegionInv
      <2>1. GivenInv' /\ ThreadInv' /\ ShapeInv' /\ UsedInv'
            BY DEF GivenInv, ThreadInv, ShapeInv, UsedInv
      <2>2. HeldInv'
            BY DEF HeldInv, Land
      <2>3. CarriedInv'
            BY DEF CarriedInv, Carries, PoolBy, Single, Ground, SizeBy, Land
      <2>4. HighInv'
            BY DEF HighInv, HighGiven, PoolBy, Single
      <2> QED
          BY <2>1, <2>2, <2>3, <2>4
<1>2. ASSUME NEW t \in Threads,
             \/ \E p \in live : Destroy(t, p)
                                \/ \E n \in 1 .. MaxSize, o \in BOOLEAN : Alloc(t, p, n, o)
             \/ \E a \in DOMAIN held :
                  \/ Free(t, a) \/ GetHandle(t, a)
                  \/ \E first \in 1 .. MaxSize : Split(t, a, first)
                  \/ \E b \in DOMAIN held : Merge(t, a, b)
                  \/ \E ptr \in Bytes(a, held[a].size) : Ask(t, a, ptr)
      PROVE  RegionInv'
      BY <1>2, DestroyRegions, AllocRegions, FreeRegions, SplitRegions, MergeRegions, QueriesQuiet
<1>3. ASSUME NEW t \in Threads,
             \/ Track(t) \/ Uncache(t) \/ PutCached(t) \/ Give(t)
             \/ Lock(t) \/ Compare(t) \/ ShapeUpstream(t) \/ AddHigh(t) \/ Update(t)
             \/ Retire(t) \/ RemoveHigh(t) \/ Unlock(t) \/ Undo(t)
             \/ Found(t) \/ ReadSize(t) \/ ReadInfo(t) \/ Return(t)
             \/ Look(t) \/ GetUpstream(t) \/ Insert(t) \/ PutBack(t)
             \/ NextKey(t) \/ Match(t) \/ DropEntry(t) \/ GoOn(t) \/ Destroyed(t)
      PROVE  RegionInv'
      BY <1>3, TrackRegions, CarryingQuiet, GiveRegions, UpstreamRegions, ShapingRegions,
         QueriesQuiet, DestroyedRegions
<1>4. CASE \E p \in Pools : Create(p)
      BY <1>4, CreateRegions
<1> QED
    BY <1>1, <1>2, <1>3, <1>4 DEF Next

(* Two pools, and two threads that work for one pool, never have the same     *)
(* memory in their hands: regions that are held, freed, split or merged lie  *)
(* in what the upstream provider of their pool has given, apart from each    *)
(* other, whatever calls fail and whatever pools are destroyed.              *)
THEOREM RegionsApart == Spec => []RegionInv
BY InitRegions, NextRegions, PTL DEF Spec

-----------------------------------------------------------------------------
(* The IPC handles.                                                        *)

(* A thread that has a handle in its hands, to cache or to put back. *)
Counting == {"put", "insert", "putAndLook", "putAndFail"}

Counted(t, h) ==
  \/ At(t, "put") /\ h = <<th[t].region.pool, th[t].at>>
  \/ th[t].pc \in {"insert", "putAndLook", "putAndFail"} /\ h = Cached(t)

CountOf(h) == {t \in Threads : Counted(t, h)}

HandleInv ==
  /\ cache \subseteq Pools \X Addresses
  /\ handles \in [Pools \X Addresses -> Nat]
  /\ \A h \in Pools \X Addresses :
       IF h[1] \in live
       THEN handles[h] = (IF h \in cache THEN 1 ELSE 0) + Cardinality(CountOf(h))
       ELSE /\ h \notin cache
            /\ handles[h] = 0 \/ \E t \in Threads : th[t].pc \in Clearing /\ th[t].pool = h[1]

LEMMA CountFinite ==
  ASSUME NEW h
  PROVE  /\ IsFiniteSet(CountOf(h)) /\ Cardinality(CountOf(h)) \in Nat
         /\ \A t \in CountOf(h) : /\ Cardinality(CountOf(h) \ {t}) = Cardinality(CountOf(h)) - 1
                                  /\ Cardinality(CountOf(h)) # 0
         /\ \A t : t \notin CountOf(h) => Cardinality(CountOf(h) \cup {t}) = Cardinality(CountOf(h)) + 1
<1>1. IsFiniteSet(CountOf(h))
      BY TrackingAssumption, FS_Subset DEF CountOf
<1> QED
    BY <1>1, FS_CardinalityType, FS_AddElement, FS_RemoveElement, FS_EmptySet

(* A handle is counted for a region of a live pool. *)
LEMMA CountedLive ==
  ASSUME RegionInv, NEW t \in Threads, NEW h, Counted(t, h)
  PROVE  h \in Pools \X Addresses /\ h[1] \in live
<1>1. CASE At(t, "put") /\ h = <<th[t].region.pool, th[t].at>>
      <2>1. Single(t)
            BY <1>1 DEF Single, At, Freeing
      <2> QED
          BY <1>1, <2>1, SingleFacts DEF CarriedBy, RegionInv, ThreadInv, GivenInv
<1>2. CASE th[t].pc \in {"insert", "putAndLook", "putAndFail"} /\ h = Cached(t)
      BY <1>2 DEF Cached, RegionInv, UsedInv, HeldInv, ThreadInv, GivenInv, Using
<1> QED
    BY <1>1, <1>2 DEF Counted

(* The region whose handle a thread asks for keeps its pool. *)
LEMMA CachedStays ==
  ASSUME RegionInv, RegionInv', held' = held \/ given' = given,
         NEW s \in Threads, th'[s] = th[s], th[s].pc \in Using
  PROVE  Cached(s)' = Cached(s)
<1>1. th[s].at \in DOMAIN held /\ th[s].at \in DOMAIN held'
      BY DEF RegionInv, UsedInv
<1>2. CASE held' = held
      BY <1>2 DEF Cached
<1>3. CASE given' = given
      <2>1. held'[th[s].at].pool = held[th[s].at].pool
            BY <1>1, <1>3 DEF RegionInv, HeldInv
      <2> QED
          BY <2>1 DEF Cached
<1> QED
    BY <1>2, <1>3

LEMMA CountStays ==
  ASSUME RegionInv, RegionInv', held' = held \/ given' = given,
         NEW s \in Threads, th'[s] = th[s], NEW h
  PROVE  Counted(s, h)' <=> Counted(s, h)
<1>1. CASE th[s].pc \in Using
      BY <1>1, CachedStays DEF Counted, At
<1>2. CASE th[s].pc \notin Using
      BY <1>2 DEF Counted, At, Using
<1> QED
    BY <1>1, <1>2

(* The handles of the other regions, and the threads on their way. *)
LEMMA OtherCounts ==
  ASSUME RegionInv, RegionInv', held' = held \/ given' = given,
         NEW t \in Threads, OthersStand(t), NEW h
  PROVE  /\ Counted(t, h) /\ ~Counted(t, h)' => CountOf(h)' = CountOf(h) \ {t} /\ t \in CountOf(h)
         /\ ~Counted(t, h) /\ Counted(t, h)' => CountOf(h)' = CountOf(h) \cup {t} /\ t \notin CountOf(h)
         /\ (Counted(t, h) <=> Counted(t, h)') => CountOf(h)' = CountOf(h)
<1>1. ASSUME NEW s \in Threads \ {t}
      PROVE  Counted(s, h)' <=> Counted(s, h)
      BY CountStays DEF OthersStand
<1> QED
    BY <1>1 DEF CountOf

(* The clearing of a pool goes on. *)
Clears(t) == th[t].pc \in Clearing => th'[t].pc \in Clearing /\ th'[t].pool = th[t].pool

LEMMA HandlesKept ==
  ASSUME RegionInv, RegionInv', HandleInv, UNCHANGED <<handles, cache, live>>,
         held' = held \/ given' = given, NEW t \in Threads, OthersStand(t), Clears(t),
         th[t].pc \notin Counting, th'[t].pc \notin Counting
  PROVE  HandleInv'
<1>1. ASSUME NEW h
      PROVE  CountOf(h)' = CountOf(h)
      <2>1. ~Counted(t, h) /\ ~Counted(t, h)'
            BY DEF Counted, Counting, At
      <2> QED
          BY <2>1, OtherCounts
<1> QED
    BY <1>1 DEF HandleInv, Clears, OthersStand

(* A handle passes between the upstream provider, a thread and the cache.    *)
LEMMA HandlePasses ==
  ASSUME RegionInv, RegionInv', HandleInv, live' = live,
         held' = held \/ given' = given, NEW t \in Threads, OthersStand(t), Clears(t),
         NEW h \in Pools \X Addresses,
         h[1] \in live, \A g : g # h => ~Counted(t, g) /\ ~Counted(t, g)',
         NEW n, handles' = [handles EXCEPT ![h] = n],
         cache' \in {cache, cache \cup {h}, cache \ {h}},
         n \in Int, n + (IF h \in cache THEN 1 ELSE 0) + (IF Counted(t, h) THEN 1 ELSE 0)
           = handles[h] + (IF h \in cache' THEN 1 ELSE 0) + (IF Counted(t, h)' THEN 1 ELSE 0)
  PROVE  HandleInv'
<1>1. ASSUME NEW g, g # h
      PROVE  CountOf(g)' = CountOf(g) /\ (g \in cache' <=> g \in cache)
      BY <1>1, OtherCounts
<1>2. /\ handles[h] \in Nat /\ Cardinality(CountOf(h)) \in Nat
      /\ handles[h] = (IF h \in cache THEN 1 ELSE 0) + Cardinality(CountOf(h))
      BY CountFinite DEF HandleInv
<1>3. Cardinality(CountOf(h)') = Cardinality(CountOf(h))
                                  + (IF Counted(t, h)' THEN 1 ELSE 0) - (IF Counted(t, h) THEN 1 ELSE 0)
      <2>1. CASE Counted(t, h) <=> Counted(t, h)'
            <3>1. CountOf(h)' = CountOf(h)
                  BY <2>1, OtherCounts
            <3> QED
                BY <2>1, <3>1, <1>2
      <2>2. CASE Counted(t, h) /\ ~Counted(t, h)'
            <3>1. CountOf(h)' = CountOf(h) \ {t} /\ t \in CountOf(h)
                  BY <2>2, OtherCounts
            <3> QED
                BY <2>2, <3>1, <1>2, CountFinite
      <2>3. CASE ~Counted(t, h) /\ Counted(t, h)'
            <3>1. CountOf(h)' = CountOf(h) \cup {t} /\ t \notin CountOf(h)
                  BY <2>3, OtherCounts
            <3> QED
                BY <2>3, <3>1, <1>2, CountFinite
      <2> QED
          BY <2>1, <2>2, <2>3
<1>4. Cardinality(CountOf(h)') \in Nat
      <2>1. IsFiniteSet(CountOf(h)')
            BY TrackingAssumption, FS_Subset DEF CountOf
      <2> QED
          BY <2>1, FS_CardinalityType
<1>5. /\ handles'[h] = (IF h \in cache' THEN 1 ELSE 0) + Cardinality(CountOf(h)')
      /\ handles'[h] \in Nat
      <2>1. handles'[h] = n
            BY DEF HandleInv
      <2>2. n = handles[h] + (IF h \in cache' THEN 1 ELSE 0) + (IF Counted(t, h)' THEN 1 ELSE 0)
                  - (IF h \in cache THEN 1 ELSE 0) - (IF Counted(t, h) THEN 1 ELSE 0)
            BY <1>2
      <2> QED
          BY <1>2, <1>3, <1>4, <2>1, <2>2
<1>6. cache' \subseteq Pools \X Addresses
      BY DEF HandleInv
<1>7. handles' \in [Pools \X Addresses -> Nat]
      <2>1. n \in Nat
            BY <1>5 DEF HandleInv
      <2> QED
          BY <2>1 DEF HandleInv
<1>8. ASSUME NEW g \in Pools \X Addresses
      PROVE  IF g[1] \in live'
             THEN handles'[g] = (IF g \in cache' THEN 1 ELSE 0) + Cardinality(CountOf(g)')
             ELSE /\ g \notin cache'
                  /\ handles'[g] = 0 \/ \E s \in Threads : th'[s].pc \in Clearing /\ th'[s].pool = g[1]
      <2>1. CASE g = h
            BY <1>5, <2>1
      <2>2. CASE g # h
            <3>1. CountOf(g)' = CountOf(g) /\ (g \in cache' <=> g \in cache) /\ handles'[g] = handles[g]
                  BY <1>1, <2>2
            <3> QED
                BY <3>1 DEF HandleInv, Clears, OthersStand
      <2> QED
          BY <2>1, <2>2
<1> QED
    BY <1>6, <1>7, <1>8 DEF HandleInv

(* The pools come and go. *)
LEMMA HandlesOfDestroyed ==
  ASSUME RegionInv, RegionInv', HandleInv, NEW t \in Threads, NEW p \in live, Destroy(t, p)
  PROVE  HandleInv'
<1>1. /\ th[t].pc = "idle" /\ live' = live \ {p} /\ given' = given /\ handles' = handles
      /\ cache' = {c \in cache : c[1] # p}
      /\ Become(t, [pc |-> "seek", pool |-> p, overtaken |-> FALSE])
      BY DEF Destroy, Idle, upstream
<1>2. OthersStand(t) /\ th'[t].pc = "seek" /\ th'[t].pool = p
      BY <1>1, Becomes DEF RegionInv
<1>3. ASSUME NEW h
      PROVE  CountOf(h)' = CountOf(h)
      <2>1. ~Counted(t, h) /\ ~Counted(t, h)'
            BY <1>1, <1>2 DEF Counted, At
      <2> QED
          BY <1>1, <1>2, <2>1, OtherCounts
<1>4. ASSUME NEW h \in Pools \X Addresses
      PROVE  IF h[1] \in live'
             THEN handles'[h] = (IF h \in cache' THEN 1 ELSE 0) + Cardinality(CountOf(h)')
             ELSE /\ h \notin cache'
                  /\ handles'[h] = 0 \/ \E s \in Threads : th'[s].pc \in Clearing /\ th'[s].pool = h[1]
      <2>1. CASE h[1] = p
            BY <1>1, <1>2, <2>1 DEF Clearing
      <2>2. CASE h[1] # p
            <3>1. (h \in cache' <=> h \in cache) /\ (h[1] \in live' <=> h[1] \in live)
                  BY <1>1, <2>2
            <3>2. \A s \in Threads : th[s].pc \in Clearing => th'[s] = th[s]
                  BY <1>1, <1>2 DEF OthersStand, Clearing
            <3> QED
                BY <1>1, <1>3, <3>1, <3>2 DEF HandleInv
      <2> QED
          BY <2>1, <2>2
<1> QED
    BY <1>1, <1>4 DEF HandleInv

LEMMA HandlesOfCleared ==
  ASSUME RegionInv, RegionInv', HandleInv, NEW t \in Threads, Destroyed(t)
  PROVE  HandleInv'
<1>. PICK p : p = th[t].pool
     OBVIOUS
<1>1. /\ th[t].pc = "cleared" /\ live' = live /\ held' = held /\ cache' = cache /\ Done(t)
      /\ handles' = [h \in DOMAIN handles |-> IF h[1] = p THEN 0 ELSE handles[h]]
      BY DEF Destroyed, At
<1>2. p \notin live
      BY <1>1 DEF RegionInv, ThreadInv, Clearing
<1>3. OthersStand(t) /\ th'[t].pc = "idle"
      BY <1>1, Becomes DEF RegionInv, Done, NoQuery
<1>4. ASSUME NEW h
      PROVE  CountOf(h)' = CountOf(h)
      <2>1. ~Counted(t, h) /\ ~Counted(t, h)'
            BY <1>1, <1>3 DEF Counted, At
      <2> QED
          BY <1>1, <1>3, <2>1, OtherCounts
<1>5. handles' \in [Pools \X Addresses -> Nat]
      BY <1>1 DEF HandleInv
<1>6. ASSUME NEW h \in Pools \X Addresses
      PROVE  IF h[1] \in live'
             THEN handles'[h] = (IF h \in cache' THEN 1 ELSE 0) + Cardinality(CountOf(h)')
             ELSE /\ h \notin cache'
                  /\ handles'[h] = 0 \/ \E s \in Threads : th'[s].pc \in Clearing /\ th'[s].pool = h[1]
      <2>1. CASE h[1] = p
            BY <1>1, <1>2, <2>1 DEF HandleInv
      <2>2. CASE h[1] # p
            <3>1. handles'[h] = handles[h] /\ CountOf(h)' = CountOf(h)
                  BY <1>1, <1>4, <2>2 DEF HandleInv
            <3>2. \A s \in Threads : th[s].pool = h[1] => th'[s] = th[s]
                  BY <1>3, <2>2 DEF OthersStand
            <3> QED
                BY <1>1, <3>1, <3>2 DEF HandleInv
      <2> QED
          BY <2>1, <2>2
<1> QED
    BY <1>1, <1>5, <1>6 DEF HandleInv

LEMMA HandlesOfCreated ==
  ASSUME RegionInv, RegionInv', HandleInv, NEW p \in Pools, Create(p)
  PROVE  HandleInv'
<1>1. /\ th' = th /\ held' = held /\ handles' = handles /\ cache' = cache
      /\ live' = live \cup {p} /\ p \notin live /\ Busy(p) = {}
      BY DEF Create, upstream
<1>2. \A s \in Threads : th[s].pc \in Clearing => th[s].pool # p
      BY <1>1 DEF RegionInv, ThreadInv, Clearing
<1>3. \A h : CountOf(h)' = CountOf(h)
      BY <1>1 DEF CountOf, Counted, At, Cached
<1>4. ASSUME NEW h \in Pools \X Addresses, h[1] = p
      PROVE  handles[h] = 0 /\ h \notin cache /\ Cardinality(CountOf(h)) = 0
      <2>1. h \notin cache /\ handles[h] = 0
            BY <1>1, <1>2, <1>4 DEF HandleInv
      <2>2. CountOf(h) = {}
            BY <1>1, <1>4, CountedLive DEF CountOf
      <2> QED
          BY <2>1, <2>2, FS_EmptySet
<1> QED
    BY <1>1, <1>3, <1>4 DEF HandleInv

(* The steps that have nothing to do with handles. *)
LEMMA HandlesAside ==
  ASSUME RegionInv, RegionInv', HandleInv, NEW t \in Threads,
         \/ \E p \in live, n \in 1 .. MaxSize, o \in BOOLEAN : Alloc(t, p, n, o)
         \/ \E a \in DOMAIN held :
              \/ Free(t, a) \/ GetHandle(t, a)
              \/ \E first \in 1 .. MaxSize : Split(t, a, first)
              \/ \E b \in DOMAIN held : Merge(t, a, b)
              \/ \E ptr \in Bytes(a, held[a].size) : Ask(t, a, ptr)
         \/ Track(t) \/ Give(t) \/ Lock(t) \/ Compare(t) \/ ShapeUpstream(t) \/ AddHigh(t)
         \/ Update(t) \/ Retire(t) \/ RemoveHigh(t) \/ Unlock(t) \/ Undo(t)
         \/ Found(t) \/ ReadSize(t) \/ ReadInfo(t) \/ Return(t)
         \/ NextKey(t) \/ Match(t) \/ DropEntry(t) \/ GoOn(t)
  PROVE  HandleInv'
<1> USE DEF upstream, index, objects, callers, At, Idle
<1>1. RecordOK(th[t]) /\ ThreadInv
      BY DEF RegionInv, ThreadInv
<1>2. ASSUME OthersStand(t), Clears(t), th[t].pc \notin Counting, th'[t].pc \notin Counting,
             UNCHANGED <<handles, cache, live>>, held' = held \/ given' = given
      PROVE  HandleInv'
      BY <1>2, HandlesKept
<1>3. ASSUME NEW r, Become(t, r), r.pc \notin Counting \cup Clearing,
             th[t].pc \notin Counting \cup Clearing,
             UNCHANGED <<handles, cache, live>>, held' = held \/ given' = given
      PROVE  HandleInv'
      BY <1>1, <1>2, <1>3, Becomes DEF Clears
<1>4. ASSUME NEW pc, Goto(t, pc), pc \notin Counting, th[t].pc \notin Counting,
             th[t].pc \in Clearing => pc \in Clearing,
             UNCHANGED <<handles, cache, live>>, held' = held \/ given' = given
      PROVE  HandleInv'
      BY <1>1, <1>2, <1>4, Goes DEF Clears
<1>5. ASSUME NEW r, Become(t, r), th[t].pc \in Clearing, r.pc \in Clearing, r.pool = th[t].pool,
             UNCHANGED <<handles, cache, live>>, held' = held \/ given' = given
      PROVE  HandleInv'
      BY <1>1, <1>2, <1>5, Becomes DEF Clears, Clearing, Counting
<1> USE DEF Counting, Clearing
<1>6. CASE \E p \in live, n \in 1 .. MaxSize, o \in BOOLEAN : Alloc(t, p, n, o)
      <2>1. PICK p \in live, n \in 1 .. MaxSize, o \in BOOLEAN : Alloc(t, p, n, o)
            BY <1>6
      <2>2. PICK a : Become(t, [pc |-> "track", at |-> a, region |-> Region(p, n, o)])
            BY <2>1 DEF Alloc
      <2> QED
          BY <1>3, <2>1, <2>2 DEF Alloc
<1>7. ASSUME NEW a \in DOMAIN held, Free(t, a)
      PROVE  HandleInv'
      BY <1>3, <1>7 DEF Free
<1>8. ASSUME NEW a \in DOMAIN held, GetHandle(t, a)
      PROVE  HandleInv'
      BY <1>3, <1>8 DEF GetHandle
<1>9. ASSUME NEW op, NEW a, NEW b, NEW regions, NEW shaped, Reshape(t, op, a, b, regions, shaped)
      PROVE  HandleInv'
      <2>1. PICK v : Become(t, [pc |-> "lock", op |-> op, at |-> a, high |-> b, new |-> v,
                                old |-> Null, before |-> regions, after |-> shaped])
            BY <1>9 DEF Reshape
      <2> QED
          BY <1>3, <1>9, <2>1 DEF Reshape
<1>10. ASSUME NEW a \in DOMAIN held, NEW ptr, Ask(t, a, ptr)
      PROVE  HandleInv'
      BY <1>3, <1>10 DEF Ask
<1>11. CASE Track(t)
      <2>1. held' = held \/ given' = given
            BY <1>11 DEF Track
      <2> QED
          BY <1>3, <1>11, <2>1 DEF Track, Done, NoQuery
<1>12. CASE Give(t)
      <2>1. held' = held \/ given' = given
            BY <1>12 DEF Give
      <2>2. PICK r : Become(t, r) /\ r.pc \in {"idle", "track"}
            BY <1>12 DEF Give, Done, NoQuery
      <2> QED
          BY <1>3, <1>12, <2>1, <2>2 DEF Give
<1>13. CASE Lock(t)
      BY <1>4, <1>13 DEF Lock
<1>14. CASE Compare(t)
      <2>1. CASE Goto(t, "undo")
            BY <1>4, <1>14, <2>1 DEF Compare
      <2>2. ASSUME NEW v, Become(t, [th[t] EXCEPT !.pc = "upstream", !.old = v])
            PROVE  HandleInv'
            <3>1. [th[t] EXCEPT !.pc = "upstream", !.old = v].pc = "upstream"
                  BY <1>1 DEF RecordOK
            <3> QED
                BY <1>3, <1>14, <2>2, <3>1 DEF Compare
      <2> QED
          BY <1>14, <2>1, <2>2 DEF Compare
<1>15. CASE ShapeUpstream(t)
      BY <1>4, <1>15 DEF ShapeUpstream
<1>16. CASE AddHigh(t)
      BY <1>4, <1>16 DEF AddHigh
<1>17. CASE Update(t)
      BY <1>3, <1>17 DEF Update
<1>18. CASE Retire(t)
      BY <1>4, <1>18 DEF Retire
<1>19. CASE RemoveHigh(t)
      BY <1>4, <1>19 DEF RemoveHigh
<1>20. CASE Unlock(t) \/ Undo(t)
      BY <1>3, <1>20 DEF Unlock, Undo, Done, NoQuery
<1>21. CASE Found(t)
      <2>1. PICK r : Become(t, r) /\ r.pc \in {"answer", "size"}
            BY <1>21 DEF Found, Answered
      <2> QED
          BY <1>3, <1>21, <2>1 DEF Found
<1>22. CASE ReadSize(t)
      BY <1>3, <1>4, <1>22 DEF ReadSize, Answered
<1>23. CASE ReadInfo(t)
      BY <1>3, <1>23 DEF ReadInfo, Answered
<1>24. CASE Return(t)
      BY <1>3, <1>24 DEF Return, Done, NoQuery
<1>25. CASE NextKey(t)
      <2>1. PICK r : Become(t, r) /\ r.pc \in {"cleared", "match"} /\ r.pool = th[t].pool
            BY <1>25 DEF NextKey
      <2> QED
          BY <1>5, <1>25, <2>1 DEF NextKey
<1>26. CASE Match(t)
      BY <1>4, <1>5, <1>26 DEF Match, SeekOn
<1>27. CASE DropEntry(t)
      BY <1>4, <1>27 DEF DropEntry
<1>28. CASE GoOn(t)
      BY <1>5, <1>28 DEF GoOn, SeekOn
<1>29. ASSUME NEW a \in DOMAIN held,
              \/ \E first \in 1 .. MaxSize : Split(t, a, first)
              \/ \E b \in DOMAIN held : Merge(t, a, b)
      PROVE  HandleInv'
      BY <1>9, <1>29 DEF Split, Merge
<1> QED
    BY <1>6, <1>7, <1>8, <1>10, <1>11, <1>12, <1>13, <1>14, <1>15, <1>16, <1>17, <1>18, <1>19,
       <1>20, <1>21, <1>22, <1>23, <1>24, <1>25, <1>26, <1>27, <1>28, <1>29

(* The steps that get a handle, cache it or put it back. *)
LEMMA HandleSteps ==
  ASSUME RegionInv, RegionInv', HandleInv, NEW t \in Threads,
         \/ Uncache(t) \/ PutCached(t) \/ Look(t) \/ GetUpstream(t) \/ Insert(t) \/ PutBack(t)
  PROVE  HandleInv'
<1> USE DEF upstream, index, objects, callers, At
<1>1. RecordOK(th[t]) /\ ThreadInv
      BY DEF RegionInv, ThreadInv
<1>2. live' = live /\ held' = held /\ given' = given
      BY DEF Uncache, PutCached, Look, GetUpstream, Insert, PutBack
<1>3. ASSUME NEW pc, Goto(t, pc), th[t].pc \notin Clearing
      PROVE  OthersStand(t) /\ Clears(t) /\ th'[t].pc = pc
      BY <1>1, <1>3, Goes DEF Clears
<1>4. ASSUME Done(t), th[t].pc \notin Clearing
      PROVE  OthersStand(t) /\ Clears(t) /\ th'[t].pc = "idle"
      BY <1>1, <1>4, Becomes DEF Clears, Done, NoQuery
<1>. PICK mine : mine = <<th[t].region.pool, th[t].at>>
     OBVIOUS
<1>. PICK asked : asked = Cached(t)
     OBVIOUS
<1>5. CASE Uncache(t)
      <2>1. th[t].pc = "uncache" /\ handles' = handles
            BY <1>5 DEF Uncache
      <2>2. Single(t)
            BY <2>1 DEF Single, Freeing
      <2>3. mine \in Pools \X Addresses /\ mine[1] \in live
            BY <2>2, SingleFacts DEF CarriedBy, RegionInv, ThreadInv, GivenInv
      <2>4. /\ OthersStand(t) /\ Clears(t)
            /\ th'[t].pc = (IF mine \in cache THEN "put" ELSE "give")
            BY <1>3, <1>5, <2>1 DEF Uncache, Clearing
      <2>5. th'[t].region = th[t].region /\ th'[t].at = th[t].at
            BY <1>1, <1>5, <2>1, Goes DEF Uncache, Carrying, Freeing
      <2>6. \A g : ~Counted(t, g)
            BY <2>1 DEF Counted
      <2>7. \A g : Counted(t, g)' <=> mine \in cache /\ g = mine
            BY <2>4, <2>5 DEF Counted
      <2>8. cache' = cache \ {mine} /\ handles' = [handles EXCEPT ![mine] = handles[mine]]
            BY <1>5, <2>1, <2>3 DEF Uncache, HandleInv
      <2>9. handles[mine] \in Int /\ cache' \in {cache, cache \cup {mine}, cache \ {mine}}
            BY <2>3, <2>8 DEF HandleInv
      <2>10. handles[mine] + (IF mine \in cache THEN 1 ELSE 0) + (IF Counted(t, mine) THEN 1 ELSE 0)
              = handles[mine] + (IF mine \in cache' THEN 1 ELSE 0) + (IF Counted(t, mine)' THEN 1 ELSE 0)
            <3>1. CASE mine \in cache
                  BY <2>6, <2>7, <2>8, <2>9, <3>1
            <3>2. CASE mine \notin cache
                  BY <2>6, <2>7, <2>8, <2>9, <3>2
            <3> QED
                BY <3>1, <3>2
      <2>11. \A g : g # mine => ~Counted(t, g) /\ ~Counted(t, g)'
            BY <2>6, <2>7
      <2> QED
          BY <1>2, <2>3, <2>4, <2>8, <2>9, <2>10, <2>11, HandlePasses
<1>6. CASE PutCached(t)
      <2>1. th[t].pc = "put" /\ cache' = cache /\ handles' = [handles EXCEPT ![mine] = handles[mine] - 1]
            BY <1>6 DEF PutCached, Put
      <2>2. Counted(t, mine)
            BY <2>1 DEF Counted
      <2>3. mine \in Pools \X Addresses /\ mine[1] \in live
            BY <2>2, CountedLive
      <2>4. OthersStand(t) /\ Clears(t) /\ th'[t].pc = "give"
            BY <1>3, <1>6, <2>1 DEF PutCached, Clearing
      <2>5. \A g : Counted(t, g) <=> g = mine
            BY <2>1 DEF Counted
      <2>6. \A g : ~Counted(t, g)'
            BY <2>4 DEF Counted
      <2>7. handles[mine] \in Nat /\ handles[mine] - 1 \in Int
            BY <2>3 DEF HandleInv
      <2>8. handles[mine] - 1 + (IF mine \in cache THEN 1 ELSE 0) + (IF Counted(t, mine) THEN 1 ELSE 0)
              = handles[mine] + (IF mine \in cache' THEN 1 ELSE 0) + (IF Counted(t, mine)' THEN 1 ELSE 0)
            BY <2>1, <2>5, <2>6, <2>7
      <2>9. \A g : g # mine => ~Counted(t, g) /\ ~Counted(t, g)'
            BY <2>5, <2>6
      <2> QED
          BY <1>2, <2>1, <2>3, <2>4, <2>7, <2>8, <2>9, HandlePasses
<1>7. CASE Look(t)
      <2>1. th[t].pc = "look" /\ handles' = handles /\ cache' = cache
            BY <1>7 DEF Look
      <2>2. OthersStand(t) /\ Clears(t) /\ th'[t].pc \in {"idle", "get"}
            BY <1>3, <1>4, <1>7, <2>1 DEF Look, Clearing
      <2> QED
          BY <1>2, <2>1, <2>2, HandlesKept DEF Counting
<1>8. CASE th[t].pc \in {"get", "insert", "putAndLook", "putAndFail"}
      <2>1. asked \in Pools \X Addresses /\ asked[1] \in live
            BY <1>8 DEF Cached, Using, RegionInv, UsedInv, HeldInv, ThreadInv, GivenInv
      <2>2. \A g : Counted(t, g) <=> th[t].pc # "get" /\ g = asked
            BY <1>8 DEF Counted
      <2>3. ASSUME NEW pc, Goto(t, pc)
            PROVE  /\ OthersStand(t) /\ Clears(t) /\ th'[t].pc = pc
                   /\ \A g : Counted(t, g)' => pc = "put" \/ g = asked
                   /\ pc \in {"insert", "putAndLook", "putAndFail"} => Counted(t, asked)'
                   /\ pc = "look" => ~Counted(t, asked)'
            <3>1. th'[t].at = th[t].at
                  BY <1>1, <1>8, <2>3, Goes DEF Using
            <3>2. Cached(t)' = asked
                  BY <1>2, <3>1 DEF Cached
            <3> QED
                BY <1>3, <1>8, <2>3, <3>2 DEF Clearing, Counted
      <2>4. ASSUME Done(t)
            PROVE  OthersStand(t) /\ Clears(t) /\ \A g : ~Counted(t, g)'
            BY <1>4, <1>8, <2>4 DEF Clearing, Counted
      <2>5. /\ handles = [handles EXCEPT ![asked] = handles[asked]]
            /\ handles[asked] \in Nat /\ handles[asked] \in Int /\ handles[asked] + 1 \in Int /\ handles[asked] - 1 \in Int
            BY <2>1 DEF HandleInv
      <2>6. CASE GetUpstream(t)
            <3>1. th[t].pc = "get" /\ cache' = cache
                  BY <2>6 DEF GetUpstream
            <3>2. CASE handles' = [handles EXCEPT ![asked] = @ + 1] /\ Goto(t, "insert")
                  <4>1. handles' = [handles EXCEPT ![asked] = handles[asked] + 1]
                        BY <3>2
                  <4>2. /\ OthersStand(t) /\ Clears(t) /\ Counted(t, asked)' /\ ~Counted(t, asked)
                        /\ \A g : g # asked => ~Counted(t, g) /\ ~Counted(t, g)'
                        BY <2>2, <2>3, <3>1, <3>2
                  <4>3. handles[asked] + 1 + (IF asked \in cache THEN 1 ELSE 0)
                              + (IF Counted(t, asked) THEN 1 ELSE 0)
                          = handles[asked] + (IF asked \in cache' THEN 1 ELSE 0)
                              + (IF Counted(t, asked)' THEN 1 ELSE 0)
                        BY <2>5, <3>1, <4>2
                  <4> QED
                      BY <1>2, <2>1, <2>5, <3>1, <4>1, <4>2, <4>3, HandlePasses
            <3>3. CASE Done(t) /\ handles' = handles
                  <4>1. OthersStand(t) /\ Clears(t) /\ th'[t].pc = "idle"
                        BY <1>4, <3>1, <3>3 DEF Clearing
                  <4> QED
                      BY <1>2, <3>1, <3>3, <4>1, HandlesKept DEF Counting
            <3> QED
                BY <2>6, <3>2, <3>3 DEF GetUpstream
      <2>7. CASE Insert(t)
            <3>1. th[t].pc = "insert" /\ Counted(t, asked) /\ handles' = [handles EXCEPT ![asked] = handles[asked]]
                  BY <2>2, <2>5, <2>7 DEF Insert
            <3>2. CASE asked \notin cache /\ cache' = cache \cup {asked} /\ Done(t)
                  <4>1. handles[asked] + (IF asked \in cache THEN 1 ELSE 0)
                              + (IF Counted(t, asked) THEN 1 ELSE 0)
                          = handles[asked] + (IF asked \in cache' THEN 1 ELSE 0)
                              + (IF Counted(t, asked)' THEN 1 ELSE 0)
                        BY <2>4, <2>5, <3>1, <3>2
                  <4>2. \A g : g # asked => ~Counted(t, g) /\ ~Counted(t, g)'
                        BY <2>2, <2>4, <3>2
                  <4> QED
                      BY <1>2, <2>1, <2>4, <2>5, <3>1, <3>2, <4>1, <4>2, HandlePasses
            <3>3. ASSUME NEW pc \in {"putAndLook", "putAndFail"}, Goto(t, pc), cache' = cache
                  PROVE  HandleInv'
                  <4>1. /\ OthersStand(t) /\ Clears(t) /\ Counted(t, asked)'
                        /\ \A g : g # asked => ~Counted(t, g) /\ ~Counted(t, g)'
                        BY <2>2, <2>3, <3>3
                  <4>2. handles[asked] + (IF asked \in cache THEN 1 ELSE 0)
                              + (IF Counted(t, asked) THEN 1 ELSE 0)
                          = handles[asked] + (IF asked \in cache' THEN 1 ELSE 0)
                              + (IF Counted(t, asked)' THEN 1 ELSE 0)
                        BY <2>5, <3>1, <3>3, <4>1
                  <4> QED
                      BY <1>2, <2>1, <2>5, <3>1, <3>3, <4>1, <4>2, HandlePasses
            <3> QED
                BY <2>7, <3>2, <3>3 DEF Insert
      <2>8. CASE PutBack(t)
            <3>1. /\ Counted(t, asked) /\ cache' = cache
                  /\ handles' = [handles EXCEPT ![asked] = handles[asked] - 1]
                  BY <2>2, <2>8 DEF PutBack, Put, Cached
            <3>2. /\ OthersStand(t) /\ Clears(t) /\ ~Counted(t, asked)'
                  /\ \A g : g # asked => ~Counted(t, g) /\ ~Counted(t, g)'
                  BY <2>2, <2>3, <2>4, <2>8 DEF PutBack
            <3>3. handles[asked] - 1 + (IF asked \in cache THEN 1 ELSE 0)
                        + (IF Counted(t, asked) THEN 1 ELSE 0)
                    = handles[asked] + (IF asked \in cache' THEN 1 ELSE 0)
                        + (IF Counted(t, asked)' THEN 1 ELSE 0)
                  BY <2>5, <3>1, <3>2
            <3> QED
                BY <1>2, <2>1, <2>5, <3>1, <3>2, <3>3, HandlePasses
      <2> QED
          BY <1>8, <2>6, <2>7, <2>8 DEF Uncache, PutCached, Look
<1> QED
    BY <1>5, <1>6, <1>7, <1>8 DEF GetUpstream, Insert, PutBack

LEMMA InitHandles == Init => HandleInv
<1> SUFFICES ASSUME Init PROVE HandleInv
    OBVIOUS
<1>1. \A h : CountOf(h) = {}
      BY DEF Init, CountOf, Counted, At, NoQuery
<1>2. \A h : Cardinality(CountOf(h)) = 0
      BY <1>1, FS_EmptySet
<1> QED
    BY <1>2 DEF Init, HandleInv

LEMMA NextHandles ==
  ASSUME RegionInv, RegionInv', HandleInv, [Next]_vars
  PROVE  HandleInv'
<1>1. CASE UNCHANGED vars
      <2>1. \A h : CountOf(h)' = CountOf(h)
            BY <1>1 DEF vars, upstream, callers, CountOf, Counted, At, Cached
      <2> QED
          BY <1>1, <2>1 DEF vars, upstream, callers, HandleInv
<1>2. ASSUME NEW t \in Threads, NEW p \in live,
             Destroy(t, p) \/ \E n \in 1 .. MaxSize, o \in BOOLEAN : Alloc(t, p, n, o)
      PROVE  HandleInv'
      BY <1>2, HandlesOfDestroyed, HandlesAside
<1>3. ASSUME NEW t \in Threads, NEW a \in DOMAIN held,
             \/ Free(t, a) \/ GetHandle(t, a)
             \/ \E first \in 1 .. MaxSize : Split(t, a, first)
             \/ \E b \in DOMAIN held : Merge(t, a, b)
             \/ \E ptr \in Bytes(a, held[a].size) : Ask(t, a, ptr)
      PROVE  HandleInv'
      BY <1>3, HandlesAside
<1>4. ASSUME NEW t \in Threads,
             \/ Track(t) \/ Uncache(t) \/ PutCached(t) \/ Give(t)
             \/ Lock(t) \/ Compare(t) \/ ShapeUpstream(t) \/ AddHigh(t) \/ Update(t)
             \/ Retire(t) \/ RemoveHigh(t) \/ Unlock(t) \/ Undo(t)
             \/ Found(t) \/ ReadSize(t) \/ ReadInfo(t) \/ Return(t)
             \/ Look(t) \/ GetUpstream(t) \/ Insert(t) \/ PutBack(t)
             \/ NextKey(t) \/ Match(t) \/ DropEntry(t) \/ GoOn(t) \/ Destroyed(t)
      PROVE  HandleInv'
      BY <1>4, HandlesAside, HandleSteps, HandlesOfCleared
<1>5. CASE \E p \in Pools : Create(p)
      BY <1>5, HandlesOfCreated
<1> QED
    BY <1>1, <1>2, <1>3, <1>4, <1>5 DEF Next

LEMMA BalancedHandles == HandleInv => HandlesBalanced
BY DEF HandleInv, HandlesBalanced, CountOf, Counted

(* No IPC handle is lost, and none is put back twice, however many threads   *)
(* ask for a handle of one region at the same time while others free, split, *)
(* merge and destroy.                                                        *)
THEOREM HandlesAreBalanced == Spec => []HandlesBalanced
<1>1. Init => RegionInv /\ HandleInv
      BY InitRegions, InitHandles
<1>2. (RegionInv /\ HandleInv) /\ [Next]_vars => (RegionInv /\ HandleInv)'
      BY NextRegions, NextHandles
<1>3. RegionInv /\ HandleInv => HandlesBalanced
      BY BalancedHandles
<1> QED
    BY <1>1, <1>2, <1>3, PTL DEF Spec

(***************************************************************************)
(* The tracker's map and its values                                        *)
(***************************************************************************)

Early   == {"lock", "compare", "undo"}     \* of a split or a merge,
Agreed  == {"upstream", "add", "update"}   \* and once the tracker agrees
Entries == Addresses \X Values

(* What the map says of the one or two regions a thread splits or merges.    *)
LowKnown(t) ==
  /\ th[t].pc \in Shaping \cup Shaped
  /\ th[t].pc \in Early => th[t].at \notin untracked

HighKnown(t) ==
  /\ th[t].pc \in Shaping \cup Shaped
  /\ th[t].op = "split" => th[t].pc \in {"update"} \cup Shaped
  /\ th[t].op = "merge" => th[t].pc # "unlock"
                           /\ (th[t].pc \in Early => th[t].high \notin untracked)

LowIs(t)  == IF th[t].pc \in Shaped THEN th[t].after[th[t].at] ELSE th[t].before[th[t].at]
HighIs(t) == IF th[t].op = "split" THEN th[t].after[th[t].high] ELSE th[t].before[th[t].high]

KnownTo(t, a) == (LowKnown(t) /\ a = th[t].at) \/ (HighKnown(t) /\ a = th[t].high)

Entry(a, r) == Tracked(a) /\ PoolOf(a) = r.pool /\ SizeOf(a) = r.size

(* What a pool that is being destroyed has left in the map. *)
Leaves(t, a) ==
  th[t].pc \in Clearing /\ PoolOf(a) = th[t].pool /\ a \in Land(th[t].pool)

MapTyped ==
  /\ map \in [Addresses -> {Null} \cup Entries]
  /\ \A a \in Addresses : Tracked(a) => map[a][1] = a
  /\ value \in [Values -> [pool : Pools \cup {Null}, size : 0 .. Memory]]
  /\ spare \subseteq Values /\ DOMAIN find = Threads

Query == {"pc", "query", "exact", "loose"}

(* What the record of a thread, and of its query, has at each point. *)
FieldsOK(r, q) ==
  /\ r.pc \in {"match", "drop", "on"} =>
       {"entry", "overtaken"} \subseteq DOMAIN r /\ r.entry \in Entries
  /\ r.pc \in {"seek", "cleared"} => "overtaken" \in DOMAIN r
  /\ r.pc = "find" => "ptr" \in DOMAIN r
  /\ r.pc \in {"size", "read"} => {"ptr", "entry"} \subseteq DOMAIN r /\ r.entry \in Entries
  /\ r.pc = "answer" => "answer" \in DOMAIN r
  /\ r.pc \in Shaping => r.new \in Values
  /\ r.pc \in Agreed \cup {"retire"} => r.old \in Values
  /\ r.pc = "remove" => r.op = "merge"
  /\ r.pc \in {"seek", "find"} =>
       /\ Query \subseteq DOMAIN q /\ q.pc = "open" /\ IsFiniteSet(q.exact)
       /\ q.exact \cup q.loose \subseteq {Null} \cup Entries
       /\ q.query = <<q.query[1], q.query[2]>> /\ q.query[2] \in Nat
       /\ q.query[1] = IF r.pc = "seek" THEN "ge" ELSE "le"

FieldInv == \A t \in Threads : FieldsOK(th[t], find[t])

ExactInv ==
  /\ \A a \in DOMAIN held \ untracked : Entry(a, held[a])
  /\ \A t \in Threads : /\ LowKnown(t) => Entry(th[t].at, LowIs(t))
                        /\ HighKnown(t) => Entry(th[t].high, HighIs(t))
  /\ \A a \in Addresses :
       Tracked(a) => \/ a \in DOMAIN held \ untracked
                     \/ \E t \in Threads : KnownTo(t, a) \/ Leaves(t, a)
  /\ \A a \in untracked :
       a \in DOMAIN held \/ \E t \in Threads : th[t].pc \in Shaping \cup Shaped
                                               /\ a \in DOMAIN th[t].before
  /\ \A t \in Threads : th[t].pc \in Agreed => DOMAIN th[t].before \cap untracked = {}

InHand(t, v) ==
  \/ th[t].pc \in Shaping /\ v = th[t].new
  \/ th[t].pc = "retire" /\ v = th[t].old

(* What the thread has seen under the lock, and what it has made. *)
SeenOf(t) ==
  LET r == th[t] IN
  /\ r.pc \in Agreed => map[r.at] = <<r.at, r.old>>
  /\ r.pc \in Shaping => value[r.new] = [pool |-> r.after[r.at].pool, size |-> r.after[r.at].size]

Holds(a, v) == Tracked(a) /\ ValueAt(a) = v

OwnedOnce(v) ==
  /\ \/ v \in spare
     \/ \E a \in Addresses : Holds(a, v)
     \/ \E t \in Threads : InHand(t, v)
  /\ v \in spare => (\A a \in Addresses : ~Holds(a, v)) /\ (\A t \in Threads : ~InHand(t, v))
  /\ \A a \in Addresses : Holds(a, v) =>
       (\A b \in Addresses : Holds(b, v) => b = a) /\ (\A t \in Threads : ~InHand(t, v))
  /\ \A t \in Threads : InHand(t, v) => \A s \in Threads : InHand(s, v) => s = t

ValueInv ==
  /\ \A v \in Values : OwnedOnce(v)
  /\ \A t \in Threads : SeenOf(t)

Stands(e, p) == value[e[2]].pool = p => map[e[1]] = e
(* Not overtaken: everything of the pool is at k or above. *)
Floor(t, k) ==
  ~th[t].overtaken => \A a \in Addresses : Tracked(a) /\ PoolOf(a) = th[t].pool => a >= k

ClearOf(t) ==
  LET r == th[t] IN
  /\ r.pc = "seek" =>
       /\ \A e \in find[t].exact \cup find[t].loose : e # Null => Stands(e, r.pool)
       /\ Index(t)!Exact(find[t].query, map) \in find[t].exact
       /\ Floor(t, find[t].query[2])
  /\ r.pc = "match" =>
       /\ Stands(r.entry, r.pool) /\ Floor(t, r.entry[1])
       /\ ~r.overtaken /\ Tracked(r.entry[1]) /\ PoolOf(r.entry[1]) = r.pool
            => map[r.entry[1]] = r.entry
  /\ r.pc = "drop" =>
       /\ value[r.entry[2]].pool = r.pool /\ map[r.entry[1]] = r.entry
       /\ Floor(t, r.entry[1])
  /\ r.pc = "on" => Floor(t, r.entry[1] + 1)
  /\ r.pc = "cleared" /\ ~r.overtaken =>
       \A a \in Addresses : Tracked(a) => PoolOf(a) # r.pool

ClearInv ==
  \A t \in Threads :
    /\ ClearOf(t)
    /\ th[t].pc \in Clearing =>
         \A s \in Threads \ {t} : th[s].pc \in Clearing => th[s].pool # th[t].pool

QueryOf(t) ==
  LET r == th[t] IN
  r.pc \in Using /\ r.at \notin untracked =>
    /\ r.pc = "find" => find[t].query = <<"le", r.ptr>> /\ find[t].exact = {map[r.at]}
    /\ r.pc \in {"size", "read"} => r.entry = map[r.at]
    /\ r.pc \in {"find", "size", "read"} => r.ptr \in Bytes(r.at, held[r.at].size)
    /\ r.pc = "answer" =>
         r.answer = [base |-> r.at, pool |-> held[r.at].pool, size |-> held[r.at].size]

QueryInv == \A t \in Threads : QueryOf(t)

Agreement == ExactInv /\ ValueInv /\ ClearInv /\ QueryInv

Types ==
  /\ untracked \subseteq Addresses /\ splitMerge \in Threads \cup {Null}
  /\ \A h \in Pools \X Addresses : handles[h] <= Cardinality(Threads) + 1

MapInv == MapTyped /\ FieldInv /\ (strays = {} => Agreement)
-----------------------------------------------------------------------------
(* The index: what a query is answered with, and what it sees of a change.  *)

LEMMA Least ==
  ASSUME NEW S \in SUBSET Nat, S # {}
  PROVE  \E x \in S : \A y \in S : x <= y
<1>1. PICK x \in S : \A y \in S : ~(<<y, x>> \in OpToRel(<, Nat))
      BY NatLessThanWellFounded, WFMin
<1>2. \A y \in S : ~(y < x)
      BY <1>1 DEF OpToRel
<1> QED
    BY <1>2

LEMMA Greatest ==
  ASSUME NEW n \in Nat, NEW S \in SUBSET (1 .. n), S # {}
  PROVE  \E x \in S : \A y \in S : x >= y
<1> DEFINE T == {z \in Nat : n - z \in S}
<1>1. \A y \in S : n - y \in T
      <2> SUFFICES ASSUME NEW y \in S PROVE n - y \in T
          OBVIOUS
      <2>1. y \in 1 .. n
            OBVIOUS
      <2>2. n - y \in Nat /\ n - (n - y) = y
            BY <2>1
      <2> QED
          BY <2>2
<1>2. T \in SUBSET Nat /\ T # {}
      BY <1>1
<1>3. PICK z \in T : \A w \in T : z <= w
      BY <1>2, Least
<1>4. ASSUME NEW y \in S PROVE n - z >= y
      <2>1. y \in 1 .. n /\ z \in Nat /\ z <= n - y
            BY <1>1, <1>3
      <2> QED
          BY <2>1
<1> QED
    BY <1>4

(* The entries on the side of a query of which the answer is one. *)
Beside(q, k, m) == {a \in Addresses : m[a] # Null /\ IF q = "ge" THEN a >= k ELSE a <= k}

LEMMA BesideIs ==
  ASSUME NEW t \in Threads, NEW q \in {"le", "ge"}, NEW k, NEW m
  PROVE  /\ Index(t)!Entered(<<q, k>>, m) = Beside(q, k, m)
         /\ Index(t)!Loose(<<q, k>>, m) = {m[a] : a \in Beside(q, k, m)}
         /\ \A i, l : Index(t)!Nearer(<<q, k>>, i, l) = IF q = "ge" THEN i <= l ELSE i >= l
BY DEF Index!Entered, Index!Side, Index!Nearer, Index!Loose, Beside

Nearest(S, j, q) == j \in S /\ \A l \in S : IF q = "ge" THEN j <= l ELSE j >= l

LEMMA NearestExists ==
  ASSUME NEW S \in SUBSET Addresses, S # {}, NEW q \in {"le", "ge"}
  PROVE  \E j \in S : Nearest(S, j, q)
<1>1. S \subseteq Nat /\ Memory \in Nat /\ S \in SUBSET (1 .. Memory)
      BY TrackingAssumption DEF Addresses
<1> QED
    BY <1>1, Least, Greatest DEF Nearest

LEMMA ExactIs ==
  ASSUME NEW t \in Threads, NEW q \in {"le", "ge"}, NEW k, NEW m
  PROVE  /\ Beside(q, k, m) = {} => Index(t)!Exact(<<q, k>>, m) = Null
         /\ \A j : Nearest(Beside(q, k, m), j, q) => Index(t)!Exact(<<q, k>>, m) = m[j]
<1>. PICK S : S = Beside(q, k, m)
     OBVIOUS
<1>1. Index(t)!Entered(<<q, k>>, m) = S
      BY BesideIs
<1>2. \A i, l : Index(t)!Nearer(<<q, k>>, i, l) = IF q = "ge" THEN i <= l ELSE i >= l
      BY BesideIs
<1>3. S \subseteq Nat
      BY TrackingAssumption DEF Beside, Addresses
<1>4. ASSUME NEW j, Nearest(S, j, q)
      PROVE  Index(t)!Exact(<<q, k>>, m) = m[j]
      <2>1. \A i \in S : Nearest(S, i, q) => i = j
            BY <1>3, <1>4 DEF Nearest
      <2>2. j \in S /\ Nearest(S, j, q)
            BY <1>4 DEF Nearest
      <2>3. (CHOOSE i \in S : \A l \in S : Index(t)!Nearer(<<q, k>>, i, l)) = j
            BY <1>2, <2>1, <2>2 DEF Nearest
      <2> QED
          BY <1>1, <2>2, <2>3 DEF Index!Exact
<1>5. S = {} => Index(t)!Exact(<<q, k>>, m) = Null
      BY <1>1 DEF Index!Exact
<1> QED
    BY <1>4, <1>5

(* The nearest entry is there, or there is none. *)
LEMMA ExactCases ==
  ASSUME NEW t \in Threads, NEW q \in {"le", "ge"}, NEW k, NEW m
  PROVE  \/ Index(t)!Exact(<<q, k>>, m) = Null /\ Beside(q, k, m) = {}
         \/ \E j \in Beside(q, k, m) :
              Nearest(Beside(q, k, m), j, q) /\ Index(t)!Exact(<<q, k>>, m) = m[j]
<1>1. Beside(q, k, m) \in SUBSET Addresses
      BY DEF Beside
<1> QED
    BY <1>1, NearestExists, ExactIs

LEMMA WatchOpen ==
  ASSUME NEW t \in Threads, NEW c, NEW m, c.pc = "open", Query \subseteq DOMAIN c
  PROVE  LET w == Index(t)!Watch(c, m) IN
         /\ w.pc = "open" /\ w.query = c.query /\ Query \subseteq DOMAIN w
         /\ w.exact = c.exact \cup {Index(t)!Exact(c.query, m)}
         /\ w.loose = c.loose \cup Index(t)!Loose(c.query, m)
<1>. PICK x : x = c.exact \cup {Index(t)!Exact(c.query, m)}
     OBVIOUS
<1>. PICK l : l = c.loose \cup Index(t)!Loose(c.query, m)
     OBVIOUS
<1>. PICK w : w = Index(t)!Watch(c, m)
     OBVIOUS
<1>1. w = [c EXCEPT !.exact = x, !.loose = l]
      BY DEF Index!Watch
<1> QED
    BY <1>1 DEF Query

LEMMA OpenedIs ==
  ASSUME NEW t \in Threads, NEW q, NEW m
  PROVE  LET w == Index(t)!Opened(q, m) IN
         /\ w.pc = "open" /\ w.query = q /\ Query \subseteq DOMAIN w
         /\ w.exact = {Index(t)!Exact(q, m)} /\ w.loose = Index(t)!Loose(q, m)
BY DEF Index!Opened, Query

LEMMA AnswersAre ==
  ASSUME NEW t \in Threads, NEW c, IsFiniteSet(c.exact), c.query[1] # "get"
  PROVE  /\ Index(t)!Answers(c) \subseteq c.exact \cup c.loose \cup {Null}
         /\ \A x : c.exact = {x} => Index(t)!Answers(c) = {x}
         /\ \A x : x \in c.exact /\ ~(Cardinality(c.exact) > 1) =>
              c.exact = {x} /\ Index(t)!Answers(c) = {x}
<1>0. (c.query[1] = "get") = FALSE
      OBVIOUS
<1>1. Index(t)!Answers(c) = IF Cardinality(c.exact) = 1 THEN c.exact
                            ELSE c.exact \cup c.loose \cup {Null}
      <2>1. CASE Cardinality(c.exact) = 1
            BY <2>1 DEF Index!Answers, Index!Cardinality, Cardinality
      <2>2. CASE ~(Cardinality(c.exact) = 1)
            BY <1>0, <2>2 DEF Index!Answers, Index!Cardinality, Cardinality
      <2> QED
          BY <2>1, <2>2
<1>2. \A x : c.exact = {x} => Cardinality(c.exact) = 1
      BY FS_Singleton
<1>3. ASSUME NEW x \in c.exact, ~(Cardinality(c.exact) > 1)
      PROVE  c.exact = {x}
      <2>1. Cardinality(c.exact) \in Nat /\ Cardinality(c.exact) # 0
            BY FS_CardinalityType, FS_EmptySet
      <2>2. Cardinality(c.exact) = 1
            BY <1>3, <2>1
      <2> QED
          BY <2>2, FS_Singleton
<1> QED
    BY <1>1, <1>2, <1>3

-----------------------------------------------------------------------------
(* The map's types, and what the threads' records and queries have.          *)

LEMMA AddTypes ==
  ASSUME MapTyped, NEW a \in Addresses, NEW p \in Pools, NEW n \in 0 .. Memory, Add(a, p, n)
  PROVE  MapTyped'
BY DEF Add, SetMap, MapTyped, Tracked, Entries

LEMMA FreeTypes ==
  ASSUME MapTyped, NEW v \in Values, FreeValue(v), UNCHANGED <<map, find>>
  PROVE  MapTyped'
BY DEF FreeValue, MapTyped, Tracked

LEMMA ForgetTypes ==
  ASSUME MapTyped, NEW a \in Addresses, Forget(a)
  PROVE  MapTyped'
<1>1. Tracked(a) => ValueAt(a) \in Values
      BY DEF MapTyped, Tracked, ValueAt, Entries
<1> QED
    BY <1>1 DEF Forget, FreeValue, SetMap, MapTyped, Tracked, index, objects

LEMMA TrackedEntry ==
  ASSUME MapTyped, NEW a \in Addresses, Tracked(a)
  PROVE  /\ map[a] \in Entries /\ map[a] = <<a, ValueAt(a)>> /\ ValueAt(a) \in Values
         /\ PoolOf(a) \in Pools \cup {Null} /\ SizeOf(a) \in 0 .. Memory
<1>1. map[a] \in Addresses \X Values /\ map[a][1] = a
      BY DEF MapTyped, Tracked, Entries
<1>2. map[a] = <<a, map[a][2]>> /\ map[a][2] \in Values
      BY <1>1
<1> QED
    BY <1>1, <1>2 DEF MapTyped, ValueAt, PoolOf, SizeOf, Entries

(* The queries of the other threads see the change of the map, if any. *)
Watching(t) ==
  \A s \in Threads \ {t} : (find'[s] = find[s] /\ map' = map) \/ find'[s] = Index(s)!Watch(find[s], map')

LEMMA WatchedFields ==
  ASSUME MapTyped', NEW t \in Threads, NEW r, NEW q, FieldsOK(r, q), NEW w, w = Index(t)!Watch(q, map')
  PROVE  FieldsOK(r, w)
<1>1. CASE r.pc \notin {"seek", "find"}
      BY <1>1 DEF FieldsOK, Shaping, Agreed
<1>2. CASE r.pc \in {"seek", "find"}
      <2>1. /\ Query \subseteq DOMAIN q /\ q.pc = "open" /\ IsFiniteSet(q.exact)
            /\ q.exact \cup q.loose \subseteq {Null} \cup Entries
            /\ q.query = <<q.query[1], q.query[2]>> /\ q.query[2] \in Nat
            /\ q.query[1] = IF r.pc = "seek" THEN "ge" ELSE "le"
            BY <1>2 DEF FieldsOK
      <2>. PICK x : x = Index(t)!Exact(q.query, map')
           OBVIOUS
      <2>. PICK l : l = Index(t)!Loose(q.query, map')
           OBVIOUS
      <2>2. /\ w.pc = "open" /\ w.query = q.query /\ Query \subseteq DOMAIN w
            /\ w.exact = q.exact \cup {x} /\ w.loose = q.loose \cup l
            BY <2>1, WatchOpen
      <2>. PICK qn : qn = q.query[1]
           OBVIOUS
      <2>. PICK k : k = q.query[2]
           OBVIOUS
      <2>3. qn \in {"le", "ge"} /\ q.query = <<qn, k>>
            BY <2>1
      <2>4. \A a \in Addresses : map'[a] \in {Null} \cup Entries
            BY DEF MapTyped
      <2>5. x \in {Null} \cup Entries
            <3>1. \/ Index(t)!Exact(<<qn, k>>, map') = Null
                  \/ \E j \in Beside(qn, k, map') : Index(t)!Exact(<<qn, k>>, map') = map'[j]
                  BY <2>3, ExactCases
            <3> QED
                BY <2>3, <2>4, <3>1 DEF Beside
      <2>6. l \subseteq {Null} \cup Entries
            <3>1. Index(t)!Loose(<<qn, k>>, map') = {map'[a] : a \in Beside(qn, k, map')}
                  BY <2>3, BesideIs
            <3> QED
                BY <2>3, <2>4, <3>1 DEF Beside
      <2>7. IsFiniteSet(w.exact)
            BY <2>1, <2>2, FS_AddElement
      <2> QED
          BY <1>2, <2>1, <2>2, <2>5, <2>6, <2>7 DEF FieldsOK, Shaping, Agreed
<1> QED
    BY <1>1, <1>2

LEMMA FieldsElsewhere ==
  ASSUME MapTyped', FieldInv, NEW t \in Threads, OthersStand(t), Watching(t),
         FieldsOK(th'[t], find'[t])
  PROVE  FieldInv'
<1>1. ASSUME NEW s \in Threads \ {t}
      PROVE  FieldsOK(th'[s], find'[s])
      <2>1. FieldsOK(th[s], find[s]) /\ th'[s] = th[s]
            BY DEF FieldInv, OthersStand
      <2>2. CASE find'[s] = find[s]
            BY <2>1, <2>2
      <2>3. CASE find'[s] = Index(s)!Watch(find[s], map')
            BY <2>1, <2>3, WatchedFields
      <2> QED
          BY <2>2, <2>3 DEF Watching
<1> QED
    BY <1>1 DEF FieldInv

LEMMA SetWatches ==
  ASSUME NEW t \in Threads, NEW a, NEW entry, SetMap(a, entry)
  PROVE  Watching(t)
BY DEF SetMap, Watching

(* Where a record needs no fields beyond those of RecordOK. *)
LEMMA NoFields ==
  ASSUME NEW r, NEW q, r.pc \notin Clearing \cup Shaping \cup {"find", "size", "read", "answer", "retire", "remove"}
  PROVE  FieldsOK(r, q)
BY DEF FieldsOK, Clearing, Shaping, Agreed

LEMMA SizeFits ==
  ASSUME NEW a \in Nat, NEW n \in Nat \ {0}, Bytes(a, n) \subseteq Addresses
  PROVE  n \in 0 .. Memory /\ a \in Addresses /\ a + n - 1 \in Addresses
<1>1. a + n - 1 \in Bytes(a, n) /\ a \in Bytes(a, n)
      BY DEF Bytes
<1> QED
    BY <1>1, TrackingAssumption DEF Addresses

(* A step of one thread keeps the types. *)
StepTyped(t) ==
  MapTyped' /\ OthersStand(t) /\ Watching(t) /\ FieldsOK(th'[t], find'[t])

LEMMA MapUntouched ==
  ASSUME MapTyped, UNCHANGED <<map, value, spare, find>>
  PROVE  MapTyped' /\ \A t \in Threads : Watching(t)
BY DEF MapTyped, Tracked, Watching

LEMMA PlainTyped ==
  ASSUME RegionInv, MapTyped, FieldInv, NEW t \in Threads,
         \/ \E p \in live, n \in 1 .. MaxSize, o \in BOOLEAN : Alloc(t, p, n, o)
         \/ \E a \in DOMAIN held : GetHandle(t, a)
         \/ Uncache(t) \/ PutCached(t) \/ Give(t) \/ Unlock(t)
         \/ Look(t) \/ GetUpstream(t) \/ Insert(t) \/ PutBack(t) \/ Return(t) \/ Destroyed(t)
  PROVE  StepTyped(t)
<1> USE DEF At, Idle, NoQuery
<1>1. ThreadInv
      BY DEF RegionInv
<1>2. UNCHANGED <<map, value, spare, find>>
      BY DEF Alloc, GetHandle, Uncache, PutCached, Give, Unlock, Look, GetUpstream, Insert, PutBack,
             Return, Destroyed, index, objects
<1>3. OthersStand(t) /\ th'[t].pc \in {"track", "look", "put", "give", "idle", "get", "insert",
                                       "putAndLook", "putAndFail"}
      <2>1. CASE \E r : Become(t, r) /\ r.pc \in {"track", "look", "idle"}
            BY <1>1, <2>1, Becomes
      <2>2. CASE \E pc \in {"put", "give", "get", "insert", "putAndLook", "putAndFail", "look"} : Goto(t, pc)
            BY <1>1, <2>2, Goes
      <2>3. CASE \E p \in live, n \in 1 .. MaxSize, o \in BOOLEAN : Alloc(t, p, n, o)
            BY <2>1, <2>3 DEF Alloc
      <2>4. CASE \E a \in DOMAIN held : GetHandle(t, a)
            BY <2>1, <2>4 DEF GetHandle
      <2>5. CASE Uncache(t)
            BY <2>2, <2>5 DEF Uncache
      <2>6. CASE PutCached(t)
            BY <2>2, <2>6 DEF PutCached
      <2>7. CASE Give(t)
            BY <2>1, <2>7 DEF Give, Done
      <2>8. CASE Unlock(t) \/ Return(t) \/ Destroyed(t)
            BY <2>1, <2>8 DEF Unlock, Return, Destroyed, Done
      <2>9. CASE Look(t)
            BY <2>1, <2>2, <2>9 DEF Look, Done
      <2>10. CASE GetUpstream(t)
            BY <2>1, <2>2, <2>10 DEF GetUpstream, Done
      <2>11. CASE Insert(t)
            BY <2>1, <2>2, <2>11 DEF Insert, Done
      <2>12. CASE PutBack(t)
            BY <2>1, <2>2, <2>12 DEF PutBack, Done
      <2> QED
          BY <2>3, <2>4, <2>5, <2>6, <2>7, <2>8, <2>9, <2>10, <2>11, <2>12
<1> QED
    BY <1>2, <1>3, MapUntouched, NoFields DEF StepTyped, Clearing, Shaping

LEMMA LockingTyped ==
  ASSUME RegionInv, MapTyped, FieldInv, NEW t \in Threads,
         Lock(t) \/ Compare(t) \/ ShapeUpstream(t)
  PROVE  StepTyped(t)
<1> USE DEF At
<1>1. ThreadInv /\ FieldsOK(th[t], find[t])
      BY DEF RegionInv, FieldInv
<1>2. UNCHANGED <<map, value, spare, find>>
      BY DEF Lock, Compare, ShapeUpstream, index, objects
<1>3. th[t].pc \in {"lock", "compare", "upstream"} /\ th[t].pc \in Shaping
      BY DEF Lock, Compare, ShapeUpstream, Shaping
<1>4. th[t].new \in Values /\ (th[t].pc = "upstream" => th[t].old \in Values)
      BY <1>1, <1>3 DEF FieldsOK, Agreed
<1>5. ASSUME NEW pc \in {"compare", "undo"}, Goto(t, pc)
      PROVE  StepTyped(t)
      <2>1. OthersStand(t) /\ th'[t].pc = pc /\ th'[t].new = th[t].new
            BY <1>1, <1>3, <1>5, Goes
      <2>2. FieldsOK(th'[t], find'[t])
            BY <1>4, <2>1 DEF FieldsOK, Shaping, Agreed
      <2> QED
          BY <1>2, <2>1, <2>2, MapUntouched DEF StepTyped
<1>6. ASSUME NEW pc \in {"add", "update"}, Goto(t, pc), th[t].pc = "upstream"
      PROVE  StepTyped(t)
      <2>1. OthersStand(t) /\ th'[t].pc = pc /\ th'[t].new = th[t].new /\ th'[t].old = th[t].old
            BY <1>1, <1>3, <1>6, Goes
      <2>2. FieldsOK(th'[t], find'[t])
            BY <1>4, <1>6, <2>1 DEF FieldsOK, Shaping, Agreed
      <2> QED
          BY <1>2, <2>1, <2>2, MapUntouched DEF StepTyped
<1>7. ASSUME Tracked(th[t].at), Become(t, [th[t] EXCEPT !.pc = "upstream", !.old = ValueAt(th[t].at)])
      PROVE  StepTyped(t)
      <2>. PICK v : v = ValueAt(th[t].at)
           OBVIOUS
      <2>1. th[t].at \in Addresses /\ v \in Values
            BY <1>3, <1>7, ShapeFacts, TrackedEntry
      <2>. PICK r : r = [th[t] EXCEPT !.pc = "upstream", !.old = v]
           OBVIOUS
      <2>2. {"pc", "old", "new"} \subseteq DOMAIN th[t]
            BY <1>1, <1>3 DEF ThreadInv, RecordOK
      <2>3. r.pc = "upstream" /\ r.old = v /\ r.new = th[t].new
            BY <2>2
      <2>4. OthersStand(t) /\ th'[t] = r
            BY <1>1, <1>7, Becomes
      <2>5. FieldsOK(th'[t], find'[t])
            BY <1>4, <2>1, <2>3, <2>4 DEF FieldsOK, Shaping, Agreed
      <2> QED
          BY <1>2, <2>4, <2>5, MapUntouched DEF StepTyped
<1>8. CASE Lock(t)
      BY <1>5, <1>8 DEF Lock
<1>9. CASE Compare(t)
      <2>1. \/ Goto(t, "undo")
            \/ /\ Tracked(th[t].at)
               /\ Become(t, [th[t] EXCEPT !.pc = "upstream", !.old = ValueAt(th[t].at)])
            BY <1>9 DEF Compare
      <2> QED
          BY <1>5, <1>7, <2>1
<1>10. CASE ShapeUpstream(t)
      <2>1. th[t].pc = "upstream"
            BY <1>10 DEF ShapeUpstream
      <2> QED
          BY <1>5, <1>6, <1>10, <2>1 DEF ShapeUpstream
<1> QED
    BY <1>8, <1>9, <1>10

LEMMA TrackTyped ==
  ASSUME RegionInv, MapTyped, FieldInv, NEW t \in Threads, Track(t)
  PROVE  StepTyped(t)
<1>. DEFINE a == th[t].at
            r == th[t].region
<1>1. ThreadInv /\ Single(t)
      BY DEF RegionInv, Track, At, Single
<1>2. /\ a \in Addresses /\ r \in Reg /\ Bytes(a, r.size) \subseteq Addresses
      /\ a \in Nat /\ r.pool \in Pools /\ r.size \in Nat \ {0}
      BY <1>1, SingleFacts, LandTyped, TrackingAssumption
         DEF RegionInv, GivenInv, CarriedBy, Reg, Addresses
<1>3. r.size \in 0 .. Memory
      BY <1>2, SizeFits
<1>4. OthersStand(t) /\ th'[t].pc = "idle"
      BY <1>1, Becomes DEF Track, Done, NoQuery
<1>5. MapTyped' /\ Watching(t)
      <2>1. CASE Add(a, r.pool, r.size)
            BY <1>2, <1>3, <2>1, AddTypes, SetWatches DEF Add
      <2>2. CASE CannotAdd(a)
            BY <2>2, MapUntouched DEF CannotAdd, objects, index
      <2> QED
          BY <2>1, <2>2 DEF Track
<1> QED
    BY <1>4, <1>5, NoFields DEF StepTyped, Clearing, Shaping

LEMMA FreeTyped ==
  ASSUME RegionInv, MapTyped, FieldInv, NEW t \in Threads, NEW a \in DOMAIN held, Free(t, a)
  PROVE  StepTyped(t)
<1>1. ThreadInv /\ a \in Addresses
      BY DEF RegionInv, HeldInv, GivenInv
<1>2. OthersStand(t) /\ th'[t].pc \in {"give", "uncache"}
      BY <1>1, Becomes DEF Free
<1>3. MapTyped' /\ Watching(t)
      <2>1. MapTyped'
            BY <1>1, ForgetTypes DEF Free
      <2>2. Watching(t)
            BY SetWatches, MapUntouched DEF Free, Forget, objects, index
      <2> QED
          BY <2>1, <2>2
<1> QED
    BY <1>2, <1>3, NoFields DEF StepTyped, Clearing, Shaping

(* The types, in splits and merges. *)
LEMMA BytesParts ==
  ASSUME NEW a \in Nat, NEW n \in Nat \ {0}, NEW m \in Nat \ {0}
  PROVE  /\ a \in Bytes(a, n + m) /\ a + n \in Bytes(a, n + m) /\ a # a + n
         /\ Bytes(a + n, m) \subseteq Bytes(a, n + m)
<1>1. a \in Bytes(a, n + m) /\ a + n \in Bytes(a, n + m) /\ a # a + n
      BY DEF Bytes
<1>2. \A i \in Int : i >= a + n /\ i <= a + n + m - 1 => i >= a /\ i <= a + (n + m) - 1
      OBVIOUS
<1>3. Bytes(a + n, m) \subseteq Bytes(a, n + m)
      BY <1>2 DEF Bytes
<1> QED
    BY <1>1, <1>3

(* The low and the high part, and the whole of them. *)
LEMMA ShapeParts ==
  ASSUME RegionInv, NEW t \in Threads, th[t].pc \in Shaping \cup Shaped
  PROVE  LET r == th[t] IN
         /\ r.at \in Addresses /\ r.high \in Addresses /\ r.at # r.high
         /\ r.at \in Ground(t) /\ r.high \in Ground(t) /\ Ground(t) \subseteq Addresses
         /\ HighIs(t) \in Reg /\ HighIs(t).pool = PoolBy(t) /\ LowIs(t).pool = PoolBy(t)
         /\ Bytes(r.high, HighIs(t).size) \subseteq Ground(t)
         /\ r.at \in DOMAIN r.before /\ DOMAIN r.before \subseteq {r.at, r.high}
         /\ PoolBy(t) \in live
<1>1. /\ \/ th[t].op = "split" /\ Parts(th[t].after, th[t].before, th[t].at, th[t].high)
            /\ Ground(t) = Bytes(th[t].at, th[t].before[th[t].at].size)
            /\ HighIs(t) = th[t].after[th[t].high]
         \/ th[t].op = "merge" /\ Parts(th[t].before, th[t].after, th[t].at, th[t].high)
            /\ Ground(t) = Bytes(th[t].at, th[t].after[th[t].at].size)
            /\ HighIs(t) = th[t].before[th[t].high]
      /\ CarriedBy(t) /\ th[t].at \in Addresses
      /\ PoolBy(t) = th[t].after[th[t].at].pool /\ PoolBy(t) = th[t].before[th[t].at].pool
      BY ShapeFacts DEF HighIs
<1>2. Ground(t) \subseteq Addresses /\ PoolBy(t) \in live
      BY <1>1, LandTyped DEF CarriedBy
<1>3. th[t].at \in Nat
      BY <1>1, TrackingAssumption DEF Addresses
<1>. PICK parts, whole :
       /\ Parts(parts, whole, th[t].at, th[t].high) /\ Ground(t) = Bytes(th[t].at, whole[th[t].at].size)
       /\ HighIs(t) = parts[th[t].high] /\ whole[th[t].at].pool = PoolBy(t)
       /\ (th[t].before = parts \/ th[t].before = whole)
     BY <1>1
<1>4. /\ parts[th[t].at].size \in Nat \ {0} /\ HighIs(t).size \in Nat \ {0} /\ HighIs(t) \in Reg
      /\ th[t].high = th[t].at + parts[th[t].at].size
      /\ whole[th[t].at].size = parts[th[t].at].size + HighIs(t).size
      /\ HighIs(t).pool = PoolBy(t)
      /\ th[t].at \in DOMAIN th[t].before /\ DOMAIN th[t].before \subseteq {th[t].at, th[t].high}
      BY DEF Parts, Reg
<1>5. /\ th[t].at \in Ground(t) /\ th[t].high \in Ground(t) /\ th[t].at # th[t].high
      /\ Bytes(th[t].high, HighIs(t).size) \subseteq Ground(t)
      <2>. PICK a, b, n, m : a = th[t].at /\ b = th[t].high /\ n = parts[a].size /\ m = HighIs(t).size
           OBVIOUS
      <2>1. a \in Nat /\ n \in Nat \ {0} /\ m \in Nat \ {0} /\ b = a + n /\ Ground(t) = Bytes(a, n + m)
            BY <1>3, <1>4
      <2>2. a \in Bytes(a, n + m) /\ b \in Bytes(a, n + m) /\ a # b /\ Bytes(b, m) \subseteq Bytes(a, n + m)
            BY <2>1, BytesParts
      <2> QED
          BY <2>1, <2>2
<1> QED
    BY <1>1, <1>2, <1>4, <1>5 DEF LowIs

(* What splits and merges begin with. *)
Reshaped(t, S, v) ==
  LET r == th'[t] IN
  /\ th[t].pc = "idle" /\ v \in spare
  /\ S \subseteq DOMAIN held /\ \A x \in S : Users(x) = {}
  /\ OthersStand(t) /\ DOMAIN th' = Threads
  /\ r.pc = "lock" /\ r.new = v /\ r.at \in S /\ r.op \in {"split", "merge"}
  /\ r.op = "split" => S = {r.at}
  /\ r.op = "merge" => S = {r.at, r.high}
  /\ DOMAIN r.before = S /\ \A x \in S : r.before[x] = held[x]
  /\ r.after[r.at].pool = held[r.at].pool /\ r.after[r.at].size \in 0 .. Memory
  /\ value' = [value EXCEPT ![v] = [pool |-> r.after[r.at].pool, size |-> r.after[r.at].size]]
  /\ spare' = spare \ {v} /\ held' = Without(held, S)
  /\ UNCHANGED <<given, handles, map, find, splitMerge, cache, live, untracked, strays>>

LEMMA ReshapeIs ==
  ASSUME RegionInv, NEW t \in Threads, NEW op \in {"split", "merge"}, NEW a, NEW b,
         NEW regions, NEW shaped, Reshape(t, op, a, b, regions, shaped), a \in DOMAIN regions,
         op = "split" => DOMAIN regions = {a}, op = "merge" => DOMAIN regions = {a, b},
         shaped[a].pool = held[a].pool, shaped[a].size \in 0 .. Memory
  PROVE  \E v \in spare : Reshaped(t, DOMAIN regions, v)
<1>1. PICK v \in spare :
        /\ value' = [value EXCEPT ![v] = [pool |-> shaped[a].pool, size |-> shaped[a].size]]
        /\ spare' = spare \ {v}
        /\ Become(t, [pc |-> "lock", op |-> op, at |-> a, high |-> b, new |-> v,
                      old |-> Null, before |-> regions, after |-> shaped])
      BY DEF Reshape
<1>. PICK r : r = [pc |-> "lock", op |-> op, at |-> a, high |-> b, new |-> v,
                   old |-> Null, before |-> regions, after |-> shaped]
     OBVIOUS
<1>2. /\ r.pc = "lock" /\ r.op = op /\ r.at = a /\ r.high = b /\ r.new = v
      /\ r.before = regions /\ r.after = shaped
      OBVIOUS
<1>3. th'[t] = r /\ OthersStand(t) /\ DOMAIN th' = Threads
      BY <1>1, Becomes DEF RegionInv
<1>4. /\ th[t].pc = "idle" /\ DOMAIN regions \subseteq DOMAIN held
      /\ \A x \in DOMAIN regions : Users(x) = {} /\ held[x] = regions[x]
      /\ held' = Without(held, DOMAIN regions)
      /\ UNCHANGED <<given, handles, map, find, splitMerge, cache, live, untracked, strays>>
      BY DEF Reshape, Idle, Drop, upstream, index
<1>5. Reshaped(t, DOMAIN regions, v)
      BY <1>1, <1>2, <1>3, <1>4 DEF Reshaped
<1> QED
    BY <1>5

LEMMA SplitIs ==
  ASSUME RegionInv, NEW t \in Threads, NEW a \in DOMAIN held, NEW first \in 1 .. MaxSize,
         Split(t, a, first)
  PROVE  \E v \in spare : Reshaped(t, {a}, v)
<1> DEFINE r       == held[a]
           regions == Only(a, r)
           low     == [r EXCEPT !.size = first]
           shaped  == Over(Only(a, low), Only(a + first, [r EXCEPT !.size = @ - first]))
<1>1. first < r.size /\ Reshape(t, "split", a, a + first, regions, shaped)
      BY DEF Split
<1>2. r \in Reg /\ a \in Nat /\ first \in Nat /\ MaxSize \in Nat
      BY TrackingAssumption DEF RegionInv, HeldInv, GivenInv, Addresses
<1>3. DOMAIN regions = {a} /\ shaped[a] = low
      BY DEF Only, Over
<1>4. low.pool = r.pool /\ low.size = first
      BY <1>2 DEF Reg
<1>5. r.size \in 0 .. Memory
      <2>1. Bytes(a, r.size) \subseteq Addresses
            BY LandTyped DEF RegionInv, HeldInv
      <2> QED
          BY <1>2, <2>1, SizeFits DEF Reg
<1>6. first \in 0 .. Memory
      BY <1>1, <1>2, <1>5, TrackingAssumption DEF Reg
<1> HIDE DEF regions, shaped
<1>7. \E v \in spare : Reshaped(t, DOMAIN regions, v)
      <2>1. shaped[a].pool = held[a].pool /\ shaped[a].size \in 0 .. Memory
            BY <1>3, <1>4, <1>6
      <2>. PICK b : b = a + first
           OBVIOUS
      <2> QED
          BY <1>1, <1>3, <2>1, ReshapeIs
<1> QED
    BY <1>3, <1>7

LEMMA MergeIs ==
  ASSUME RegionInv, RegionInv', NEW t \in Threads, NEW a \in DOMAIN held, NEW b \in DOMAIN held, Merge(t, a, b)
  PROVE  \E v \in spare : Reshaped(t, {a, b}, v)
<1> DEFINE r       == held[a]
           regions == Over(Only(a, r), Only(b, held[b]))
           whole   == [r EXCEPT !.size = @ + held[b].size]
           shaped  == Only(a, whole)
<1>1. b = a + r.size /\ r.pool = held[b].pool /\ Reshape(t, "merge", a, b, regions, shaped)
      BY DEF Merge
<1>2. r \in Reg /\ held[b] \in Reg /\ a \in Nat /\ b \in Nat
      BY TrackingAssumption DEF RegionInv, HeldInv, GivenInv, Addresses
<1>3. DOMAIN regions = {a, b} /\ shaped[a] = whole
      BY DEF Only, Over
<1>4. whole.pool = r.pool /\ whole.size = r.size + held[b].size
      BY <1>2 DEF Reg
<1>5. r.size + held[b].size \in 0 .. Memory
      <2>1. Bytes(b, held[b].size) \subseteq Addresses
            BY LandTyped DEF RegionInv, HeldInv
      <2>2. b + held[b].size - 1 \in Addresses /\ a \in Addresses
            BY <1>2, <2>1, SizeFits DEF RegionInv, HeldInv, GivenInv, Reg
      <2> QED
          BY <1>1, <1>2, <2>2, TrackingAssumption DEF Reg, Addresses
<1> HIDE DEF regions, shaped
<1>6. \E v \in spare : Reshaped(t, DOMAIN regions, v)
      <2>1. shaped[a].pool = held[a].pool /\ shaped[a].size \in 0 .. Memory
            BY <1>3, <1>4, <1>5
      <2> QED
          BY <1>1, <1>3, <2>1, ReshapeIs
<1> QED
    BY <1>3, <1>6

LEMMA ReshapedTyped ==
  ASSUME MapTyped, NEW t \in Threads, NEW S, NEW v, Reshaped(t, S, v), RegionInv
  PROVE  StepTyped(t)
<1>. PICK p : p = th'[t].after[th'[t].at].pool
     OBVIOUS
<1>. PICK n : n = th'[t].after[th'[t].at].size
     OBVIOUS
<1>1. /\ v \in spare /\ value' = [value EXCEPT ![v] = [pool |-> p, size |-> n]] /\ spare' = spare \ {v}
      /\ p = held[th'[t].at].pool /\ th'[t].at \in DOMAIN held /\ n \in 0 .. Memory
      /\ UNCHANGED <<map, find>> /\ OthersStand(t) /\ th'[t].pc = "lock" /\ th'[t].new = v
      BY DEF Reshaped
<1>2. p \in Pools /\ v \in Values
      BY <1>1 DEF RegionInv, HeldInv, ThreadInv, MapTyped
<1>3. MapTyped' /\ Watching(t)
      BY <1>1, <1>2 DEF MapTyped, Tracked, Watching
<1>4. FieldsOK(th'[t], find'[t])
      BY <1>1, <1>2 DEF FieldsOK, Shaping, Agreed
<1> QED
    BY <1>1, <1>3, <1>4 DEF StepTyped

LEMMA AddHighTyped ==
  ASSUME RegionInv, MapTyped, FieldInv, NEW t \in Threads, AddHigh(t)
  PROVE  StepTyped(t)
<1> DEFINE b == th[t].high
           r == th[t].after[b]
<1>1. /\ ThreadInv /\ FieldsOK(th[t], find[t]) /\ th[t].pc = "add"
      /\ th[t].pc \in Shaping /\ th[t].pc \in Agreed
      BY DEF RegionInv, FieldInv, AddHigh, At, Shaping, Agreed
<1>2. th[t].new \in Values /\ th[t].old \in Values
      BY <1>1 DEF FieldsOK
<1>3. th[t].op = "split"
      BY <1>1 DEF RegionInv, HighInv
<1>4. r = HighIs(t) /\ r \in Reg /\ b \in Nat /\ Bytes(b, r.size) \subseteq Addresses
      BY <1>1, <1>3, ShapeParts, TrackingAssumption DEF HighIs, Addresses
<1>5. b \in Addresses /\ r.size \in 0 .. Memory /\ r.pool \in Pools
      BY <1>4, SizeFits DEF Reg
<1>6. MapTyped' /\ Watching(t)
      <2>1. CASE Add(b, r.pool, r.size)
            BY <1>5, <2>1, AddTypes, SetWatches DEF Add
      <2>2. CASE CannotAdd(b)
            BY <2>2, MapUntouched DEF CannotAdd, objects, index
      <2> QED
          BY <2>1, <2>2 DEF AddHigh
<1>7. /\ OthersStand(t) /\ th'[t].pc \in {"update", "undo"}
      /\ th'[t].new = th[t].new /\ th'[t].old = th[t].old
      BY <1>1, Goes DEF AddHigh
<1>8. FieldsOK(th'[t], find'[t])
      BY <1>2, <1>7 DEF FieldsOK, Shaping, Agreed
<1> QED
    BY <1>6, <1>7, <1>8 DEF StepTyped

LEMMA UpdateTyped ==
  ASSUME RegionInv, MapTyped, FieldInv, NEW t \in Threads, Update(t)
  PROVE  StepTyped(t)
<1> DEFINE a == th[t].at
<1>1. ThreadInv /\ FieldsOK(th[t], find[t]) /\ th[t].pc = "update" /\ th[t].pc \in Shaping \cap Agreed
      BY DEF RegionInv, FieldInv, Update, At, Shaping, Agreed
<1>2. th[t].new \in Values /\ th[t].old \in Values /\ a \in Addresses
      BY <1>1, ShapeFacts DEF FieldsOK
<1>3. MapTyped' /\ Watching(t)
      <2>1. CASE SetMap(a, <<a, th[t].new>>)
            BY <1>2, <2>1, SetWatches DEF Update, SetMap, objects, MapTyped, Tracked, Entries
      <2>2. CASE UNCHANGED index
            BY <2>2, MapUntouched DEF Update, index, objects
      <2> QED
          BY <2>1, <2>2 DEF Update
<1>5. OthersStand(t) /\ th'[t].pc = "retire" /\ th'[t].old = th[t].old
      BY <1>1, Becomes DEF Update
<1>6. FieldsOK(th'[t], find'[t])
      BY <1>2, <1>5 DEF FieldsOK, Shaping, Agreed
<1> QED
    BY <1>3, <1>5, <1>6 DEF StepTyped

LEMMA LaterTyped ==
  ASSUME RegionInv, MapTyped, FieldInv, NEW t \in Threads, Retire(t) \/ RemoveHigh(t) \/ Undo(t)
  PROVE  StepTyped(t)
<1>1. /\ ThreadInv /\ FieldsOK(th[t], find[t])
      /\ th[t].pc \in {"retire", "remove", "undo"} /\ th[t].pc \in Shaping \cup Shaped
      BY DEF RegionInv, FieldInv, Retire, RemoveHigh, Undo, At, Shaping, Shaped
<1>2. th[t].op \in {"split", "merge"}
      BY <1>1, ShapeFacts
<1>3. CASE Retire(t)
      <2>1. /\ OthersStand(t) /\ th'[t].op = th[t].op
            /\ th'[t].pc = IF th[t].op = "split" THEN "unlock" ELSE "remove"
            BY <1>1, <1>3, Goes DEF Retire
      <2>2. FieldsOK(th'[t], find'[t])
            BY <1>2, <2>1 DEF FieldsOK, Shaping, Agreed
      <2>3. MapTyped' /\ Watching(t)
            <3>1. th[t].old \in Values
                  BY <1>1, <1>3 DEF Retire, At, FieldsOK
            <3> QED
                BY <1>3, <3>1, FreeTypes DEF Retire, index, Watching
      <2> QED
          BY <2>1, <2>2, <2>3 DEF StepTyped
<1>4. CASE Undo(t)
      <2>1. OthersStand(t) /\ th'[t].pc = "idle"
            BY <1>1, <1>4, Becomes DEF Undo, Done, NoQuery
      <2>2. MapTyped' /\ Watching(t)
            <3>1. th[t].new \in Values
                  BY <1>1, <1>4 DEF Undo, At, FieldsOK, Shaping
            <3> QED
                BY <1>4, <3>1, FreeTypes DEF Undo, index, Watching
      <2> QED
          BY <2>1, <2>2, NoFields DEF StepTyped, Clearing, Shaping
<1>5. CASE RemoveHigh(t)
      <2>1. OthersStand(t) /\ th'[t].pc = "unlock"
            BY <1>1, <1>5, Goes DEF RemoveHigh
      <2>2. th[t].high \in Addresses
            BY <1>1, ShapeParts
      <2>3. MapTyped' /\ Watching(t)
            BY <1>5, <2>2, ForgetTypes, SetWatches, MapUntouched DEF RemoveHigh, Forget, objects, index
      <2> QED
          BY <2>1, <2>3, NoFields DEF StepTyped, Clearing, Shaping
<1> QED
    BY <1>3, <1>4, <1>5

(* The types, in queries and clearings. *)
LEMMA OwnQuery ==
  ASSUME MapTyped, NEW t \in Threads, NEW q, find' = [find EXCEPT ![t] = q], UNCHANGED <<map, value, spare>>
  PROVE  MapTyped' /\ Watching(t) /\ find'[t] = q
BY DEF MapTyped, Tracked, Watching

LEMMA OpenedFields ==
  ASSUME MapTyped, NEW t \in Threads, NEW q \in {"le", "ge"}, NEW k \in Nat
  PROVE  LET w == Index(t)!Opened(<<q, k>>, map) IN
         /\ Query \subseteq DOMAIN w /\ w.pc = "open" /\ IsFiniteSet(w.exact)
         /\ w.exact \cup w.loose \subseteq {Null} \cup Entries
         /\ w.query = <<w.query[1], w.query[2]>> /\ w.query[2] = k /\ w.query[1] = q
<1>. PICK w : w = Index(t)!Opened(<<q, k>>, map)
     OBVIOUS
<1>. PICK x : x = Index(t)!Exact(<<q, k>>, map)
     OBVIOUS
<1>1. /\ w.pc = "open" /\ w.query = <<q, k>> /\ Query \subseteq DOMAIN w
      /\ w.exact = {x} /\ w.loose = Index(t)!Loose(<<q, k>>, map)
      BY OpenedIs
<1>2. \A a \in Addresses : map[a] \in {Null} \cup Entries
      BY DEF MapTyped
<1>3. x \in {Null} \cup Entries
      <2>1. \/ Index(t)!Exact(<<q, k>>, map) = Null
            \/ \E j \in Beside(q, k, map) : Index(t)!Exact(<<q, k>>, map) = map[j]
            BY ExactCases
      <2> QED
          BY <1>2, <2>1 DEF Beside
<1>4. w.loose \subseteq {Null} \cup Entries
      <2>1. w.loose = {map[a] : a \in Beside(q, k, map)}
            BY <1>1, BesideIs
      <2> QED
          BY <1>2, <2>1 DEF Beside
<1>5. IsFiniteSet(w.exact)
      BY <1>1, FS_Singleton
<1> QED
    BY <1>1, <1>3, <1>4, <1>5

LEMMA AnswersTyped ==
  ASSUME FieldInv, NEW t \in Threads, th[t].pc \in {"seek", "find"}, NEW e \in Index(t)!Answers(find[t]), e # Null
  PROVE  e \in Entries
<1>1. /\ IsFiniteSet(find[t].exact) /\ find[t].query[1] # "get"
      /\ find[t].exact \cup find[t].loose \subseteq {Null} \cup Entries
      BY DEF FieldInv, FieldsOK
<1>. PICK c : c = find[t]
     OBVIOUS
<1>2. Index(t)!Answers(c) \subseteq c.exact \cup c.loose \cup {Null}
      BY <1>1, AnswersAre
<1> QED
    BY <1>1, <1>2

LEMMA QueriesTyped ==
  ASSUME RegionInv, MapTyped, FieldInv, NEW t \in Threads,
         \/ \E a \in DOMAIN held : \E ptr \in Bytes(a, held[a].size) : Ask(t, a, ptr)
         \/ Found(t) \/ ReadSize(t) \/ ReadInfo(t)
  PROVE  StepTyped(t)
<1>1. ThreadInv /\ FieldsOK(th[t], find[t])
      BY DEF RegionInv, FieldInv
<1>2. UNCHANGED <<map, value, spare>>
      BY DEF Ask, Found, ReadSize, ReadInfo, objects, index
<1>3. CASE \E a \in DOMAIN held : \E ptr \in Bytes(a, held[a].size) : Ask(t, a, ptr)
      <2>1. PICK a \in DOMAIN held : \E p \in Bytes(a, held[a].size) : Ask(t, a, p)
            BY <1>3
      <2>2. PICK ptr \in Bytes(a, held[a].size) : Ask(t, a, ptr)
            BY <2>1
      <2>3. ptr \in Nat
            BY TrackingAssumption DEF RegionInv, HeldInv, GivenInv, Addresses, Bytes, Reg
      <2>. PICK w : w = Index(t)!Opened(<<"le", ptr>>, map)
           OBVIOUS
      <2>4. MapTyped' /\ Watching(t) /\ find'[t] = w
            BY <1>2, <2>2, OwnQuery DEF Ask
      <2>5. th'[t] = [pc |-> "find", at |-> a, ptr |-> ptr] /\ OthersStand(t)
            BY <1>1, <2>2, Becomes DEF Ask
      <2>6. /\ Query \subseteq DOMAIN w /\ w.pc = "open" /\ IsFiniteSet(w.exact)
            /\ w.exact \cup w.loose \subseteq {Null} \cup Entries
            /\ w.query = <<w.query[1], w.query[2]>> /\ w.query[2] = ptr /\ w.query[1] = "le"
            BY <2>3, OpenedFields
      <2>7. FieldsOK(th'[t], find'[t])
            BY <2>3, <2>4, <2>5, <2>6 DEF FieldsOK, Shaping, Agreed
      <2> QED
          BY <2>4, <2>5, <2>7 DEF StepTyped
<1>4. CASE Found(t)
      <2>1. th[t].pc = "find" /\ MapTyped' /\ Watching(t)
            BY <1>2, <1>4, OwnQuery DEF Found, At
      <2>2. PICK e \in Index(t)!Answers(find[t]) :
              IF e = Null THEN Answered(t, Null)
              ELSE Become(t, [pc |-> "size", at |-> th[t].at, ptr |-> th[t].ptr, entry |-> e])
            BY <1>4 DEF Found
      <2>3. CASE e = Null
            <3>1. th'[t] = [pc |-> "answer", at |-> th[t].at, answer |-> Null] /\ OthersStand(t)
                  BY <1>1, <2>2, <2>3, Becomes DEF Answered
            <3> QED
                BY <2>1, <3>1 DEF StepTyped, FieldsOK, Shaping, Agreed
      <2>4. CASE e # Null
            <3>1. e \in Entries
                  BY <2>1, <2>4, AnswersTyped
            <3>2. /\ th'[t] = [pc |-> "size", at |-> th[t].at, ptr |-> th[t].ptr, entry |-> e]
                  /\ OthersStand(t)
                  BY <1>1, <2>2, <2>4, Becomes
            <3> QED
                BY <2>1, <3>1, <3>2 DEF StepTyped, FieldsOK, Shaping, Agreed
      <2> QED
          BY <2>3, <2>4
<1>5. CASE ReadSize(t) \/ ReadInfo(t)
      <2>1. th[t].pc \in {"size", "read"} /\ MapTyped' /\ Watching(t) /\ ThreadInv
            BY <1>1, <1>2, <1>5, MapUntouched DEF ReadSize, ReadInfo, At, index
      <2>2. CASE \E x : Answered(t, x)
            <3>. PICK x : Answered(t, x)
                 BY <2>2
            <3>1. th'[t] = [pc |-> "answer", at |-> th[t].at, answer |-> x] /\ OthersStand(t)
                  BY <1>1, Becomes DEF Answered
            <3> QED
                BY <2>1, <3>1 DEF StepTyped, FieldsOK, Shaping, Agreed
      <2>3. CASE Goto(t, "read") /\ th[t].pc = "size"
            <3>1. /\ OthersStand(t) /\ th'[t] = [th[t] EXCEPT !.pc = "read"]
                  BY <1>1, <2>3 DEF ThreadInv, Goto, OthersStand
            <3>2. {"pc", "ptr", "entry"} \subseteq DOMAIN th[t] /\ th[t].entry \in Entries
                  BY <1>1, <2>3 DEF ThreadInv, RecordOK, FieldsOK
            <3>. PICK r : r = th[t]
                 OBVIOUS
            <3>3. th'[t].pc = "read" /\ DOMAIN th'[t] = DOMAIN th[t] /\ th'[t].entry = th[t].entry
                  BY <3>1, <3>2
            <3> QED
                BY <2>1, <3>1, <3>2, <3>3 DEF StepTyped, FieldsOK, Shaping, Agreed
      <2> QED
          BY <1>5, <2>2, <2>3 DEF ReadSize, ReadInfo, At
<1> QED
    BY <1>3, <1>4, <1>5

LEMMA SeekTyped ==
  ASSUME MapTyped, NEW t \in Threads, OthersStand(t), UNCHANGED <<map, value, spare>>,
         th'[t].pc = "seek", "overtaken" \in DOMAIN th'[t], NEW k \in Nat, Seek(t, k)
  PROVE  StepTyped(t)
<1>. PICK w : w = Index(t)!Opened(<<"ge", k>>, map)
     OBVIOUS
<1>1. MapTyped' /\ Watching(t) /\ find'[t] = w
      BY OwnQuery DEF Seek
<1>2. /\ Query \subseteq DOMAIN w /\ w.pc = "open" /\ IsFiniteSet(w.exact)
      /\ w.exact \cup w.loose \subseteq {Null} \cup Entries
      /\ w.query = <<w.query[1], w.query[2]>> /\ w.query[2] = k /\ w.query[1] = "ge"
      BY OpenedFields
<1> QED
    BY <1>1, <1>2 DEF StepTyped, FieldsOK, Shaping, Agreed

LEMMA ClearingTyped ==
  ASSUME RegionInv, MapTyped, FieldInv, NEW t \in Threads,
         \/ \E p \in live : Destroy(t, p)
         \/ NextKey(t) \/ Match(t) \/ DropEntry(t) \/ GoOn(t)
  PROVE  StepTyped(t)
<1>1. ThreadInv /\ FieldsOK(th[t], find[t])
      BY DEF RegionInv, FieldInv
<1>2. CASE \E p \in live : Destroy(t, p)
      <2>1. PICK p \in live : Destroy(t, p)
            BY <1>2
      <2>2. th'[t] = [pc |-> "seek", pool |-> p, overtaken |-> FALSE] /\ OthersStand(t)
            BY <1>1, <2>1, Becomes DEF Destroy
      <2> QED
          BY <2>1, <2>2, SeekTyped DEF Destroy, objects
<1>3. CASE NextKey(t)
      <2>1. th[t].pc = "seek" /\ MapTyped' /\ Watching(t)
            BY <1>3, OwnQuery DEF NextKey, At, objects
      <2>2. PICK e \in Index(t)!Answers(find[t]),
                 o \in {th[t].overtaken \/ Cardinality(find[t].exact) > 1} :
              Become(t, [pc |-> IF e = Null THEN "cleared" ELSE "match", pool |-> th[t].pool,
                         entry |-> e, overtaken |-> o])
            BY <1>3 DEF NextKey
      <2>3. /\ th'[t] = [pc |-> IF e = Null THEN "cleared" ELSE "match", pool |-> th[t].pool,
                         entry |-> e, overtaken |-> o]
            /\ OthersStand(t)
            BY <1>1, <2>2, Becomes
      <2>4. e # Null => e \in Entries
            BY <2>1, AnswersTyped
      <2>5. FieldsOK(th'[t], find'[t])
            BY <2>3, <2>4 DEF FieldsOK, Shaping, Agreed
      <2> QED
          BY <2>1, <2>3, <2>5 DEF StepTyped
<1>4. ASSUME SeekOn(t), th[t].pc \in {"match", "on"}, UNCHANGED <<map, value, spare>>
      PROVE  StepTyped(t)
      <2>1. /\ th'[t] = [pc |-> "seek", pool |-> th[t].pool, overtaken |-> th[t].overtaken]
            /\ OthersStand(t)
            BY <1>1, <1>4, Becomes DEF SeekOn
      <2>2. th[t].entry[1] + 1 \in Nat
            BY <1>1, <1>4, TrackingAssumption DEF FieldsOK, Entries, Addresses
      <2> QED
          BY <1>4, <2>1, <2>2, SeekTyped DEF SeekOn
<1>5. ASSUME NEW pc \in {"drop", "on"}, Goto(t, pc), th[t].pc \in {"match", "drop"}, MapTyped', Watching(t)
      PROVE  StepTyped(t)
      <2>1. /\ OthersStand(t) /\ th'[t] = [th[t] EXCEPT !.pc = pc]
            BY <1>1, <1>5 DEF ThreadInv, Goto, OthersStand
      <2>2. {"pc", "overtaken", "entry"} \subseteq DOMAIN th[t] /\ th[t].entry \in Entries
            BY <1>1, <1>5 DEF ThreadInv, RecordOK, FieldsOK
      <2>3. /\ th'[t].pc = pc /\ DOMAIN th'[t] = DOMAIN th[t] /\ th'[t].entry = th[t].entry
            BY <2>1, <2>2
      <2> QED
          BY <1>5, <2>1, <2>2, <2>3 DEF StepTyped, FieldsOK, Shaping, Agreed
<1>6. CASE Match(t)
      <2>1. th[t].pc = "match" /\ UNCHANGED <<map, value, spare>>
            BY <1>6 DEF Match, At, objects
      <2>2. CASE Goto(t, "drop") /\ UNCHANGED find
            BY <1>5, <2>1, <2>2, MapUntouched
      <2>3. CASE SeekOn(t)
            BY <1>4, <2>1, <2>3
      <2> QED
          BY <1>6, <2>2, <2>3 DEF Match
<1>7. CASE DropEntry(t)
      <2>1. th[t].pc = "drop" /\ th[t].entry[1] \in Addresses
            BY <1>1, <1>7 DEF DropEntry, At, FieldsOK, Entries
      <2>2. MapTyped'
            BY <1>7, <2>1, ForgetTypes DEF DropEntry
      <2>3. Watching(t)
            BY <1>7, SetWatches, MapUntouched DEF DropEntry, Forget, objects, index
      <2> QED
          BY <1>5, <1>7, <2>1, <2>2, <2>3 DEF DropEntry
<1>8. CASE GoOn(t)
      BY <1>4, <1>8 DEF GoOn, At, objects
<1> QED
    BY <1>2, <1>3, <1>6, <1>7, <1>8

ThreadStep(t) ==
  \/ \E p \in live : Destroy(t, p)
                     \/ \E n \in 1 .. MaxSize, o \in BOOLEAN : Alloc(t, p, n, o)
  \/ \E a \in DOMAIN held :
       \/ Free(t, a) \/ GetHandle(t, a)
       \/ \E first \in 1 .. MaxSize : Split(t, a, first)
       \/ \E b \in DOMAIN held : Merge(t, a, b)
       \/ \E ptr \in Bytes(a, held[a].size) : Ask(t, a, ptr)
  \/ Track(t) \/ Uncache(t) \/ PutCached(t) \/ Give(t)
  \/ Lock(t) \/ Compare(t) \/ ShapeUpstream(t) \/ AddHigh(t) \/ Update(t)
  \/ Retire(t) \/ RemoveHigh(t) \/ Unlock(t) \/ Undo(t)
  \/ Found(t) \/ ReadSize(t) \/ ReadInfo(t) \/ Return(t)
  \/ Look(t) \/ GetUpstream(t) \/ Insert(t) \/ PutBack(t)
  \/ NextKey(t) \/ Match(t) \/ DropEntry(t) \/ GoOn(t) \/ Destroyed(t)

LEMMA ThreadTyped ==
  ASSUME RegionInv, RegionInv', MapTyped, FieldInv, NEW t \in Threads, ThreadStep(t)
  PROVE  StepTyped(t)
<1>1. ASSUME NEW a \in DOMAIN held, \E first \in 1 .. MaxSize : Split(t, a, first)
      PROVE  StepTyped(t)
      <2>1. PICK v : Reshaped(t, {a}, v)
            BY <1>1, SplitIs
      <2> QED
          BY <2>1, ReshapedTyped
<1>2. ASSUME NEW a \in DOMAIN held, NEW b \in DOMAIN held, Merge(t, a, b)
      PROVE  StepTyped(t)
      <2>1. PICK v : Reshaped(t, {a, b}, v)
            BY <1>2, MergeIs
      <2> QED
          BY <2>1, ReshapedTyped
<1> QED
    BY <1>1, <1>2, PlainTyped, LockingTyped, TrackTyped, FreeTyped, AddHighTyped, UpdateTyped,
       LaterTyped, QueriesTyped, ClearingTyped DEF ThreadStep

LEMMA NextTyped ==
  ASSUME RegionInv, RegionInv', MapTyped, FieldInv, [Next]_vars
  PROVE  MapTyped' /\ FieldInv'
<1>1. ASSUME NEW t \in Threads, ThreadStep(t)
      PROVE  MapTyped' /\ FieldInv'
      BY <1>1, ThreadTyped, FieldsElsewhere DEF StepTyped
<1>2. ASSUME UNCHANGED <<map, value, spare, find, th>>
      PROVE  MapTyped' /\ FieldInv'
      BY <1>2 DEF MapTyped, FieldInv, Tracked
<1>3. ASSUME NEW p \in Pools, Create(p)
      PROVE  MapTyped' /\ FieldInv'
      BY <1>2, <1>3 DEF Create, index, objects
<1>4. CASE UNCHANGED vars
      BY <1>2, <1>4 DEF vars, index, objects
<1> QED
    BY <1>1, <1>3, <1>4 DEF Next, ThreadStep

-----------------------------------------------------------------------------
(* Who knows of an entry.                                                    *)

LEMMA HeldLand ==
  ASSUME RegionInv, NEW a \in DOMAIN held
  PROVE  /\ a \in Addresses /\ a \in Bytes(a, held[a].size) /\ held[a].pool \in live
         /\ Bytes(a, held[a].size) \subseteq Land(held[a].pool)
         /\ Bytes(a, held[a].size) \subseteq Addresses
<1>1. a \in Addresses /\ a \in Nat /\ held[a].size \in Nat \ {0}
      BY TrackingAssumption DEF RegionInv, HeldInv, GivenInv, Addresses, Reg
<1>2. a \in Bytes(a, held[a].size)
      BY <1>1 DEF Bytes
<1> QED
    BY <1>1, <1>2, LandTyped DEF RegionInv, HeldInv

LEMMA GroundLand ==
  ASSUME RegionInv, NEW t \in Threads, Carries(t)
  PROVE  /\ PoolBy(t) \in live /\ Ground(t) \subseteq Land(PoolBy(t)) /\ Ground(t) \subseteq Addresses
         /\ \A a \in DOMAIN held : Ground(t) \cap Bytes(a, held[a].size) = {} /\ a \notin Ground(t)
         /\ \A s \in Threads \ {t} : Carries(s) => Ground(t) \cap Ground(s) = {}
<1>1. /\ PoolBy(t) \in live /\ Ground(t) \subseteq Land(PoolBy(t))
      /\ \A a \in DOMAIN held : Ground(t) \cap Bytes(a, held[a].size) = {}
      /\ \A s \in Threads \ {t} : Carries(s) => Ground(t) \cap Ground(s) = {}
      BY DEF RegionInv, CarriedInv
<1> QED
    BY <1>1, LandTyped, HeldLand

LEMMA KnownGround ==
  ASSUME RegionInv, NEW t \in Threads, NEW a, KnownTo(t, a)
  PROVE  Carries(t) /\ a \in Ground(t) /\ th[t].pc \in Shaping \cup Shaped
<1>1. th[t].pc \in Shaping \cup Shaped /\ a \in {th[t].at, th[t].high}
      BY DEF KnownTo, LowKnown, HighKnown
<1> QED
    BY <1>1, ShapeParts, ShapeFacts

LEMMA LeavesDead ==
  ASSUME RegionInv, NEW t \in Threads, NEW a, Leaves(t, a)
  PROVE  th[t].pool \notin live /\ a \in Land(th[t].pool) /\ PoolOf(a) = th[t].pool
BY DEF Leaves, RegionInv, ThreadInv

LEMMA HeldKnown ==
  ASSUME RegionInv, ExactInv, NEW a \in DOMAIN held, NEW b \in Bytes(a, held[a].size), Tracked(b)
  PROVE  b = a /\ a \notin untracked /\ Entry(a, held[a]) /\ PoolOf(a) \in live
<1>1. /\ b \in Addresses /\ held[a].pool \in live
      /\ Bytes(a, held[a].size) \subseteq Land(held[a].pool)
      BY HeldLand
<1>2. ASSUME NEW t \in Threads, KnownTo(t, b)
      PROVE  FALSE
      BY <1>2, KnownGround, GroundLand
<1>3. ASSUME NEW t \in Threads, Leaves(t, b)
      PROVE  FALSE
      <2>. PICK p : p = held[a].pool
           OBVIOUS
      <2>. PICK q : q = th[t].pool
           OBVIOUS
      <2>1. q \notin live /\ b \in Land(q) /\ b \in Land(p) /\ p \in live
            BY <1>1, <1>3, LeavesDead
      <2> QED
          BY <2>1, LandApart DEF RegionInv
<1>4. b \in DOMAIN held \ untracked
      BY <1>1, <1>2, <1>3 DEF ExactInv
<1>5. b = a
      BY <1>4, HeldLand DEF RegionInv, HeldInv
<1> QED
    BY <1>1, <1>4, <1>5 DEF ExactInv, Entry

LEMMA GroundKnown ==
  ASSUME RegionInv, ExactInv, NEW t \in Threads, Carries(t), NEW b \in Ground(t), Tracked(b)
  PROVE  KnownTo(t, b)
<1>1. /\ b \in Addresses /\ PoolBy(t) \in live /\ Ground(t) \subseteq Land(PoolBy(t)) /\ b \notin DOMAIN held
      BY GroundLand
<1>2. ASSUME NEW s \in Threads, KnownTo(s, b)
      PROVE  s = t
      <2>1. Carries(s) /\ b \in Ground(s)
            BY <1>2, KnownGround
      <2> QED
          BY <2>1, GroundLand
<1>3. ASSUME NEW s \in Threads, Leaves(s, b)
      PROVE  FALSE
      <2>. PICK p : p = PoolBy(t)
           OBVIOUS
      <2>. PICK q : q = th[s].pool
           OBVIOUS
      <2>1. q \notin live /\ b \in Land(q) /\ b \in Land(p) /\ p \in live
            BY <1>1, <1>3, LeavesDead
      <2> QED
          BY <2>1, LandApart DEF RegionInv
<1>4. \E s \in Threads : KnownTo(s, b)
      BY <1>1, <1>3 DEF ExactInv
<1> QED
    BY <1>2, <1>4

(* The entries a thread knows of belong to a pool that lives. *)
LEMMA KnownEntry ==
  ASSUME RegionInv, ExactInv, NEW t \in Threads, NEW a, KnownTo(t, a)
  PROVE  Tracked(a) /\ PoolOf(a) = PoolBy(t) /\ PoolBy(t) \in live
<1>1. th[t].pc \in Shaping \cup Shaped
      BY DEF KnownTo, LowKnown, HighKnown
<1>2. LowIs(t).pool = PoolBy(t) /\ HighIs(t).pool = PoolBy(t) /\ PoolBy(t) \in live
      BY <1>1, ShapeParts
<1>3. Entry(a, LowIs(t)) \/ Entry(a, HighIs(t))
      BY DEF KnownTo, ExactInv
<1> QED
    BY <1>2, <1>3 DEF Entry

(* What TrackerAdd failed to add is not in the map. *)
LEMMA UntrackedIs ==
  ASSUME RegionInv, ExactInv, NEW t \in Threads, Carries(t), NEW a \in Ground(t), a \in untracked
  PROVE  th[t].pc \in Shaping \cup Shaped /\ a \in DOMAIN th[t].before
<1>1. a \notin DOMAIN held
      BY GroundLand
<1>2. PICK s \in Threads : th[s].pc \in Shaping \cup Shaped /\ a \in DOMAIN th[s].before
      BY <1>1 DEF ExactInv
<1>3. Carries(s) /\ a \in Ground(s)
      BY <1>2, ShapeParts, ShapeFacts
<1>4. s = t
      BY <1>3, GroundLand
<1> QED
    BY <1>2, <1>4

-----------------------------------------------------------------------------
(* A step of one thread, and what it leaves alone.                           *)
Same(a) == map'[a] = map[a] /\ (Tracked(a) => value'[ValueAt(a)] = value[ValueAt(a)])

(* A step of t touches the entries of W only, and nobody else is at work there. *)
Elsewhere(t, W) ==
  /\ OthersStand(t)
  /\ \A a \in Addresses \ W :
       /\ Same(a) /\ (a \in untracked' <=> a \in untracked)
       /\ (a \in DOMAIN held' <=> a \in DOMAIN held)
       /\ a \in DOMAIN held => held'[a] = held[a]
  /\ \A s \in Threads \ {t} :
       /\ Carries(s) => Ground(s) \cap W = {}
       /\ th[s].pc \in Using => Bytes(th[s].at, held[th[s].at].size) \cap W = {}
       /\ th[s].pc \in Clearing =>
            /\ \A b \in Land(th[s].pool) : b \in Land(th[s].pool)'
            /\ \A a \in W : /\ Tracked(a) => PoolOf(a) # th[s].pool
                            /\ Tracked(a)' => PoolOf(a)' # th[s].pool
            /\ \A v \in Values : value'[v].pool = th[s].pool => value[v].pool = th[s].pool

(* What t itself has to see to. *)
OwnExact(t, W) ==
  /\ \A a \in W : a \in DOMAIN held' \ untracked' => Entry(a, held[a])'
  /\ (LowKnown(t) => Entry(th[t].at, LowIs(t)))' /\ (HighKnown(t) => Entry(th[t].high, HighIs(t)))'
  /\ \A a \in W : Tracked(a)' =>
       a \in DOMAIN held' \ untracked' \/ KnownTo(t, a)' \/ Leaves(t, a)'
  /\ \A a \in Addresses \ W : Tracked(a) =>
       (KnownTo(t, a) => KnownTo(t, a)') /\ (Leaves(t, a) => Leaves(t, a)')
  /\ \A a \in W : a \in untracked' =>
       a \in DOMAIN held' \/ (th'[t].pc \in Shaping \cup Shaped /\ a \in DOMAIN th'[t].before)
  /\ \A a \in untracked \ W : th[t].pc \in Shaping \cup Shaped /\ a \in DOMAIN th[t].before =>
                              th'[t].pc \in Shaping \cup Shaped /\ a \in DOMAIN th'[t].before
  /\ th'[t].pc \in Agreed => DOMAIN th'[t].before \cap untracked' = {}

LEMMA SameEntry ==
  ASSUME NEW a, Same(a)
  PROVE  /\ Tracked(a)' <=> Tracked(a)
         /\ Tracked(a) => ValueAt(a)' = ValueAt(a) /\ PoolOf(a)' = PoolOf(a) /\ SizeOf(a)' = SizeOf(a)
         /\ \A r : Entry(a, r) => /\ Tracked(a)' /\ PoolOf(a)' = r.pool /\ SizeOf(a)' = r.size
BY DEF Same, Tracked, ValueAt, PoolOf, SizeOf, Entry

LEMMA OthersKnow ==
  ASSUME RegionInv, NEW t \in Threads, NEW W, Elsewhere(t, W), NEW s \in Threads \ {t}
  PROVE  /\ th'[s] = th[s]
         /\ LowKnown(s)' <=> LowKnown(s)
         /\ HighKnown(s)' <=> HighKnown(s)
         /\ \A a : KnownTo(s, a) <=> KnownTo(s, a)'
         /\ th[s].pc \in Shaping \cup Shaped =>
              /\ Same(th[s].at) /\ Same(th[s].high) /\ th[s].at \in Addresses \ W
              /\ th[s].high \in Addresses \ W
              /\ DOMAIN th[s].before \subseteq Addresses \ W
<1>1. th'[s] = th[s]
      BY DEF Elsewhere, OthersStand
<1>2. ASSUME th[s].pc \in Shaping \cup Shaped
      PROVE  /\ th[s].at \in Addresses \ W /\ th[s].high \in Addresses \ W
             /\ DOMAIN th[s].before \subseteq Addresses \ W
      <2>1. Carries(s) /\ th[s].at \in Ground(s) /\ th[s].high \in Ground(s) /\ Ground(s) \subseteq Addresses
            /\ DOMAIN th[s].before \subseteq {th[s].at, th[s].high}
            BY <1>2, ShapeParts, ShapeFacts
      <2>2. Ground(s) \cap W = {}
            BY <2>1 DEF Elsewhere
      <2> QED
          BY <2>1, <2>2
<1>3. LowKnown(s)' <=> LowKnown(s)
      BY <1>1, <1>2 DEF LowKnown, Elsewhere
<1>4. HighKnown(s)' <=> HighKnown(s)
      BY <1>1, <1>2 DEF HighKnown, Elsewhere
<1>5. \A a : KnownTo(s, a) <=> KnownTo(s, a)'
      BY <1>1, <1>3, <1>4 DEF KnownTo
<1> QED
    BY <1>1, <1>2, <1>3, <1>4, <1>5 DEF Elsewhere

LEMMA ExactElsewhere ==
  ASSUME RegionInv, RegionInv', Types', ExactInv, NEW t \in Threads, NEW W,
         Elsewhere(t, W), OwnExact(t, W)
  PROVE  ExactInv'
<1>1. ASSUME NEW a \in DOMAIN held' \ untracked'
      PROVE  Entry(a, held[a])'
      <2>1. a \in Addresses
            BY DEF RegionInv, HeldInv, GivenInv
      <2>2. CASE a \in W
            BY <2>2 DEF OwnExact
      <2>3. CASE a \notin W
            <3>1. a \in DOMAIN held \ untracked /\ held'[a] = held[a] /\ Same(a)
                  BY <2>1, <2>3 DEF Elsewhere
            <3>2. Entry(a, held[a])
                  BY <3>1 DEF ExactInv
            <3> QED
                BY <3>1, <3>2, SameEntry DEF Entry
      <2> QED
          BY <2>2, <2>3
<1>2. ASSUME NEW s \in Threads
      PROVE  /\ (LowKnown(s) => Entry(th[s].at, LowIs(s)))'
             /\ (HighKnown(s) => Entry(th[s].high, HighIs(s)))'
      <2>1. CASE s = t
            BY <2>1 DEF OwnExact
      <2>2. CASE s # t
            <3>1. /\ th'[s] = th[s] /\ (LowKnown(s)' <=> LowKnown(s)) /\ (HighKnown(s)' <=> HighKnown(s))
                  /\ th[s].pc \in Shaping \cup Shaped => Same(th[s].at) /\ Same(th[s].high)
                  BY <2>2, OthersKnow
            <3>2. LowIs(s)' = LowIs(s) /\ HighIs(s)' = HighIs(s)
                  BY <3>1 DEF LowIs, HighIs
            <3>3. ASSUME LowKnown(s) PROVE Entry(th[s].at, LowIs(s))'
                  <4>1. th[s].pc \in Shaping \cup Shaped
                        BY <3>3 DEF LowKnown
                  <4>2. Entry(th[s].at, LowIs(s)) /\ Same(th[s].at)
                        BY <3>1, <3>3, <4>1 DEF ExactInv
                  <4> QED
                      BY <3>1, <3>2, <4>2 DEF Entry, Same, Tracked, ValueAt, PoolOf, SizeOf
            <3>4. ASSUME HighKnown(s) PROVE Entry(th[s].high, HighIs(s))'
                  <4>1. th[s].pc \in Shaping \cup Shaped
                        BY <3>4 DEF HighKnown
                  <4>2. Entry(th[s].high, HighIs(s)) /\ Same(th[s].high)
                        BY <3>1, <3>4, <4>1 DEF ExactInv
                  <4> QED
                      BY <3>1, <3>2, <4>2 DEF Entry, Same, Tracked, ValueAt, PoolOf, SizeOf
            <3> QED
                BY <3>1, <3>3, <3>4
      <2> QED
          BY <2>1, <2>2
<1>3. ASSUME NEW a \in Addresses, Tracked(a)'
      PROVE  a \in DOMAIN held' \ untracked' \/ \E s \in Threads : KnownTo(s, a)' \/ Leaves(s, a)'
      <2>1. CASE a \in W
            BY <1>3, <2>1 DEF OwnExact
      <2>2. CASE a \notin W
            <3>1. /\ Same(a) /\ (a \in DOMAIN held' \ untracked' <=> a \in DOMAIN held \ untracked)
                  BY <2>2 DEF Elsewhere
            <3>2. Tracked(a) /\ PoolOf(a)' = PoolOf(a)
                  BY <1>3, <3>1, SameEntry
            <3>3. CASE a \in DOMAIN held \ untracked
                  BY <3>1, <3>3
            <3>4. ASSUME NEW s \in Threads, KnownTo(s, a)
                  PROVE  KnownTo(s, a)'
                  <4>1. CASE s = t
                        BY <2>2, <3>2, <3>4, <4>1 DEF OwnExact
                  <4>2. CASE s # t
                        BY <3>4, <4>2, OthersKnow
                  <4> QED
                      BY <4>1, <4>2
            <3>5. ASSUME NEW s \in Threads, Leaves(s, a)
                  PROVE  Leaves(s, a)'
                  <4>1. CASE s = t
                        BY <2>2, <3>2, <3>5, <4>1 DEF OwnExact
                  <4>2. CASE s # t
                        <5>1. th'[s] = th[s] /\ th[s].pc \in Clearing /\ PoolOf(a) = th[s].pool
                              BY <3>5, <4>2 DEF Leaves, Elsewhere, OthersStand
                        <5>2. a \in Land(th[s].pool)'
                              BY <3>5, <4>2, <5>1 DEF Leaves, Elsewhere
                        <5> QED
                            BY <3>2, <5>1, <5>2 DEF Leaves
                  <4> QED
                      BY <4>1, <4>2
            <3> QED
                BY <3>2, <3>3, <3>4, <3>5 DEF ExactInv
      <2> QED
          BY <2>1, <2>2
<1>4. ASSUME NEW a \in untracked'
      PROVE  a \in DOMAIN held' \/ \E s \in Threads : th'[s].pc \in Shaping \cup Shaped
                                                      /\ a \in DOMAIN th'[s].before
      <2>1. a \in Addresses
            BY DEF Types
      <2>2. CASE a \in W
            BY <2>2 DEF OwnExact
      <2>3. CASE a \notin W
            <3>1. a \in untracked /\ (a \in DOMAIN held' <=> a \in DOMAIN held)
                  BY <2>1, <2>3 DEF Elsewhere
            <3>2. ASSUME NEW s \in Threads, th[s].pc \in Shaping \cup Shaped, a \in DOMAIN th[s].before
                  PROVE  th'[s].pc \in Shaping \cup Shaped /\ a \in DOMAIN th'[s].before
                  <4>1. CASE s = t
                        BY <2>3, <3>1, <3>2, <4>1 DEF OwnExact
                  <4>2. CASE s # t
                        BY <3>2, <4>2, OthersKnow
                  <4> QED
                      BY <4>1, <4>2
            <3> QED
                BY <3>1, <3>2 DEF ExactInv
      <2> QED
          BY <2>2, <2>3
<1>5. ASSUME NEW s \in Threads, th'[s].pc \in Agreed
      PROVE  DOMAIN th'[s].before \cap untracked' = {}
      <2>1. CASE s = t
            BY <1>5, <2>1 DEF OwnExact
      <2>2. CASE s # t
            <3>1. th'[s] = th[s] /\ (th[s].pc \in Shaping \cup Shaped => DOMAIN th[s].before \subseteq Addresses \ W)
                  BY <2>2, OthersKnow
            <3>2. DOMAIN th[s].before \subseteq Addresses \ W
                  BY <1>5, <3>1 DEF Agreed, Shaping
            <3>3. DOMAIN th[s].before \cap untracked = {}
                  BY <1>5, <3>1 DEF ExactInv
            <3> QED
                BY <3>1, <3>2, <3>3 DEF Elsewhere
      <2> QED
          BY <2>1, <2>2
<1> QED
    BY <1>1, <1>2, <1>3, <1>4, <1>5 DEF ExactInv

-----------------------------------------------------------------------------
(* The other threads' queries.                                             *)

LEMMA NotNull == Null \notin Entries
BY TrackingAssumption DEF Entries

(* The entry of a region is the nearest one to every pointer into it. *)
LEMMA NearestHeld ==
  ASSUME NEW t \in Threads, NEW a \in Addresses, NEW n \in Nat, NEW ptr \in Bytes(a, n), NEW m,
         m[a] # Null, \A b \in Addresses : b \in Bytes(a, n) /\ m[b] # Null => b = a
  PROVE  Index(t)!Exact(<<"le", ptr>>, m) = m[a]
<1>1. a \in Nat /\ ptr \in Nat /\ ptr >= a /\ ptr <= a + n - 1
      BY TrackingAssumption DEF Addresses, Bytes
<1>2. a \in Beside("le", ptr, m)
      BY <1>1 DEF Beside
<1>3. ASSUME NEW b \in Beside("le", ptr, m)
      PROVE  a >= b
      <2>1. b \in Addresses /\ m[b] # Null /\ b <= ptr /\ b \in Nat
            BY TrackingAssumption DEF Beside, Addresses
      <2>2. CASE b \in Bytes(a, n)
            BY <1>1, <2>1, <2>2
      <2>3. CASE b \notin Bytes(a, n)
            BY <1>1, <2>1, <2>3 DEF Bytes
      <2> QED
          BY <2>2, <2>3
<1>4. Nearest(Beside("le", ptr, m), a, "le")
      BY <1>2, <1>3 DEF Nearest
<1>. PICK q : q = "le"
     OBVIOUS
<1> QED
    BY <1>4, ExactIs

LEMMA QueryElsewhere ==
  ASSUME RegionInv, MapTyped, FieldInv, ExactInv, QueryInv, NEW t \in Threads, NEW W,
         Elsewhere(t, W), Watching(t), NEW s \in Threads \ {t}
  PROVE  QueryOf(s)'
<1>. DEFINE a == th[s].at
            n == held[a].size
<1>1. th'[s] = th[s]
      BY DEF Elsewhere, OthersStand
<1> SUFFICES ASSUME th[s].pc \in Using, a \notin untracked'
             PROVE  QueryOf(s)'
    BY <1>1 DEF QueryOf
<1>2. /\ a \in DOMAIN held /\ a \in Addresses /\ a \in Bytes(a, n) /\ Bytes(a, n) \subseteq Addresses
      /\ n \in Nat
      BY HeldLand DEF RegionInv, UsedInv, HeldInv, Reg
<1>3. \A b \in Bytes(a, n) : b \in Addresses \ W
      BY <1>2 DEF Elsewhere
<1>4. /\ a \notin untracked /\ a \in DOMAIN held' /\ held'[a] = held[a] /\ map'[a] = map[a]
      /\ \A b \in Bytes(a, n) : Same(b)
      BY <1>2, <1>3 DEF Elsewhere, Same
<1>5. Tracked(a)
      BY <1>2, <1>4 DEF ExactInv, Entry
<1>6. /\ th[s].pc = "find" => find[s].query = <<"le", th[s].ptr>> /\ find[s].exact = {map[a]}
      /\ th[s].pc \in {"size", "read"} => th[s].entry = map[a]
      /\ th[s].pc \in {"find", "size", "read"} => th[s].ptr \in Bytes(a, n)
      /\ th[s].pc = "answer" => th[s].answer = [base |-> a, pool |-> held[a].pool, size |-> n]
      BY <1>4 DEF QueryInv, QueryOf
<1>7. th[s].pc = "find" => find'[s].query = <<"le", th[s].ptr>> /\ find'[s].exact = {map'[a]}
      <2> SUFFICES ASSUME th[s].pc = "find"
                   PROVE  find'[s].query = <<"le", th[s].ptr>> /\ find'[s].exact = {map'[a]}
          OBVIOUS
      <2>1. CASE find'[s] = find[s]
            BY <1>4, <1>6, <2>1
      <2>2. CASE find'[s] = Index(s)!Watch(find[s], map')
            <3>. PICK c : c = find[s]
                 OBVIOUS
            <3>. PICK w : w = Index(s)!Watch(c, map')
                 OBVIOUS
            <3>. PICK ptr : ptr = th[s].ptr
                 OBVIOUS
            <3>1. c.pc = "open" /\ Query \subseteq DOMAIN c /\ c.query = <<"le", ptr>>
                  BY <1>6 DEF FieldInv, FieldsOK
            <3>2. \A b \in Addresses : b \in Bytes(a, n) /\ map'[b] # Null => b = a
                  BY <1>2, <1>4, HeldKnown DEF Same, Tracked
            <3>3. Index(s)!Exact(<<"le", ptr>>, map') = map'[a]
                  BY <1>2, <1>4, <1>5, <1>6, <3>2, NearestHeld DEF Tracked
            <3>4. w.query = c.query /\ w.exact = c.exact \cup {Index(s)!Exact(c.query, map')}
                  BY <3>1, WatchOpen
            <3> QED
                BY <1>4, <1>6, <2>2, <3>1, <3>3, <3>4
      <2> QED
          BY <2>1, <2>2 DEF Watching
<1> QED
    BY <1>1, <1>4, <1>6, <1>7 DEF QueryOf

LEMMA ClearElsewhere ==
  ASSUME RegionInv, MapTyped, MapTyped', FieldInv, ClearInv, NEW t \in Threads, NEW W,
         Elsewhere(t, W), Watching(t), NEW s \in Threads \ {t}
  PROVE  ClearOf(s)'
<1>. DEFINE p == th[s].pool
            Next1(e) == value'[e[2]].pool = p => map'[e[1]] = e
<1>1. th'[s] = th[s] /\ ClearOf(s) /\ FieldsOK(th[s], find[s])
      BY DEF Elsewhere, OthersStand, ClearInv, FieldInv
<1> SUFFICES ASSUME th[s].pc \in Clearing
             PROVE  ClearOf(s)'
    BY <1>1 DEF ClearOf, Clearing
<1>2. /\ \A a \in W : (Tracked(a) => PoolOf(a) # p) /\ (Tracked(a)' => PoolOf(a)' # p)
      /\ \A v \in Values : value'[v].pool = p => value[v].pool = p
      BY DEF Elsewhere
<1>3. ASSUME NEW e \in Entries, Stands(e, p)
      PROVE  Next1(e)
      <2> SUFFICES ASSUME value'[e[2]].pool = p
                   PROVE  map'[e[1]] = e
          OBVIOUS
      <2>1. e[1] \in Addresses /\ e[2] \in Values /\ e # Null
            BY NotNull DEF Entries
      <2>2. value[e[2]].pool = p
            BY <1>2, <2>1
      <2>3. map[e[1]] = e
            BY <1>3, <2>2 DEF Stands
      <2>4. Tracked(e[1]) /\ PoolOf(e[1]) = p
            BY <2>1, <2>2, <2>3 DEF Tracked, PoolOf, ValueAt
      <2>5. e[1] \notin W
            BY <1>2, <2>4
      <2> QED
          BY <2>1, <2>3, <2>5 DEF Elsewhere, Same
<1>4. ASSUME NEW a \in Addresses, Tracked(a)', PoolOf(a)' = p
      PROVE  Tracked(a) /\ PoolOf(a) = p /\ map'[a] = map[a]
      <2>1. a \notin W
            BY <1>2, <1>4
      <2> QED
          BY <1>4, <2>1, SameEntry DEF Elsewhere, Same
<1>5. ASSUME NEW k, Floor(s, k)
      PROVE  ~th'[s].overtaken => \A a \in Addresses : Tracked(a)' /\ PoolOf(a)' = th'[s].pool => a >= k
      BY <1>1, <1>4, <1>5 DEF Floor
<1>6. CASE th[s].pc = "seek"
      <2>. PICK c : c = find[s]
           OBVIOUS
      <2>. PICK w : w = find'[s]
           OBVIOUS
      <2>1. /\ \A e \in c.exact \cup c.loose : e # Null => Stands(e, p)
            /\ Index(s)!Exact(c.query, map) \in c.exact /\ Floor(s, c.query[2])
            BY <1>1, <1>6 DEF ClearOf
      <2>2. /\ c.pc = "open" /\ Query \subseteq DOMAIN c /\ c.exact \cup c.loose \subseteq {Null} \cup Entries
            /\ c.query = <<c.query[1], c.query[2]>> /\ c.query[1] = "ge"
            BY <1>1, <1>6 DEF FieldsOK
      <2>. PICK k : k = c.query[2]
           OBVIOUS
      <2>. PICK ge : ge = "ge"
           OBVIOUS
      <2>3. /\ \A e \in w.exact \cup w.loose : e # Null => Next1(e)
            /\ Index(s)!Exact(w.query, map') \in w.exact /\ w.query[2] = k
            <3>1. \A e \in c.exact \cup c.loose : e # Null => Next1(e)
                  BY <1>3, <2>1, <2>2
            <3>2. CASE w = c /\ map' = map
                  BY <2>1, <3>1, <3>2
            <3>3. CASE w = Index(s)!Watch(c, map')
                  <4>. PICK x : x = Index(s)!Exact(c.query, map')
                       OBVIOUS
                  <4>. PICK l : l = Index(s)!Loose(c.query, map')
                       OBVIOUS
                  <4>1. w.query = c.query /\ w.exact = c.exact \cup {x} /\ w.loose = c.loose \cup l
                        BY <2>2, <3>3, WatchOpen
                  <4>2. \A b \in Beside(ge, k, map') : Next1(map'[b])
                        <5>1. \A b \in Beside(ge, k, map') : map'[b][1] = b
                              BY DEF Beside, MapTyped, Tracked
                        <5> QED
                            BY <5>1
                  <4>3. x = Null \/ \E b \in Beside(ge, k, map') : x = map'[b]
                        BY <2>2, ExactCases
                  <4>4. l = {map'[b] : b \in Beside(ge, k, map')}
                        <5>1. c.query = <<ge, k>> /\ ge \in {"le", "ge"}
                              BY <2>2
                        <5> QED
                            BY <5>1, BesideIs
                  <4> QED
                      BY <3>1, <4>1, <4>2, <4>3, <4>4
            <3> QED
                BY <3>2, <3>3 DEF Watching
      <2>4. Floor(s, w.query[2])'
            BY <1>5, <2>1, <2>3 DEF Floor
      <2> QED
          BY <1>1, <1>6, <2>3, <2>4 DEF ClearOf, Stands
<1>7. CASE th[s].pc = "match"
      <2>1. th[s].entry \in Entries
            BY <1>1, <1>7 DEF FieldsOK
      <2>2. Stands(th[s].entry, p)' /\ Floor(s, th[s].entry[1])'
            BY <1>1, <1>3, <1>5, <1>7, <2>1 DEF ClearOf, Stands, Floor
      <2>3. (~th[s].overtaken /\ Tracked(th[s].entry[1]) /\ PoolOf(th[s].entry[1]) = p
               => map[th[s].entry[1]] = th[s].entry)'
            <3>1. th[s].entry[1] \in Addresses
                  BY <2>1 DEF Entries
            <3> QED
                BY <1>1, <1>4, <1>7, <3>1 DEF ClearOf
      <2> QED
          BY <1>1, <1>7, <2>2, <2>3 DEF ClearOf
<1>8. CASE th[s].pc = "drop"
      <2>1. th[s].entry \in Entries /\ th[s].entry[1] \in Addresses /\ th[s].entry[2] \in Values
            BY <1>1, <1>8 DEF FieldsOK, Entries
      <2>2. /\ value[th[s].entry[2]].pool = p /\ map[th[s].entry[1]] = th[s].entry
            /\ Floor(s, th[s].entry[1])
            BY <1>1, <1>8 DEF ClearOf
      <2>3. Tracked(th[s].entry[1]) /\ PoolOf(th[s].entry[1]) = p /\ ValueAt(th[s].entry[1]) = th[s].entry[2]
            BY <2>1, <2>2, NotNull DEF Tracked, PoolOf, ValueAt
      <2>4. th[s].entry[1] \notin W
            BY <1>2, <2>3
      <2>5. /\ map'[th[s].entry[1]] = th[s].entry
            /\ value'[th[s].entry[2]] = value[th[s].entry[2]]
            BY <2>1, <2>2, <2>3, <2>4 DEF Elsewhere, Same
      <2>6. Floor(s, th[s].entry[1])'
            BY <1>1, <1>5, <2>2 DEF Floor
      <2> QED
          BY <1>1, <1>8, <2>2, <2>5, <2>6 DEF ClearOf
<1>9. CASE th[s].pc = "on"
      <2>1. Floor(s, th[s].entry[1] + 1)'
            BY <1>1, <1>5, <1>9 DEF ClearOf, Floor
      <2> QED
          BY <1>1, <1>9, <2>1 DEF ClearOf
<1>10. CASE th[s].pc = "cleared"
      <2>1. ~th[s].overtaken => \A a \in Addresses : Tracked(a) => PoolOf(a) # p
            BY <1>1, <1>10 DEF ClearOf
      <2> QED
          BY <1>1, <1>4, <1>10, <2>1 DEF ClearOf
<1> QED
    BY <1>6, <1>7, <1>8, <1>9, <1>10 DEF Clearing

-----------------------------------------------------------------------------
(* The values, one by one.                                                 *)

(* The step of t moves v from one owner to the next. *)
LEMMA ValueStays ==
  ASSUME NEW v, OwnedOnce(v), v \in spare' <=> v \in spare,
         \A a \in Addresses : Holds(a, v)' <=> Holds(a, v),
         \A s \in Threads : InHand(s, v)' <=> InHand(s, v)
  PROVE  OwnedOnce(v)'
BY DEF OwnedOnce

LEMMA ValueAdded ==
  ASSUME NEW v, OwnedOnce(v), v \in spare, v \notin spare', NEW a \in Addresses, Holds(a, v)',
         \A b \in Addresses \ {a} : Holds(b, v)' <=> Holds(b, v),
         \A s \in Threads : InHand(s, v)' <=> InHand(s, v)
  PROVE  OwnedOnce(v)'
BY DEF OwnedOnce

LEMMA ValueForgotten ==
  ASSUME NEW v, OwnedOnce(v), v \in spare', NEW a \in Addresses, Holds(a, v), ~Holds(a, v)',
         \A b \in Addresses \ {a} : Holds(b, v)' <=> Holds(b, v),
         \A s \in Threads : InHand(s, v)' <=> InHand(s, v)
  PROVE  OwnedOnce(v)'
BY DEF OwnedOnce

LEMMA ValueTaken ==
  ASSUME NEW v, OwnedOnce(v), v \in spare, v \notin spare', NEW t \in Threads, InHand(t, v)',
         \A a \in Addresses : Holds(a, v)' <=> Holds(a, v),
         \A s \in Threads \ {t} : InHand(s, v)' <=> InHand(s, v)
  PROVE  OwnedOnce(v)'
BY DEF OwnedOnce

LEMMA ValueReturned ==
  ASSUME NEW v, OwnedOnce(v), v \in spare', NEW t \in Threads, InHand(t, v), ~InHand(t, v)',
         \A a \in Addresses : Holds(a, v)' <=> Holds(a, v),
         \A s \in Threads \ {t} : InHand(s, v)' <=> InHand(s, v)
  PROVE  OwnedOnce(v)'
BY DEF OwnedOnce

LEMMA ValueEntered ==
  ASSUME NEW v, OwnedOnce(v), v \in spare' <=> v \in spare,
         NEW t \in Threads, InHand(t, v), ~InHand(t, v)', NEW a \in Addresses, Holds(a, v)',
         \A b \in Addresses \ {a} : Holds(b, v)' <=> Holds(b, v),
         \A s \in Threads \ {t} : InHand(s, v)' <=> InHand(s, v)
  PROVE  OwnedOnce(v)'
BY DEF OwnedOnce

LEMMA ValueReplaced ==
  ASSUME NEW v, OwnedOnce(v), v \in spare' <=> v \in spare,
         NEW t \in Threads, InHand(t, v)', NEW a \in Addresses, Holds(a, v), ~Holds(a, v)',
         \A b \in Addresses \ {a} : Holds(b, v)' <=> Holds(b, v),
         \A s \in Threads \ {t} : InHand(s, v)' <=> InHand(s, v)
  PROVE  OwnedOnce(v)'
BY DEF OwnedOnce

LEMMA HandsStand ==
  ASSUME NEW t \in Threads, OthersStand(t)
  PROVE  \A s \in Threads \ {t} : \A v : InHand(s, v)' <=> InHand(s, v)
BY DEF OthersStand, InHand

(* The values the other threads have in hand stay as they are. *)
HandsKept(t) == \A s \in Threads \ {t} : th[s].pc \in Shaping => value'[th[s].new] = value[th[s].new]

LEMMA AddIs ==
  ASSUME MapTyped, ValueInv, FieldInv, NEW a \in Addresses, NEW p, NEW n, Add(a, p, n),
         NEW t \in Threads, OthersStand(t), \A v : InHand(t, v)' <=> InHand(t, v)
  PROVE  /\ map'[a] # Null /\ PoolOf(a)' = p /\ SizeOf(a)' = n /\ ~Tracked(a)
         /\ \A b \in Addresses \ {a} : Same(b)
         /\ \A w \in Values : value'[w] = value[w] \/ value'[w].pool = p
         /\ \A v \in Values : OwnedOnce(v)'
         /\ HandsKept(t) /\ (th[t].pc \in Shaping => value'[th[t].new] = value[th[t].new])
<1>1. PICK v \in spare :
        /\ value' = [value EXCEPT ![v] = [pool |-> p, size |-> n]]
        /\ spare' = spare \ {v} /\ map' = [map EXCEPT ![a] = <<a, v>>] /\ ~Tracked(a)
      BY DEF Add, SetMap
<1>2. v \in Values /\ <<a, v>> # Null /\ OwnedOnce(v)
      BY <1>1, NotNull DEF MapTyped, Entries, ValueInv
<1>3. /\ map'[a] = <<a, v>> /\ \A b \in Addresses \ {a} : map'[b] = map[b]
      /\ value'[v] = [pool |-> p, size |-> n] /\ \A w \in Values \ {v} : value'[w] = value[w]
      BY <1>1, <1>2 DEF MapTyped
<1>4. \A b \in Addresses : Tracked(b) => ValueAt(b) \in Values /\ ValueAt(b) # v
      BY <1>1, <1>2, TrackedEntry DEF OwnedOnce, Holds
<1>5. \A b \in Addresses \ {a} : Same(b)
      BY <1>3, <1>4 DEF Same
<1>6. \A w : \A b \in Addresses \ {a} : Holds(b, w)' <=> Holds(b, w)
      BY <1>3 DEF Holds, Tracked, ValueAt
<1>7. Holds(a, v)' /\ \A w : w # v => ~Holds(a, w)' /\ ~Holds(a, w)
      BY <1>1, <1>2, <1>3 DEF Holds, Tracked, ValueAt
<1>8. \A s \in Threads : \A w : InHand(s, w)' <=> InHand(s, w)
      BY HandsStand
<1>9. ASSUME NEW w \in Values PROVE OwnedOnce(w)'
      <2>1. CASE w = v
            BY <1>1, <1>2, <1>6, <1>7, <1>8, <2>1, ValueAdded
      <2>2. CASE w # v
            <3>1. w \in spare' <=> w \in spare
                  BY <1>1, <2>2
            <3>2. \A b \in Addresses : Holds(b, w)' <=> Holds(b, w)
                  BY <1>6, <1>7, <2>2
            <3>3. OwnedOnce(w)
                  BY DEF ValueInv
            <3> QED
                BY <1>8, <3>1, <3>2, <3>3, ValueStays
      <2> QED
          BY <2>1, <2>2
<1>10. HandsKept(t) /\ (th[t].pc \in Shaping => value'[th[t].new] = value[th[t].new])
      <2>1. ASSUME NEW s \in Threads, th[s].pc \in Shaping
            PROVE  th[s].new \in Values /\ th[s].new # v
            BY <1>1, <1>2, <2>1 DEF FieldInv, FieldsOK, OwnedOnce, InHand
      <2> QED
          BY <1>3, <2>1 DEF HandsKept
<1> QED
    BY <1>1, <1>2, <1>3, <1>5, <1>9, <1>10 DEF PoolOf, SizeOf, ValueAt

LEMMA ForgetIs ==
  ASSUME MapTyped, ValueInv, FieldInv, NEW a \in Addresses, Forget(a), Tracked(a),
         NEW t \in Threads, OthersStand(t), \A v : InHand(t, v)' <=> InHand(t, v)
  PROVE  /\ ~Tracked(a)'
         /\ \A b \in Addresses \ {a} : Same(b)
         /\ \A w \in Values : value'[w] = value[w] \/ value'[w].pool = Null
         /\ \A v \in Values : OwnedOnce(v)'
         /\ HandsKept(t)
<1>. PICK v : v = ValueAt(a)
     OBVIOUS
<1>1. v \in Values /\ OwnedOnce(v) /\ Holds(a, v)
      BY TrackedEntry DEF ValueInv, Holds
<1>2. /\ spare' = spare \cup {v} /\ map' = [map EXCEPT ![a] = Null] /\ FreeValue(v)
      BY DEF Forget, FreeValue, SetMap
<1>3. /\ map'[a] = Null /\ \A b \in Addresses \ {a} : map'[b] = map[b]
      /\ value'[v].pool = Null /\ \A w \in Values \ {v} : value'[w] = value[w]
      BY <1>1, <1>2 DEF MapTyped, FreeValue
<1>4. \A b \in Addresses \ {a} : Tracked(b) => ValueAt(b) \in Values /\ ValueAt(b) # v
      BY <1>1, TrackedEntry DEF OwnedOnce, Holds
<1>5. \A b \in Addresses \ {a} : Same(b)
      BY <1>3, <1>4 DEF Same
<1>6. \A w : \A b \in Addresses \ {a} : Holds(b, w)' <=> Holds(b, w)
      BY <1>3 DEF Holds, Tracked, ValueAt
<1>7. \A w : ~Holds(a, w)' /\ (w # v => ~Holds(a, w))
      BY <1>3 DEF Holds, Tracked
<1>8. \A s \in Threads : \A w : InHand(s, w)' <=> InHand(s, w)
      BY HandsStand
<1>9. ASSUME NEW w \in Values PROVE OwnedOnce(w)'
      <2>1. CASE w = v
            BY <1>1, <1>2, <1>6, <1>7, <1>8, <2>1, ValueForgotten
      <2>2. CASE w # v
            <3>1. w \in spare' <=> w \in spare
                  BY <1>2, <2>2
            <3>2. \A b \in Addresses : Holds(b, w)' <=> Holds(b, w)
                  BY <1>6, <1>7, <2>2
            <3>3. OwnedOnce(w)
                  BY DEF ValueInv
            <3> QED
                BY <1>8, <3>1, <3>2, <3>3, ValueStays
      <2> QED
          BY <2>1, <2>2
<1>10. HandsKept(t)
      <2>1. ASSUME NEW s \in Threads, th[s].pc \in Shaping
            PROVE  th[s].new \in Values /\ th[s].new # v
            BY <1>1, <2>1 DEF FieldInv, FieldsOK, OwnedOnce, InHand
      <2> QED
          BY <1>3, <2>1 DEF HandsKept
<1> QED
    BY <1>3, <1>5, <1>9, <1>10 DEF Tracked

(* A value in hand goes back to the base allocator. *)
LEMMA ReturnIs ==
  ASSUME MapTyped, ValueInv, FieldInv, NEW t \in Threads, NEW v \in Values, FreeValue(v), map' = map,
         OthersStand(t), InHand(t, v), \A w : ~InHand(t, w)', \A w : w # v => ~InHand(t, w)
  PROVE  /\ \A b \in Addresses : Same(b)
         /\ \A w \in Values : value'[w] = value[w] \/ value'[w].pool = Null
         /\ \A w \in Values : OwnedOnce(w)'
         /\ HandsKept(t)
<1>1. OwnedOnce(v)
      BY DEF ValueInv
<1>2. /\ spare' = spare \cup {v}
      /\ value'[v].pool = Null /\ \A w \in Values \ {v} : value'[w] = value[w]
      BY DEF MapTyped, FreeValue
<1>3. \A b \in Addresses : Tracked(b) => ValueAt(b) \in Values /\ ValueAt(b) # v
      BY <1>1, TrackedEntry DEF OwnedOnce, Holds
<1>4. \A b \in Addresses : Same(b)
      BY <1>2, <1>3 DEF Same
<1>5. \A w : \A b \in Addresses : Holds(b, w)' <=> Holds(b, w)
      BY DEF Holds, Tracked, ValueAt
<1>6. \A s \in Threads \ {t} : \A w : InHand(s, w)' <=> InHand(s, w)
      BY HandsStand
<1>7. ASSUME NEW w \in Values PROVE OwnedOnce(w)'
      <2>1. CASE w = v
            BY <1>1, <1>2, <1>5, <1>6, <2>1, ValueReturned
      <2>2. CASE w # v
            <3>1. w \in spare' <=> w \in spare
                  BY <1>2, <2>2
            <3>2. \A s \in Threads : InHand(s, w)' <=> InHand(s, w)
                  BY <1>6, <2>2
            <3>3. OwnedOnce(w)
                  BY DEF ValueInv
            <3> QED
                BY <1>5, <3>1, <3>2, <3>3, ValueStays
      <2> QED
          BY <2>1, <2>2
<1>8. HandsKept(t)
      <2>1. ASSUME NEW s \in Threads \ {t}, th[s].pc \in Shaping
            PROVE  th[s].new \in Values /\ th[s].new # v
            BY <1>1, <2>1 DEF FieldInv, FieldsOK, OwnedOnce, InHand
      <2> QED
          BY <1>2, <2>1 DEF HandsKept
<1> QED
    BY <1>2, <1>4, <1>7, <1>8

(* Nothing happens to map and values. *)
LEMMA ValuesKept ==
  ASSUME ValueInv, UNCHANGED <<map, value, spare>>, NEW t \in Threads, OthersStand(t),
         \A v : InHand(t, v)' <=> InHand(t, v)
  PROVE  /\ \A b \in Addresses : Same(b)
         /\ \A v \in Values : OwnedOnce(v)'
         /\ HandsKept(t)
<1>1. \A b \in Addresses : Same(b)
      BY DEF Same
<1>2. \A w : \A b \in Addresses : Holds(b, w)' <=> Holds(b, w)
      BY DEF Holds, Tracked, ValueAt
<1>3. \A s \in Threads : \A w : InHand(s, w)' <=> InHand(s, w)
      BY HandsStand
<1> QED
    BY <1>1, <1>2, <1>3, ValueStays DEF ValueInv, HandsKept

LEMMA AgreementStep ==
  ASSUME RegionInv, RegionInv', Types', MapTyped, MapTyped', FieldInv, Agreement,
         NEW t \in Threads, NEW W, Elsewhere(t, W), Watching(t), OwnExact(t, W),
         \A v \in Values : OwnedOnce(v)', HandsKept(t),
         SeenOf(t)', ClearOf(t)', QueryOf(t)',
         th'[t].pc \in Clearing =>
           (th[t].pc \in Clearing /\ th'[t].pool = th[t].pool) \/ th'[t].pool \in live
  PROVE  Agreement'
<1>1. ExactInv /\ ValueInv /\ ClearInv /\ QueryInv /\ OthersStand(t)
      BY DEF Agreement, Elsewhere
<1>2. ExactInv'
      BY <1>1, ExactElsewhere
<1>3. ASSUME NEW s \in Threads \ {t}
      PROVE  SeenOf(s)'
      <2>1. th'[s] = th[s] /\ SeenOf(s) /\ (th[s].pc \in Shaping \cup Shaped => Same(th[s].at))
            BY <1>1, OthersKnow DEF ValueInv
      <2>2. th[s].pc \in Shaping => value'[th[s].new] = value[th[s].new]
            BY DEF HandsKept
      <2> QED
          BY <2>1, <2>2 DEF SeenOf, Agreed, Shaping, Same
<1>4. ValueInv'
      BY <1>3 DEF ValueInv
<1>5. QueryInv'
      BY <1>1, QueryElsewhere DEF QueryInv
<1>6. \A s \in Threads : ClearOf(s)'
      BY <1>1, ClearElsewhere
<1>7. ASSUME NEW s \in Threads, NEW r \in Threads \ {s}, th'[s].pc \in Clearing, th'[r].pc \in Clearing
      PROVE  th'[r].pool # th'[s].pool
      <2>1. \A x \in Threads \ {t} : th'[x] = th[x] /\ (th[x].pc \in Clearing => th[x].pool \notin live)
            BY <1>1 DEF OthersStand, RegionInv, ThreadInv
      <2> QED
          BY <1>1, <1>7, <2>1 DEF ClearInv
<1>8. ClearInv'
      BY <1>6, <1>7 DEF ClearInv
<1> QED
    BY <1>2, <1>4, <1>5, <1>8 DEF Agreement

-----------------------------------------------------------------------------
(* Where a step does its work. *)
Outside(W) ==
  \A a \in Addresses \ W :
    /\ Same(a) /\ (a \in untracked' <=> a \in untracked)
    /\ (a \in DOMAIN held' <=> a \in DOMAIN held)
    /\ a \in DOMAIN held => held'[a] = held[a]

(* The pools that do not exist keep their land, and get no values. *)
DeadKept(W) ==
  /\ \A p, b : p \notin live /\ b \in Land(p) => b \in Land(p)'
  /\ \A a \in W : Tracked(a)' => PoolOf(a)' \in live
  /\ \A v \in Values : value'[v] = value[v] \/ value'[v].pool \in live \cup {Null}

LEMMA ClearerDead ==
  ASSUME RegionInv, NEW s \in Threads, th[s].pc \in Clearing
  PROVE  th[s].pool \notin live \cup {Null}
BY TrackingAssumption DEF RegionInv, ThreadInv

LEMMA ElseGround ==
  ASSUME RegionInv, ExactInv, NEW t \in Threads, OthersStand(t), NEW W, Outside(W), DeadKept(W),
         W = {} \/ (Carries(t) /\ W \subseteq Ground(t))
  PROVE  Elsewhere(t, W)
<1>1. ASSUME NEW s \in Threads \ {t}, Carries(s)
      PROVE  Ground(s) \cap W = {}
      BY <1>1, GroundLand
<1>2. ASSUME NEW s \in Threads \ {t}, th[s].pc \in Using
      PROVE  Bytes(th[s].at, held[th[s].at].size) \cap W = {}
      <2>1. th[s].at \in DOMAIN held
            BY <1>2 DEF RegionInv, UsedInv
      <2> QED
          BY <2>1, GroundLand
<1>3. ASSUME NEW s \in Threads \ {t}, th[s].pc \in Clearing
      PROVE  /\ \A b \in Land(th[s].pool) : b \in Land(th[s].pool)'
             /\ \A a \in W : /\ Tracked(a) => PoolOf(a) # th[s].pool
                             /\ Tracked(a)' => PoolOf(a)' # th[s].pool
             /\ \A v \in Values : value'[v].pool = th[s].pool => value[v].pool = th[s].pool
      <2>. PICK q : q = th[s].pool
           OBVIOUS
      <2>1. q \notin live \cup {Null}
            BY <1>3, ClearerDead
      <2>2. th'[s] = th[s]
            BY DEF OthersStand
      <2>3. \A b \in Land(q) : b \in Land(q)'
            BY <2>1 DEF DeadKept
      <2>4. \A a \in W : Tracked(a) => PoolOf(a) \in live
            BY GroundKnown, KnownEntry
      <2>5. /\ \A a \in W : Tracked(a)' => PoolOf(a)' # q
            /\ \A v \in Values : value'[v].pool = q => value[v].pool = q
            BY <2>1 DEF DeadKept
      <2>6. \A b \in Land(th[s].pool) : b \in Land(th[s].pool)'
            BY <2>2, <2>3 DEF Land
      <2> QED
          BY <2>1, <2>4, <2>5, <2>6
<1> QED
    BY <1>1, <1>2, <1>3 DEF Elsewhere, Outside

LEMMA ElseHeld ==
  ASSUME RegionInv, ExactInv, NEW t \in Threads, OthersStand(t), NEW W \in SUBSET DOMAIN held,
         Outside(W), DeadKept(W), \A a \in W : Users(a) = {}
  PROVE  Elsewhere(t, W)
<1>1. ASSUME NEW s \in Threads \ {t}, Carries(s)
      PROVE  Ground(s) \cap W = {}
      BY <1>1, GroundLand
<1>2. ASSUME NEW s \in Threads \ {t}, th[s].pc \in Using
      PROVE  Bytes(th[s].at, held[th[s].at].size) \cap W = {}
      <2>1. th[s].at \in DOMAIN held /\ "at" \in DOMAIN th[s]
            BY <1>2 DEF RegionInv, UsedInv, ThreadInv, RecordOK
      <2>2. th[s].at \notin W
            BY <2>1 DEF Users
      <2>3. \A b \in W : b \in Bytes(b, held[b].size) /\ b # th[s].at
            BY <2>2, HeldLand
      <2> QED
          BY <2>1, <2>3 DEF RegionInv, HeldInv
<1>3. ASSUME NEW s \in Threads \ {t}, th[s].pc \in Clearing
      PROVE  /\ \A b \in Land(th[s].pool) : b \in Land(th[s].pool)'
             /\ \A a \in W : /\ Tracked(a) => PoolOf(a) # th[s].pool
                             /\ Tracked(a)' => PoolOf(a)' # th[s].pool
             /\ \A v \in Values : value'[v].pool = th[s].pool => value[v].pool = th[s].pool
      <2>. PICK q : q = th[s].pool
           OBVIOUS
      <2>1. q \notin live \cup {Null}
            BY <1>3, ClearerDead
      <2>2. th'[s] = th[s]
            BY DEF OthersStand
      <2>3. \A b \in Land(q) : b \in Land(q)'
            BY <2>1 DEF DeadKept
      <2>4. \A a \in W : Tracked(a) => PoolOf(a) \in live
            BY HeldKnown, HeldLand
      <2>5. /\ \A a \in W : Tracked(a)' => PoolOf(a)' # q
            /\ \A v \in Values : value'[v].pool = q => value[v].pool = q
            BY <2>1 DEF DeadKept
      <2>6. \A b \in Land(th[s].pool) : b \in Land(th[s].pool)'
            BY <2>2, <2>3 DEF Land
      <2> QED
          BY <2>1, <2>4, <2>5, <2>6
<1> QED
    BY <1>1, <1>2, <1>3 DEF Elsewhere, Outside

(* A thread that works for no pool that is being destroyed, and asks nothing. *)
LEMMA NothingClear ==
  ASSUME NEW t \in Threads, th'[t].pc \notin Clearing
  PROVE  ClearOf(t)'
BY DEF ClearOf, Clearing

LEMMA NothingAsked ==
  ASSUME NEW t \in Threads, th'[t].pc \notin {"find", "size", "read", "answer"}
  PROVE  QueryOf(t)'
BY DEF QueryOf, Using

LEMMA NothingSeen ==
  ASSUME NEW t \in Threads, th'[t].pc \notin Shaping
  PROVE  SeenOf(t)'
BY DEF SeenOf, Shaping, Agreed

All == /\ RegionInv /\ RegionInv' /\ Types' /\ MapTyped /\ MapTyped' /\ FieldInv /\ Agreement

(* Steps that leave the map, its values and the callers' regions alone. *)
LEMMA AsideStep ==
  ASSUME All, NEW t \in Threads, OthersStand(t), Watching(t),
         UNCHANGED <<map, value, spare, held, untracked>>,
         \A p, b : p \notin live /\ b \in Land(p) => b \in Land(p)',
         th[t].pc \notin Shaping \cup Shaped \cup Clearing,
         th'[t].pc \notin Shaping \cup Shaped \cup Clearing, QueryOf(t)'
  PROVE  Agreement'
<1> USE DEF All
<1>1. ExactInv /\ ValueInv
      BY DEF Agreement
<1>2. \A v : InHand(t, v)' <=> InHand(t, v)
      BY DEF InHand, Shaping, Shaped
<1>3. /\ \A b \in Addresses : Same(b)
      /\ \A v \in Values : OwnedOnce(v)'
      /\ HandsKept(t)
      BY <1>1, <1>2, ValuesKept
<1>4. Outside({}) /\ DeadKept({})
      BY <1>3 DEF Outside, DeadKept
<1>5. Elsewhere(t, {})
      BY <1>1, <1>4, ElseGround
<1>6. OwnExact(t, {})
      BY DEF OwnExact, LowKnown, HighKnown, KnownTo, Leaves, Shaping, Shaped, Agreed
<1>7. SeenOf(t)' /\ ClearOf(t)'
      BY NothingSeen, NothingClear
<1> QED
    BY <1>3, <1>5, <1>6, <1>7, AgreementStep

LEMMA LandStays ==
  ASSUME given' = given
  PROVE  \A p, b : b \in Land(p) => b \in Land(p)'
BY DEF Land

LEMMA AsideSteps ==
  ASSUME All, NEW t \in Threads, StepTyped(t),
         \/ \E a \in DOMAIN held : GetHandle(t, a)
         \/ Uncache(t) \/ PutCached(t) \/ Look(t) \/ GetUpstream(t) \/ Insert(t) \/ PutBack(t) \/ Return(t)
  PROVE  Agreement'
<1> USE DEF All
<1>1. OthersStand(t) /\ Watching(t) /\ ThreadInv /\ RecordOK(th[t])
      BY DEF StepTyped, RegionInv, ThreadInv
<1>2. UNCHANGED <<map, value, spare, held, untracked, given>>
      BY DEF GetHandle, Uncache, PutCached, Look, GetUpstream, Insert, PutBack, Return,
             index, objects, callers, upstream
<1>3. th[t].pc \in {"idle", "uncache", "put", "look", "get", "insert", "putAndLook", "putAndFail", "answer"}
      BY DEF GetHandle, Uncache, PutCached, Look, GetUpstream, Insert, PutBack, Return, At, Idle
<1>4. th'[t].pc \in {"look", "put", "give", "idle", "get", "insert", "putAndLook", "putAndFail"}
      <2>1. ASSUME NEW pc, Goto(t, pc) PROVE th'[t].pc = pc
            BY <1>1, <2>1, Goes
      <2>2. ASSUME Done(t) PROVE th'[t].pc = "idle"
            BY <1>1, <2>2, Becomes DEF Done, NoQuery
      <2>3. ASSUME NEW a, Become(t, [pc |-> "look", at |-> a]) PROVE th'[t].pc = "look"
            BY <1>1, <2>3, Becomes
      <2> QED
          BY <2>1, <2>2, <2>3
             DEF GetHandle, Uncache, PutCached, Look, GetUpstream, Insert, PutBack, Return
<1>5. \A p, b : b \in Land(p) => b \in Land(p)'
      BY <1>2, LandStays
<1>6. QueryOf(t)'
      BY <1>4, NothingAsked
<1> QED
    BY <1>1, <1>2, <1>3, <1>4, <1>5, <1>6, AsideStep DEF Shaping, Shaped, Clearing

LEMMA AllocAgrees ==
  ASSUME All, NEW t \in Threads, StepTyped(t), NEW p \in live, NEW n \in 1 .. MaxSize, NEW o \in BOOLEAN,
         Alloc(t, p, n, o)
  PROVE  Agreement'
<1> USE DEF All
<1>1. OthersStand(t) /\ Watching(t) /\ ThreadInv
      BY DEF StepTyped, RegionInv
<1>2. PICK a \in Addresses :
        /\ Unused(a, n) /\ given' = Over(Only(a, Region(p, n, o)), given)
        /\ Become(t, [pc |-> "track", at |-> a, region |-> Region(p, n, o)])
      BY DEF Alloc
<1>. PICK r : r = Region(p, n, o)
     OBVIOUS
<1>3. r \in Reg /\ r.size = n
      BY TrackingAssumption DEF Region, Reg, RegionInv, ThreadInv
<1>4. \A q : Land(q) \subseteq Land(q)'
      BY <1>2, <1>3, LandGrows DEF RegionInv
<1>5. th'[t].pc = "track" /\ th[t].pc = "idle" /\ UNCHANGED <<map, value, spare, held, untracked>>
      BY <1>1, <1>2, Becomes DEF Alloc, Idle, index, objects, callers
<1>6. QueryOf(t)'
      BY <1>5, NothingAsked
<1>7. \A q, b : b \in Land(q) => b \in Land(q)'
      BY <1>4
<1> QED
    BY <1>1, <1>5, <1>6, <1>7, AsideStep DEF Shaping, Shaped, Clearing

-----------------------------------------------------------------------------
(* The queries of umfMemoryTrackerGetAllocInfo.                              *)
LEMMA AskAgrees ==
  ASSUME All, NEW t \in Threads, StepTyped(t), NEW a \in DOMAIN held,
         NEW ptr \in Bytes(a, held[a].size), Ask(t, a, ptr)
  PROVE  Agreement'
<1> USE DEF All
<1>1. OthersStand(t) /\ Watching(t) /\ ThreadInv /\ ExactInv
      BY DEF StepTyped, RegionInv, Agreement
<1>2. UNCHANGED <<map, value, spare, held, untracked, given>> /\ th[t].pc = "idle"
      BY DEF Ask, Idle, upstream, objects, callers
<1>3. th'[t] = [pc |-> "find", at |-> a, ptr |-> ptr]
      BY <1>1, Becomes DEF Ask
<1>. PICK w : w = Index(t)!Opened(<<"le", ptr>>, map)
     OBVIOUS
<1>. PICK x : x = Index(t)!Exact(<<"le", ptr>>, map)
     OBVIOUS
<1>4. find'[t] = w
      BY OwnQuery DEF Ask, upstream, objects, callers
<1>5. w.query = <<"le", ptr>> /\ w.exact = {x}
      BY OpenedIs
<1>6. ASSUME a \notin untracked PROVE x = map[a]
      <2>1. Tracked(a) /\ a \in Addresses /\ held[a].size \in Nat
            BY <1>1, <1>6, HeldLand DEF ExactInv, Entry, RegionInv, HeldInv, Reg
      <2>2. \A b \in Addresses : b \in Bytes(a, held[a].size) /\ map[b] # Null => b = a
            BY <1>1, HeldKnown DEF Tracked
      <2> QED
          BY <2>1, <2>2, NearestHeld DEF Tracked
<1>7. QueryOf(t)'
      BY <1>2, <1>3, <1>4, <1>5, <1>6 DEF QueryOf
<1>8. \A p, b : b \in Land(p) => b \in Land(p)'
      BY <1>2, LandStays
<1> QED
    BY <1>1, <1>2, <1>3, <1>7, <1>8, AsideStep DEF Shaping, Shaped, Clearing

(* The thread's region, and its entry if TrackerAdd did not fail. *)
LEMMA UserKnown ==
  ASSUME All, NEW t \in Threads, th[t].pc \in {"find", "size", "read"}, th[t].at \notin untracked
  PROVE  LET a == th[t].at IN
         /\ a \in DOMAIN held /\ a \in Addresses /\ Tracked(a) /\ map[a] # Null /\ map[a] = <<a, ValueAt(a)>>
         /\ value[ValueAt(a)] = [pool |-> held[a].pool, size |-> held[a].size]
         /\ value[ValueAt(a)].size = held[a].size
         /\ th[t].ptr \in Bytes(a, held[a].size) /\ held[a].size \in Nat /\ a \in Nat
         /\ th[t].pc = "find" => find[t].exact = {map[a]}
         /\ th[t].pc # "find" => th[t].entry = map[a]
<1> USE DEF All
<1>1. ExactInv /\ QueryOf(t) /\ th[t].pc \in Using
      BY DEF Agreement, QueryInv, Using
<1>. PICK a : a = th[t].at
     OBVIOUS
<1>2. a \in DOMAIN held /\ a \in Addresses /\ Entry(a, held[a])
      BY <1>1, HeldLand DEF RegionInv, UsedInv, ExactInv
<1>3. map[a] # Null /\ map[a] = <<a, ValueAt(a)>> /\ ValueAt(a) \in Values
      BY <1>2, TrackedEntry DEF Entry, Tracked
<1>4. /\ value[ValueAt(a)].pool = held[a].pool /\ value[ValueAt(a)].size = held[a].size
      /\ value[ValueAt(a)] \in [pool : Pools \cup {Null}, size : 0 .. Memory]
      BY <1>2, <1>3 DEF Entry, PoolOf, SizeOf, MapTyped
<1>5. held[a].size \in Nat /\ a \in Nat
      BY <1>2, TrackingAssumption DEF RegionInv, HeldInv, Reg, Addresses
<1> QED
    BY <1>1, <1>2, <1>3, <1>4, <1>5 DEF QueryOf, Entry

LEMMA FoundAgrees ==
  ASSUME All, NEW t \in Threads, StepTyped(t), Found(t) \/ ReadSize(t) \/ ReadInfo(t)
  PROVE  Agreement'
<1> USE DEF All
<1>1. OthersStand(t) /\ Watching(t) /\ ThreadInv
      BY DEF StepTyped, RegionInv
<1>2. UNCHANGED <<map, value, spare, held, untracked, given>> /\ th[t].pc \in {"find", "size", "read"}
      BY DEF Found, ReadSize, ReadInfo, At, upstream, objects, callers, index
<1>3. \A p, b : b \in Land(p) => b \in Land(p)'
      BY <1>2, LandStays
<1>. PICK a : a = th[t].at
     OBVIOUS
<1>4. CASE Found(t)
      <2>1. PICK e \in Index(t)!Answers(find[t]) :
              IF e = Null THEN Answered(t, Null)
              ELSE Become(t, [pc |-> "size", at |-> a, ptr |-> th[t].ptr, entry |-> e])
            BY <1>4 DEF Found
      <2>2. CASE a \in untracked
            <3>1. /\ th'[t].at = a /\ th'[t].pc \in {"answer", "size"}
                  BY <1>1, <2>1, Becomes DEF Answered
            <3>2. QueryOf(t)'
                  BY <1>2, <2>2, <3>1 DEF QueryOf
            <3> QED
                BY <1>1, <1>2, <1>3, <3>1, <3>2, AsideStep DEF Shaping, Shaped, Clearing
      <2>3. CASE a \notin untracked
            <3>1. th[t].pc = "find"
                  BY <1>4 DEF Found, At
            <3>2. /\ map[a] # Null /\ find[t].exact = {map[a]}
                  /\ th[t].ptr \in Bytes(a, held[a].size)
                  BY <1>2, <2>3, <3>1, UserKnown
            <3>3. IsFiniteSet(find[t].exact) /\ find[t].query[1] # "get"
                  BY <3>1 DEF FieldInv, FieldsOK
            <3>. PICK c : c = find[t]
                 OBVIOUS
            <3>. PICK x : x = map[a]
                 OBVIOUS
            <3>4. IsFiniteSet(c.exact) /\ c.query[1] # "get" /\ c.exact = {x}
                  BY <3>2, <3>3
            <3>5. Index(t)!Answers(c) = {x}
                  BY <3>4, AnswersAre
            <3>6. e = map[a]
                  BY <2>1, <3>5
            <3>7. th'[t] = [pc |-> "size", at |-> a, ptr |-> th[t].ptr, entry |-> map[a]]
                  BY <1>1, <2>1, <3>2, <3>6, Becomes
            <3>8. QueryOf(t)'
                  BY <1>2, <3>2, <3>7 DEF QueryOf
            <3> QED
                BY <1>1, <1>2, <1>3, <3>7, <3>8, AsideStep DEF Shaping, Shaped, Clearing
      <2> QED
          BY <2>2, <2>3
<1>5. CASE ReadSize(t)
      <2>1. th[t].pc = "size" /\ th[t].pc \in Using
            BY <1>5 DEF ReadSize, At, Using
      <2>2. CASE a \in untracked
            <3>1. th'[t].at = a /\ th'[t].pc \in {"answer", "read"}
                  BY <1>1, <1>5, <2>1, Becomes, Goes DEF ReadSize, Answered
            <3>2. QueryOf(t)'
                  BY <1>2, <2>2, <3>1 DEF QueryOf
            <3> QED
                BY <1>1, <1>2, <1>3, <3>1, <3>2, AsideStep DEF Shaping, Shaped, Clearing
      <2>3. CASE a \notin untracked
            <3>. PICK v : v = ValueAt(a)
                 OBVIOUS
            <3>0. /\ th[t].entry = map[a] /\ map[a] = <<a, v>> /\ value[v].size = held[a].size
                  /\ th[t].ptr \in Bytes(a, held[a].size) /\ held[a].size \in Nat /\ a \in Nat
                  BY <2>1, <2>3, UserKnown
            <3>1. /\ th[t].entry = map[a] /\ th[t].entry[1] = a
                  /\ value[th[t].entry[2]].size = held[a].size
                  /\ th[t].ptr \in Bytes(a, held[a].size) /\ held[a].size \in Nat /\ a \in Nat
                  BY <3>0
            <3>2. ~(th[t].ptr >= a + held[a].size)
                  BY <3>1 DEF Bytes
            <3>3. Goto(t, "read")
                  BY <1>5, <3>1, <3>2 DEF ReadSize
            <3>4. {"pc", "ptr", "entry", "at"} \subseteq DOMAIN th[t]
                  BY <2>1, <1>1 DEF FieldInv, FieldsOK, ThreadInv, RecordOK
            <3>5. th'[t] = [th[t] EXCEPT !.pc = "read"]
                  BY <1>1, <3>3 DEF Goto, ThreadInv
            <3>. PICK r : r = th[t]
                 OBVIOUS
            <3>6. /\ th'[t].pc = "read" /\ th'[t].at = r.at /\ th'[t].ptr = r.ptr
                  /\ th'[t].entry = r.entry
                  BY <3>4, <3>5
            <3>7. QueryOf(t)'
                  BY <1>2, <3>1, <3>6 DEF QueryOf
            <3> QED
                BY <1>1, <1>2, <1>3, <2>1, <3>6, <3>7, AsideStep DEF Shaping, Shaped, Clearing
      <2> QED
          BY <2>2, <2>3
<1>6. CASE ReadInfo(t)
      <2>. DEFINE e == th[t].entry
      <2>1. th[t].pc = "read"
            BY <1>6 DEF ReadInfo, At
      <2>2. th'[t] = [pc |-> "answer", at |-> a,
                      answer |-> [base |-> e[1], pool |-> value[e[2]].pool, size |-> value[e[2]].size]]
            BY <1>1, <1>6, Becomes DEF ReadInfo, Answered
      <2>3. ASSUME a \notin untracked
            PROVE  e[1] = a /\ value[e[2]].pool = held[a].pool /\ value[e[2]].size = held[a].size
            <3>1. /\ e = map[a] /\ map[a] = <<a, ValueAt(a)>>
                  /\ value[ValueAt(a)] = [pool |-> held[a].pool, size |-> held[a].size]
                  BY <2>1, <2>3, UserKnown
            <3>2. e[1] = a /\ e[2] = ValueAt(a)
                  BY <3>1
            <3> QED
                BY <3>1, <3>2
      <2>4. QueryOf(t)'
            BY <1>2, <2>2, <2>3 DEF QueryOf
      <2> QED
          BY <1>1, <1>2, <1>3, <2>2, <2>4, AsideStep DEF Shaping, Shaped, Clearing
<1> QED
    BY <1>4, <1>5, <1>6

-----------------------------------------------------------------------------
(* Splits and merges: under the lock. *)

SameShape(t) ==
  /\ th'[t].at = th[t].at /\ th'[t].high = th[t].high /\ th'[t].op = th[t].op
  /\ th'[t].before = th[t].before /\ th'[t].after = th[t].after

LEMMA ShapeAside ==
  ASSUME All, NEW t \in Threads, OthersStand(t), Watching(t),
         UNCHANGED <<map, value, spare, held, untracked>>,
         \A p, b : p \notin live /\ b \in Land(p) => b \in Land(p)',
         th[t].pc \in Shaping, th'[t].pc \in Shaping, SameShape(t), th'[t].new = th[t].new,
         LowKnown(t)' <=> LowKnown(t), HighKnown(t)' <=> HighKnown(t),
         th'[t].pc \in Agreed => /\ DOMAIN th[t].before \cap untracked = {}
                                 /\ map[th[t].at] = <<th[t].at, th'[t].old>>
  PROVE  Agreement'
<1> USE DEF All
<1>1. ExactInv /\ ValueInv /\ SeenOf(t)
      BY DEF Agreement, ValueInv
<1>2. \A v : InHand(t, v)' <=> InHand(t, v)
      BY DEF InHand, Shaping
<1>3. /\ \A b \in Addresses : Same(b)
      /\ \A v \in Values : OwnedOnce(v)'
      /\ HandsKept(t)
      BY <1>1, <1>2, ValuesKept
<1>4. Outside({}) /\ DeadKept({})
      BY <1>3 DEF Outside, DeadKept
<1>5. Elsewhere(t, {})
      BY <1>1, <1>4, ElseGround
<1>6. /\ LowIs(t)' = LowIs(t) /\ HighIs(t)' = HighIs(t)
      /\ \A a : KnownTo(t, a)' <=> KnownTo(t, a)
      BY DEF LowIs, HighIs, SameShape, Shaping, Shaped, KnownTo
<1>7. /\ (LowKnown(t) => Entry(th[t].at, LowIs(t)))'
      /\ (HighKnown(t) => Entry(th[t].high, HighIs(t)))'
      BY <1>1, <1>6 DEF ExactInv, SameShape, Entry, Tracked, PoolOf, SizeOf, ValueAt
<1>8. \A a : ~Leaves(t, a)
      BY DEF Leaves, Shaping, Clearing
<1>9. OwnExact(t, {})
      BY <1>6, <1>7, <1>8 DEF OwnExact, SameShape
<1>10. SeenOf(t)'
      BY <1>1 DEF SeenOf, SameShape, Agreed, Shaping
<1>11. ClearOf(t)' /\ QueryOf(t)' /\ th'[t].pc \notin Clearing
      BY NothingClear, NothingAsked DEF Shaping, Clearing
<1> QED
    BY <1>3, <1>5, <1>9, <1>10, <1>11, AgreementStep

LEMMA LockAgrees ==
  ASSUME All, NEW t \in Threads, StepTyped(t), Lock(t)
  PROVE  Agreement'
<1> USE DEF All
<1>1. OthersStand(t) /\ Watching(t) /\ ThreadInv
      BY DEF StepTyped, RegionInv
<1>2. /\ UNCHANGED <<map, value, spare, held, untracked, given>>
      /\ th[t].pc = "lock" /\ Goto(t, "compare") /\ th[t].pc \in Shaping
      BY DEF Lock, At, upstream, objects, callers, index, Shaping
<1>3. th'[t].pc = "compare" /\ SameShape(t) /\ th'[t].new = th[t].new
      BY <1>1, <1>2, Goes DEF SameShape, Carrying
<1>4. (LowKnown(t)' <=> LowKnown(t)) /\ (HighKnown(t)' <=> HighKnown(t))
      BY <1>2, <1>3 DEF LowKnown, HighKnown, SameShape, Shaping, Shaped, Early
<1>5. \A p, b : b \in Land(p) => b \in Land(p)'
      BY <1>2, LandStays
<1> QED
    BY <1>1, <1>2, <1>3, <1>4, <1>5, ShapeAside DEF Shaping, Agreed

LEMMA CompareAgrees ==
  ASSUME All, NEW t \in Threads, StepTyped(t), Compare(t)
  PROVE  Agreement'
<1> USE DEF All
<1>1. OthersStand(t) /\ Watching(t) /\ ThreadInv /\ ExactInv
      BY DEF StepTyped, RegionInv, Agreement
<1>2. /\ UNCHANGED <<map, value, spare, held, untracked, given>>
      /\ th[t].pc = "compare" /\ th[t].pc \in Shaping
      BY DEF Compare, At, upstream, objects, callers, index, Shaping
<1>3. \A p, b : b \in Land(p) => b \in Land(p)'
      BY <1>2, LandStays
<1>4. CASE Goto(t, "undo")
      <2>1. th'[t].pc = "undo" /\ SameShape(t) /\ th'[t].new = th[t].new
            BY <1>1, <1>2, <1>4, Goes DEF SameShape, Carrying
      <2>2. (LowKnown(t)' <=> LowKnown(t)) /\ (HighKnown(t)' <=> HighKnown(t))
            BY <1>2, <2>1 DEF LowKnown, HighKnown, SameShape, Shaping, Shaped, Early
      <2> QED
          BY <1>1, <1>2, <1>3, <2>1, <2>2, ShapeAside DEF Shaping, Agreed
<1>5. CASE /\ Become(t, [th[t] EXCEPT !.pc = "upstream", !.old = ValueAt(th[t].at)])
           /\ Tracked(th[t].at) /\ (th[t].op = "merge" => Tracked(th[t].high))
      <2>. PICK v : v = ValueAt(th[t].at)
           OBVIOUS
      <2>. PICK r : r = th[t]
           OBVIOUS
      <2>1. {"pc", "old", "at", "high", "op", "before", "after", "new"} \subseteq DOMAIN r
            BY <1>1, <1>2 DEF ThreadInv, RecordOK, Carrying
      <2>2. th'[t] = [r EXCEPT !.pc = "upstream", !.old = v]
            BY <1>1, <1>5, Becomes
      <2>3. th'[t].pc = "upstream" /\ SameShape(t) /\ th'[t].new = r.new /\ th'[t].old = v
            BY <2>1, <2>2 DEF SameShape
      <2>4. /\ r.at \in Addresses /\ r.high \in Addresses /\ r.at # r.high
            /\ r.at \in Ground(t) /\ r.high \in Ground(t) /\ Carries(t)
            BY <1>2, ShapeParts, ShapeFacts
      <2>5. /\ r.op \in {"split", "merge"}
            /\ r.op = "split" => DOMAIN r.before = {r.at}
            /\ r.op = "merge" => DOMAIN r.before = {r.at, r.high}
            BY <1>2, ShapeFacts DEF Parts
      <2>6. KnownTo(t, r.at) /\ (r.op = "merge" => KnownTo(t, r.high))
            BY <1>1, <1>5, <2>4, GroundKnown
      <2>7. r.at \notin untracked /\ (r.op = "merge" => r.high \notin untracked)
            BY <1>2, <2>4, <2>6 DEF KnownTo, LowKnown, HighKnown, Early
      <2>8. DOMAIN r.before \cap untracked = {}
            BY <2>5, <2>7
      <2>9. (LowKnown(t)' <=> LowKnown(t)) /\ (HighKnown(t)' <=> HighKnown(t))
            BY <1>2, <2>3, <2>5, <2>7 DEF LowKnown, HighKnown, SameShape, Shaping, Shaped, Early
      <2>10. map[r.at] = <<r.at, v>>
            BY <1>5, <2>4, TrackedEntry
      <2> QED
          BY <1>1, <1>2, <1>3, <2>3, <2>8, <2>9, <2>10, ShapeAside DEF Shaping
<1>6. th[t].op \in {"split", "merge"}
      BY <1>2 DEF RegionInv, ShapeInv
<1> QED
    BY <1>4, <1>5, <1>6 DEF Compare

LEMMA UpstreamAgrees ==
  ASSUME All, NEW t \in Threads, StepTyped(t), ShapeUpstream(t)
  PROVE  Agreement'
<1> USE DEF All
<1>1. OthersStand(t) /\ Watching(t) /\ ThreadInv /\ ExactInv /\ GivenInv
      BY DEF StepTyped, RegionInv, Agreement
<1>. DEFINE r == th[t]
<1>2. /\ UNCHANGED <<map, value, spare, held, untracked>>
      /\ r.pc = "upstream" /\ r.pc \in Shaping /\ r.pc \in Agreed
      BY DEF ShapeUpstream, At, objects, callers, index, Shaping, Agreed
<1>3. /\ r.at \in Addresses /\ r.high \in Addresses /\ r.at # r.high
      /\ r.at \in Ground(t) /\ r.high \in Ground(t) /\ Carries(t)
      BY <1>2, ShapeParts, ShapeFacts
<1>4. /\ r.op \in {"split", "merge"}
      /\ r.op = "split" => DOMAIN r.before = {r.at}
      /\ r.op = "merge" => DOMAIN r.before = {r.at, r.high}
      /\ DOMAIN r.after \subseteq {r.at, r.high}
      /\ \A x \in DOMAIN r.before : r.before[x].pool = PoolBy(t)
      BY <1>2, ShapeFacts DEF Parts
<1>5. PoolBy(t) \in live /\ Ground(t) \subseteq Land(PoolBy(t))
      BY <1>3, GroundLand
<1>6. DOMAIN r.before \cap untracked = {} /\ map[r.at] = <<r.at, r.old>>
      BY <1>2 DEF Agreement, ExactInv, ValueInv, SeenOf
<1>7. PICK pc \in {"add", "update", "undo"} :
        /\ Goto(t, pc)
        /\ pc = "add" => r.op = "split"
        /\ pc = "update" => r.op = "merge"
      BY <1>4 DEF ShapeUpstream
<1>8. th'[t].pc = pc /\ SameShape(t) /\ th'[t].new = r.new /\ th'[t].old = r.old
      BY <1>1, <1>2, <1>7, Goes DEF SameShape, Carrying
<1>9. (LowKnown(t)' <=> LowKnown(t)) /\ (HighKnown(t)' <=> HighKnown(t))
      <2>1. r.at \notin untracked /\ (r.op = "merge" => r.high \notin untracked)
            BY <1>4, <1>6
      <2> QED
          BY <1>2, <1>4, <1>7, <1>8, <2>1 DEF LowKnown, HighKnown, SameShape, Shaping, Shaped, Early
<1>10. ASSUME NEW p, NEW b, p \notin live, b \in Land(p)
       PROVE  b \in Land(p)'
      <2>1. PICK x \in DOMAIN given : given[x].pool = p /\ b \in Bytes(x, given[x].size) /\ b \in Addresses
            BY <1>10 DEF Land
      <2>2. x \in Land(p) /\ x \notin Land(PoolBy(t))
            BY <1>1, <1>5, <1>10, <2>1, GivenIsLand, LandApart
      <2>3. x \notin {r.at, r.high}
            BY <1>3, <1>5, <2>2
      <2>4. x \in DOMAIN given' /\ given'[x] = given[x]
            BY <1>4, <2>1, <2>3 DEF ShapeUpstream, Over, Without
      <2> QED
          BY <2>1, <2>4 DEF Land
<1> QED
    BY <1>1, <1>2, <1>6, <1>7, <1>8, <1>9, <1>10, ShapeAside DEF Shaping

-----------------------------------------------------------------------------
(* Regions that are added, freed and given back. *)

LEMMA PlainAgrees ==
  ASSUME All, NEW t \in Threads, NEW W, Elsewhere(t, W), Watching(t),
         th[t].pc \notin Shaping \cup Shaped \cup Clearing,
         th'[t].pc \notin Shaping \cup Shaped \cup Clearing \cup {"find", "size", "read", "answer"},
         \A a \in W : a \in DOMAIN held' \ untracked' => Entry(a, held[a])',
         \A a \in W : Tracked(a)' => a \in DOMAIN held' \ untracked',
         \A a \in W : a \in untracked' => a \in DOMAIN held',
         \A v \in Values : OwnedOnce(v)', HandsKept(t)
  PROVE  Agreement'
<1> USE DEF All
<1>1. OwnExact(t, W)
      BY DEF OwnExact, LowKnown, HighKnown, KnownTo, Leaves, Shaping, Shaped, Agreed
<1>2. SeenOf(t)' /\ ClearOf(t)' /\ QueryOf(t)'
      BY NothingSeen, NothingClear, NothingAsked
<1> QED
    BY <1>1, <1>2, AgreementStep

(* A region goes back to its caller without an entry. *)
LEMMA HandBack ==
  ASSUME All, NEW t \in Threads, Single(t), StepTyped(t), Hold(Only(th[t].at, th[t].region)),
         Done(t), untracked' = untracked \cup {th[t].at}, UNCHANGED <<map, value, spare, given>>
  PROVE  Agreement'
<1> USE DEF All
<1>. PICK a : a = th[t].at
     OBVIOUS
<1>. DEFINE r == th[t].region
<1>1. OthersStand(t) /\ Watching(t) /\ ThreadInv /\ ExactInv /\ ValueInv
      BY DEF StepTyped, RegionInv, Agreement
<1>2. th'[t].pc = "idle" /\ th[t].pc \in {"track"} \cup Freeing
      BY <1>1, Becomes DEF Done, NoQuery, Single
<1>3. Carries(t) /\ a \in Addresses /\ a \in Ground(t)
      BY SingleFacts, GroundFacts
<1>4. ~Tracked(a)
      BY <1>1, <1>2, <1>3, GroundKnown DEF KnownTo, LowKnown, HighKnown, Freeing, Shaping, Shaped
<1>5. \A v : InHand(t, v)' <=> InHand(t, v)
      BY <1>2 DEF InHand, Freeing, Shaping
<1>6. /\ \A b \in Addresses : Same(b)
      /\ \A v \in Values : OwnedOnce(v)'
      /\ HandsKept(t)
      BY <1>1, <1>5, ValuesKept
<1>7. /\ DOMAIN held' = DOMAIN held \cup {a}
      /\ \A b \in DOMAIN held \ {a} : held'[b] = held[b]
      BY DEF Hold, Over, Only
<1>8. ~Tracked(a)'
      BY <1>4 DEF Tracked
<1>9. Outside({a}) /\ DeadKept({a})
      BY <1>6, <1>7, <1>8, LandStays DEF Outside, DeadKept
<1>10. Elsewhere(t, {a})
      BY <1>1, <1>3, <1>9, ElseGround
<1> QED
    BY <1>1, <1>2, <1>6, <1>7, <1>8, <1>10, PlainAgrees DEF Freeing, Shaping, Shaped, Clearing

(* A region goes back to the upstream provider. *)
LEMMA GoesBack ==
  ASSUME All, NEW t \in Threads, Single(t), StepTyped(t), given' = Without(given, {th[t].at}),
         Done(t), UNCHANGED <<map, value, spare, held, untracked>>
  PROVE  Agreement'
<1> USE DEF All
<1>. PICK a : a = th[t].at
     OBVIOUS
<1>1. OthersStand(t) /\ Watching(t) /\ ThreadInv /\ GivenInv
      BY DEF StepTyped, RegionInv
<1>2. th'[t].pc = "idle" /\ th[t].pc \in {"track"} \cup Freeing
      BY <1>1, Becomes DEF Done, NoQuery, Single
<1>3. a \in DOMAIN given /\ given[a].pool \in live
      BY SingleFacts DEF CarriedBy
<1>4. ASSUME NEW p, NEW b, p \notin live, b \in Land(p)
      PROVE  b \in Land(p)'
      <2>1. b \notin Bytes(a, given[a].size)
            BY <1>1, <1>3, <1>4, GivenIsLand, LandApart
      <2>2. \A x \in DOMAIN given \cap {a} : b \notin Bytes(x, given[x].size)
            BY <2>1
      <2> QED
          BY <1>1, <1>4, <2>2, LandShrinks
<1>5. QueryOf(t)'
      BY <1>2, NothingAsked
<1> QED
    BY <1>1, <1>2, <1>4, <1>5, AsideStep DEF Freeing, Shaping, Shaped, Clearing

LEMMA GiveAgrees ==
  ASSUME All, NEW t \in Threads, StepTyped(t), Give(t)
  PROVE  Agreement'
<1> USE DEF All
<1>1. OthersStand(t) /\ Watching(t) /\ ThreadInv
      BY DEF StepTyped, RegionInv
<1>2. th[t].pc = "give" /\ Single(t) /\ UNCHANGED <<map, value, spare>>
      BY DEF Give, At, Single, Freeing, index, objects
<1>3. CASE /\ Become(t, [pc |-> "track", at |-> th[t].at, region |-> th[t].region])
           /\ UNCHANGED <<given, held, untracked>>
      <2>1. th'[t].pc = "track"
            BY <1>1, <1>3, Becomes
      <2>2. QueryOf(t)'
            BY <2>1, NothingAsked
      <2> QED
          BY <1>1, <1>2, <1>3, <2>1, <2>2, LandStays, AsideStep DEF Shaping, Shaped, Clearing
<1> QED
    BY <1>2, <1>3, HandBack, GoesBack DEF Give

LEMMA TrackAgrees ==
  ASSUME All, NEW t \in Threads, StepTyped(t), Track(t)
  PROVE  Agreement'
<1> USE DEF All
<1>. PICK a : a = th[t].at
     OBVIOUS
<1>. PICK r : r = th[t].region
     OBVIOUS
<1>1. OthersStand(t) /\ Watching(t) /\ ThreadInv /\ ExactInv /\ ValueInv
      BY DEF StepTyped, RegionInv, Agreement
<1>2. th[t].pc = "track" /\ Single(t)
      BY DEF Track, At, Single
<1>3. /\ Carries(t) /\ a \in Addresses /\ a \in Ground(t)
      /\ PoolBy(t) \in live /\ PoolBy(t) = r.pool
      BY <1>2, SingleFacts, GroundFacts DEF CarriedBy
<1>4. CASE CannotAdd(a)
      <2>1. UNCHANGED <<map, value, spare>>
            BY <1>4 DEF CannotAdd, index, objects
      <2>2. ASSUME Add(a, r.pool, r.size) PROVE FALSE
            <3>1. PICK v \in spare : map' = [map EXCEPT ![a] = <<a, v>>] /\ map[a] = Null
                  BY <2>2 DEF Add, SetMap, Tracked
            <3>2. <<a, v>> # Null /\ map'[a] = <<a, v>>
                  BY <1>3, <3>1, NotNull DEF MapTyped, Entries
            <3> QED
                BY <2>1, <3>1, <3>2
      <2>3. \/ Hold(Only(a, r)) /\ Done(t) /\ untracked' = untracked \cup {a} /\ UNCHANGED given
            \/ given' = Without(given, {a}) /\ Done(t) /\ UNCHANGED <<held, untracked>>
            BY <2>2 DEF Track
      <2> QED
          BY <1>2, <2>1, <2>3, HandBack, GoesBack
<1>5. CASE /\ Add(a, r.pool, r.size)
           /\ Hold(Only(a, r)) /\ Done(t) /\ UNCHANGED <<given, untracked>>
      <2>1. th'[t].pc = "idle"
            BY <1>1, <1>5, Becomes DEF Done, NoQuery
      <2>2. \A v : InHand(t, v)' <=> InHand(t, v)
            BY <1>2, <2>1 DEF InHand, Shaping
      <2>3. /\ map'[a] # Null /\ PoolOf(a)' = r.pool /\ SizeOf(a)' = r.size
            /\ \A b \in Addresses \ {a} : Same(b)
            /\ \A w \in Values : value'[w] = value[w] \/ value'[w].pool = r.pool
            /\ \A v \in Values : OwnedOnce(v)'
            /\ HandsKept(t)
            BY <1>1, <1>3, <1>5, <2>2, AddIs
      <2>4. a \notin untracked
            BY <1>1, <1>2, <1>3, UntrackedIs DEF Shaping, Shaped
      <2>5. /\ DOMAIN held' = DOMAIN held \cup {a} /\ held'[a] = r
            /\ \A b \in DOMAIN held \ {a} : held'[b] = held[b]
            BY <1>5 DEF Hold, Over, Only
      <2>6. Outside({a}) /\ DeadKept({a})
            BY <1>3, <1>5, <2>3, <2>5, LandStays DEF Outside, DeadKept
      <2>7. Elsewhere(t, {a})
            BY <1>1, <1>3, <2>6, ElseGround
      <2>8. Entry(a, held[a])' /\ a \in DOMAIN held' \ untracked'
            BY <1>5, <2>3, <2>4, <2>5 DEF Entry, Tracked
      <2> QED
          BY <1>1, <1>2, <2>1, <2>3, <2>7, <2>8, PlainAgrees DEF Shaping, Shaped, Clearing
<1> QED
    BY <1>4, <1>5 DEF Track

LEMMA FreeAgrees ==
  ASSUME All, NEW t \in Threads, StepTyped(t), NEW a \in DOMAIN held, Free(t, a)
  PROVE  Agreement'
<1> USE DEF All
<1>1. OthersStand(t) /\ Watching(t) /\ ThreadInv /\ ExactInv /\ ValueInv
      BY DEF StepTyped, RegionInv, Agreement
<1>2. /\ th[t].pc = "idle" /\ th'[t].pc \in {"give", "uncache"} /\ Users(a) = {}
      /\ held' = Without(held, {a}) /\ untracked' = untracked \ {a} /\ given' = given /\ Forget(a)
      BY <1>1, Becomes DEF Free, Idle, Drop, upstream
<1>3. a \in Addresses
      BY HeldLand
<1>4. \A v : InHand(t, v)' <=> InHand(t, v)
      BY <1>2 DEF InHand, Shaping
<1>5. /\ ~Tracked(a)'
      /\ \A b \in Addresses \ {a} : Same(b)
      /\ \A w \in Values : value'[w] = value[w] \/ value'[w].pool = Null
      /\ \A v \in Values : OwnedOnce(v)'
      /\ HandsKept(t)
      <2>1. CASE Tracked(a)
            BY <1>1, <1>2, <1>3, <1>4, <2>1, ForgetIs
      <2>2. CASE ~Tracked(a)
            <3>1. UNCHANGED <<map, value, spare>>
                  BY <1>2, <2>2 DEF Forget, objects, index
            <3> QED
                BY <1>1, <1>4, <2>2, <3>1, ValuesKept DEF Tracked
      <2> QED
          BY <2>1, <2>2
<1>6. DOMAIN held' = DOMAIN held \ {a} /\ \A b \in DOMAIN held' : held'[b] = held[b]
      BY <1>2 DEF Without
<1>7. Outside({a}) /\ DeadKept({a})
      BY <1>2, <1>5, <1>6, LandStays DEF Outside, DeadKept
<1>8. Elsewhere(t, {a})
      BY <1>1, <1>2, <1>7, ElseHeld
<1> QED
    BY <1>1, <1>2, <1>5, <1>6, <1>8, PlainAgrees DEF Shaping, Shaped, Clearing

-----------------------------------------------------------------------------
(* Splits and merges: their changes of the map. *)

(* Where a split or a merge stands in its region. *)
LEMMA ShapePlaces ==
  ASSUME All, NEW t \in Threads, th[t].pc \in Shaping \cup Shaped
  PROVE  LET r == th[t] IN
         /\ Carries(t) /\ r.at \in Addresses /\ r.high \in Addresses /\ r.at # r.high
         /\ r.at \in Ground(t) /\ r.high \in Ground(t) /\ PoolBy(t) \in live
         /\ r.at \notin DOMAIN held /\ r.high \notin DOMAIN held
         /\ r.op \in {"split", "merge"}
         /\ r.op = "split" => DOMAIN r.before = {r.at} /\ DOMAIN r.after = {r.at, r.high}
         /\ r.op = "merge" => DOMAIN r.before = {r.at, r.high} /\ DOMAIN r.after = {r.at}
         /\ LowIs(t).pool = PoolBy(t) /\ HighIs(t).pool = PoolBy(t)
         /\ r.after[r.at].pool = PoolBy(t) /\ r.after[r.at].size \in Nat
<1> USE DEF All
<1>1. /\ Carries(t) /\ th[t].at \in Addresses /\ th[t].high \in Addresses /\ th[t].at # th[t].high
      /\ th[t].at \in Ground(t) /\ th[t].high \in Ground(t) /\ PoolBy(t) \in live
      /\ LowIs(t).pool = PoolBy(t) /\ HighIs(t).pool = PoolBy(t)
      BY ShapeParts, ShapeFacts
<1>2. th[t].at \notin DOMAIN held /\ th[t].high \notin DOMAIN held
      BY <1>1, GroundLand
<1>3. /\ th[t].op \in {"split", "merge"}
      /\ th[t].op = "split" => Parts(th[t].after, th[t].before, th[t].at, th[t].high)
      /\ th[t].op = "merge" => Parts(th[t].before, th[t].after, th[t].at, th[t].high)
      /\ PoolBy(t) = th[t].after[th[t].at].pool
      BY ShapeFacts
<1> QED
    BY <1>1, <1>2, <1>3 DEF Parts, Reg

(* A step of a split or a merge that goes on. *)
LEMMA ShapeStep ==
  ASSUME All, NEW t \in Threads, StepTyped(t), UNCHANGED <<given, held, untracked>>,
         th[t].pc \in Shaping \cup Shaped, th'[t].pc \in Shaping \cup Shaped, SameShape(t),
         NEW W \in SUBSET {th[t].at, th[t].high}, \A b \in Addresses \ W : Same(b),
         \A w \in Values : value'[w] = value[w] \/ value'[w].pool \in live \cup {Null},
         \A v \in Values : OwnedOnce(v)', HandsKept(t), SeenOf(t)',
         (LowKnown(t) => Entry(th[t].at, LowIs(t)))', (HighKnown(t) => Entry(th[t].high, HighIs(t)))',
         \A a \in W : Tracked(a)' => KnownTo(t, a)' /\ PoolOf(a)' \in live,
         \A a \in {th[t].at, th[t].high} \ W : KnownTo(t, a) => KnownTo(t, a)',
         th'[t].pc \in Agreed => DOMAIN th[t].before \cap untracked = {}
  PROVE  Agreement'
<1> USE DEF All
<1>1. OthersStand(t) /\ Watching(t) /\ ExactInv
      BY DEF StepTyped, Agreement
<1>2. /\ Carries(t) /\ th[t].at \in Ground(t) /\ th[t].high \in Ground(t)
      /\ W \cap DOMAIN held' = {}
      BY ShapePlaces
<1>3. Outside(W) /\ DeadKept(W)
      BY LandStays DEF Outside, DeadKept
<1>4. Elsewhere(t, W)
      BY <1>1, <1>2, <1>3, ElseGround
<1>5. \A a : ~Leaves(t, a)
      BY DEF Leaves, Shaping, Shaped, Clearing
<1>6. ASSUME NEW a \in W, a \in untracked'
      PROVE  a \in DOMAIN th'[t].before
      BY <1>1, <1>2, <1>6, UntrackedIs DEF SameShape
<1>7. \A a : KnownTo(t, a) => a \in {th[t].at, th[t].high}
      BY DEF KnownTo
<1>8. OwnExact(t, W)
      BY <1>2, <1>5, <1>6, <1>7 DEF OwnExact, SameShape
<1>9. ClearOf(t)' /\ QueryOf(t)' /\ th'[t].pc \notin Clearing
      BY NothingClear, NothingAsked DEF Shaping, Shaped, Clearing
<1> QED
    BY <1>1, <1>4, <1>8, <1>9, AgreementStep

(* The end of a split or a merge. *)
LEMMA ShapeBack ==
  ASSUME All, NEW t \in Threads, StepTyped(t), given' = given,
         th[t].pc \in Shaping \cup Shaped, th'[t].pc = "idle",
         NEW regions, Hold(regions), DOMAIN regions \subseteq {th[t].at, th[t].high},
         \A b \in Addresses : Same(b),
         \A w \in Values : value'[w] = value[w] \/ value'[w].pool = Null,
         \A v \in Values : OwnedOnce(v)', HandsKept(t),
         \A a \in Addresses \ {th[t].at, th[t].high} : a \in untracked' <=> a \in untracked,
         \A a \in DOMAIN regions \ untracked' : Entry(a, regions[a]),
         \A a : KnownTo(t, a) => a \in DOMAIN regions \ untracked',
         \A a \in {th[t].at, th[t].high} : a \in untracked' => a \in DOMAIN regions
  PROVE  Agreement'
<1> USE DEF All
<1>. PICK W : W = {th[t].at, th[t].high}
     OBVIOUS
<1>1. OthersStand(t) /\ Watching(t) /\ ExactInv
      BY DEF StepTyped, Agreement
<1>2. /\ Carries(t) /\ W \subseteq Ground(t) /\ W \subseteq Addresses /\ W \cap DOMAIN held = {}
      /\ DOMAIN th[t].before \subseteq W
      BY ShapePlaces
<1>3. /\ DOMAIN held' = DOMAIN held \cup DOMAIN regions
      /\ \A a \in DOMAIN regions : held'[a] = regions[a]
      /\ \A a \in DOMAIN held \ W : held'[a] = held[a]
      BY DEF Hold, Over
<1>4. ASSUME NEW a \in W, Tracked(a)'
      PROVE  KnownTo(t, a) /\ PoolOf(a)' \in live /\ a \in DOMAIN held' \ untracked'
      <2>1. Tracked(a) /\ PoolOf(a)' = PoolOf(a)
            BY <1>2, <1>4, SameEntry
      <2>2. KnownTo(t, a)
            BY <1>1, <1>2, <2>1, GroundKnown
      <2> QED
          BY <1>1, <1>3, <2>1, <2>2, KnownEntry
<1>5. ASSUME NEW a \in W, a \in DOMAIN held' \ untracked'
      PROVE  Entry(a, held[a])'
      <2>1. a \in DOMAIN regions /\ held'[a] = regions[a] /\ Entry(a, regions[a]) /\ Same(a)
            BY <1>2, <1>3, <1>5
      <2> QED
          BY <2>1, SameEntry DEF Entry
<1>6. Outside(W) /\ DeadKept(W)
      BY <1>3, <1>4, LandStays DEF Outside, DeadKept
<1>7. Elsewhere(t, W)
      BY <1>1, <1>2, <1>6, ElseGround
<1>8. /\ \A a : ~Leaves(t, a)
      /\ ~LowKnown(t)' /\ ~HighKnown(t)' /\ th'[t].pc \notin Agreed
      /\ \A a : KnownTo(t, a) => a \in W
      BY DEF Leaves, LowKnown, HighKnown, KnownTo, Agreed, Shaping, Shaped, Clearing
<1>9. \A a \in W : a \in untracked' => a \in DOMAIN held'
      BY <1>3
<1>10. OwnExact(t, W)
      BY <1>2, <1>4, <1>5, <1>8, <1>9 DEF OwnExact
<1>11. SeenOf(t)' /\ ClearOf(t)' /\ QueryOf(t)' /\ th'[t].pc \notin Clearing
      BY NothingSeen, NothingClear, NothingAsked DEF Shaping, Clearing
<1> QED
    BY <1>1, <1>7, <1>10, <1>11, AgreementStep

LEMMA ReshapedAgrees ==
  ASSUME All, NEW t \in Threads, NEW S, NEW v, Reshaped(t, S, v), StepTyped(t)
  PROVE  Agreement'
<1> USE DEF All
<1>. PICK r : r = th'[t]
     OBVIOUS
<1>1. OthersStand(t) /\ Watching(t) /\ ExactInv /\ ValueInv
      BY DEF StepTyped, Agreement
<1>2. /\ th[t].pc = "idle" /\ v \in spare /\ S \subseteq DOMAIN held /\ \A x \in S : Users(x) = {}
      /\ r.pc = "lock" /\ r.new = v /\ r.at \in S /\ r.op \in {"split", "merge"}
      /\ r.op = "split" => S = {r.at}
      /\ r.op = "merge" => S = {r.at, r.high}
      /\ DOMAIN r.before = S /\ \A x \in S : r.before[x] = held[x]
      /\ r.after[r.at].pool = held[r.at].pool
      /\ value' = [value EXCEPT ![v] = [pool |-> r.after[r.at].pool, size |-> r.after[r.at].size]]
      /\ spare' = spare \ {v} /\ held' = Without(held, S)
      /\ map' = map /\ given' = given /\ live' = live /\ untracked' = untracked
      BY DEF Reshaped
<1>3. /\ v \in Values /\ OwnedOnce(v)
      /\ value'[v] = [pool |-> r.after[r.at].pool, size |-> r.after[r.at].size]
      /\ value'[v].pool \in live /\ \A w \in Values \ {v} : value'[w] = value[w]
      BY <1>1, <1>2, HeldLand DEF MapTyped, ValueInv
<1>4. \A b \in Addresses : Tracked(b) => ValueAt(b) \in Values /\ ValueAt(b) # v
      BY <1>2, <1>3, TrackedEntry DEF OwnedOnce, Holds
<1>5. \A b \in Addresses : Same(b)
      BY <1>2, <1>3, <1>4 DEF Same
<1>6. \A w : \A b \in Addresses : Holds(b, w)' <=> Holds(b, w)
      BY <1>2 DEF Holds, Tracked, ValueAt
<1>7. \A w : ~InHand(t, w) /\ (InHand(t, w)' <=> w = v)
      BY <1>2 DEF InHand, Shaping
<1>8. \A s \in Threads \ {t} : \A w : InHand(s, w)' <=> InHand(s, w)
      BY <1>1, HandsStand
<1>9. ASSUME NEW w \in Values PROVE OwnedOnce(w)'
      <2>1. CASE w = v
            BY <1>2, <1>3, <1>6, <1>7, <1>8, <2>1, ValueTaken
      <2>2. CASE w # v
            <3>1. w \in spare' <=> w \in spare
                  BY <1>2, <2>2
            <3>2. \A s \in Threads : InHand(s, w)' <=> InHand(s, w)
                  BY <1>7, <1>8, <2>2
            <3>3. OwnedOnce(w)
                  BY <1>1 DEF ValueInv
            <3> QED
                BY <1>6, <3>1, <3>2, <3>3, ValueStays
      <2> QED
          BY <2>1, <2>2
<1>10. HandsKept(t)
      <2>1. ASSUME NEW s \in Threads \ {t}, th[s].pc \in Shaping
            PROVE  th[s].new \in Values /\ th[s].new # v
            BY <1>2, <1>3, <2>1 DEF FieldInv, FieldsOK, OwnedOnce, InHand
      <2> QED
          BY <1>3, <2>1 DEF HandsKept
<1>11. DOMAIN held' = DOMAIN held \ S /\ \A b \in DOMAIN held' : held'[b] = held[b]
      BY <1>2 DEF Without
<1>12. ASSUME NEW a \in S, Tracked(a)
      PROVE  a \notin untracked /\ PoolOf(a) \in live
      <2>1. a \in DOMAIN held /\ a \in Bytes(a, held[a].size)
            BY <1>2, HeldLand
      <2> QED
          BY <1>1, <1>12, <2>1, HeldKnown
<1>13. S \subseteq Addresses
      BY <1>2, HeldLand
<1>14. ASSUME NEW a \in S, Tracked(a)'
      PROVE  Tracked(a) /\ PoolOf(a)' \in live
      <2>1. Tracked(a) /\ PoolOf(a)' = PoolOf(a)
            BY <1>5, <1>13, <1>14, SameEntry
      <2> QED
          BY <1>12, <2>1
<1>15. Outside(S) /\ DeadKept(S)
      BY <1>2, <1>3, <1>5, <1>11, <1>14, LandStays DEF Outside, DeadKept
<1>16. Elsewhere(t, S)
      BY <1>1, <1>2, <1>15, ElseHeld
<1>. DEFINE Before(a) == Tracked(a)' /\ PoolOf(a)' = r.before[a].pool /\ SizeOf(a)' = r.before[a].size
<1>17. ASSUME NEW a \in S, a \notin untracked
      PROVE  Before(a)
      <2>1. Entry(a, held[a]) /\ Same(a) /\ r.before[a] = held[a]
            BY <1>1, <1>2, <1>5, <1>13, <1>17 DEF ExactInv
      <2> QED
          BY <2>1, SameEntry
<1>18. /\ LowKnown(t)' <=> r.at \notin untracked
       /\ HighKnown(t)' <=> r.op = "merge" /\ r.high \notin untracked
       /\ LowIs(t)' = r.before[r.at] /\ (r.op = "merge" => HighIs(t)' = r.before[r.high])
      BY <1>2 DEF LowKnown, HighKnown, LowIs, HighIs, Shaping, Shaped, Early
<1>19. /\ (LowKnown(t) => Entry(th[t].at, LowIs(t)))'
       /\ (HighKnown(t) => Entry(th[t].high, HighIs(t)))'
      <2>1. LowKnown(t)' => Before(r.at)
            BY <1>2, <1>17, <1>18
      <2>2. HighKnown(t)' => r.op = "merge" /\ Before(r.high)
            BY <1>2, <1>17, <1>18
      <2> QED
          BY <1>18, <2>1, <2>2 DEF Entry
<1>20. \A a \in S : Tracked(a)' => KnownTo(t, a)'
      BY <1>2, <1>12, <1>14, <1>18 DEF KnownTo
<1>21. \A a : ~KnownTo(t, a) /\ ~Leaves(t, a)
      BY <1>2 DEF KnownTo, LowKnown, HighKnown, Leaves, Shaping, Shaped, Clearing
<1>22. OwnExact(t, S)
      BY <1>2, <1>11, <1>19, <1>20, <1>21 DEF OwnExact, Shaping, Shaped, Agreed
<1>23. SeenOf(t)' /\ ClearOf(t)' /\ QueryOf(t)' /\ th'[t].pc \notin Clearing
      BY <1>2, <1>3, NothingClear, NothingAsked DEF SeenOf, Agreed, Clearing
<1> QED
    BY <1>1, <1>9, <1>10, <1>16, <1>22, <1>23, AgreementStep

LEMMA AddHighAgrees ==
  ASSUME All, NEW t \in Threads, StepTyped(t), AddHigh(t)
  PROVE  Agreement'
<1> USE DEF All
<1>. PICK b : b = th[t].high
     OBVIOUS
<1>. PICK a0 : a0 = th[t].at
     OBVIOUS
<1>. PICK r : r = th[t].after[b]
     OBVIOUS
<1>1. OthersStand(t) /\ Watching(t) /\ ThreadInv /\ ExactInv /\ ValueInv /\ SeenOf(t)
      BY DEF StepTyped, RegionInv, Agreement, ValueInv
<1>2. /\ th[t].pc = "add" /\ th[t].pc \in Shaping /\ th[t].pc \in Agreed /\ th[t].op = "split"
      /\ UNCHANGED <<given, held, untracked>>
      BY DEF AddHigh, At, Shaping, Agreed, upstream, callers, RegionInv, HighInv
<1>3. /\ th[t].at \in Addresses /\ b \in Addresses /\ th[t].at # b
      /\ PoolBy(t) \in live /\ DOMAIN th[t].before = {th[t].at}
      BY <1>2, ShapePlaces
<1>4. DOMAIN th[t].before \cap untracked = {}
      BY <1>1, <1>2 DEF ExactInv
<1>5. LowKnown(t) /\ ~HighKnown(t) /\ r.pool = PoolBy(t)
      <2>1. HighIs(t) = r /\ HighIs(t).pool = PoolBy(t)
            BY <1>2, ShapePlaces DEF HighIs
      <2> QED
          BY <1>2, <2>1 DEF LowKnown, HighKnown, Shaping, Shaped, Early
<1>6. CASE CannotAdd(b) /\ Goto(t, "undo")
      <2>1. UNCHANGED <<map, value, spare>>
            BY <1>6 DEF CannotAdd, index, objects
      <2>2. th'[t].pc = "undo" /\ SameShape(t) /\ th'[t].new = th[t].new
            BY <1>1, <1>2, <1>6, Goes DEF SameShape, Carrying
      <2>3. LowKnown(t)' /\ ~HighKnown(t)'
            BY <1>2, <1>3, <1>4, <2>2 DEF LowKnown, HighKnown, SameShape, Shaping, Shaped, Early
      <2> QED
          BY <1>1, <1>2, <1>4, <1>5, <2>1, <2>2, <2>3, LandStays, ShapeAside DEF Shaping, Agreed
<1>7. CASE Add(b, r.pool, r.size) /\ Goto(t, "update")
      <2>1. /\ th'[t].pc = "update" /\ SameShape(t) /\ th'[t].new = th[t].new
            /\ th'[t].old = th[t].old
            BY <1>1, <1>2, <1>7, Goes DEF SameShape, Carrying
      <2>2. \A v : InHand(t, v)' <=> InHand(t, v)
            BY <1>2, <2>1 DEF InHand, Shaping
      <2>3. /\ map'[b] # Null /\ PoolOf(b)' = r.pool /\ SizeOf(b)' = r.size
            /\ \A a \in Addresses \ {b} : Same(a)
            /\ \A w \in Values : value'[w] = value[w] \/ value'[w].pool = r.pool
            /\ \A v \in Values : OwnedOnce(v)'
            /\ HandsKept(t) /\ value'[th[t].new] = value[th[t].new]
            BY <1>1, <1>2, <1>3, <1>7, <2>2, AddIs
      <2>4. /\ LowKnown(t)' /\ HighKnown(t)' /\ LowIs(t)' = LowIs(t) /\ HighIs(t)' = r
            BY <1>2, <1>3, <2>1
               DEF LowKnown, HighKnown, LowIs, HighIs, SameShape, Shaping, Shaped, Early
      <2>5. Entry(th[t].at, LowIs(t))'
            <3>1. Entry(th[t].at, LowIs(t)) /\ Same(th[t].at)
                  BY <1>1, <1>3, <1>5, <2>3 DEF ExactInv
            <3> QED
                BY <2>1, <2>4, <3>1, SameEntry DEF Entry, SameShape
      <2>6. Entry(th[t].high, HighIs(t))'
            BY <2>1, <2>3, <2>4 DEF Entry, Tracked, SameShape
      <2>7. SeenOf(t)'
            <3>1. map'[th[t].at] = map[th[t].at]
                  BY <1>3, <2>3 DEF Same
            <3> QED
                BY <1>1, <1>2, <2>1, <2>3, <3>1 DEF SeenOf, SameShape, Agreed, Shaping
      <2>8. KnownTo(t, b)' /\ PoolOf(b)' \in live
            BY <1>3, <1>5, <2>1, <2>3, <2>4 DEF KnownTo, SameShape
      <2>9. KnownTo(t, a0)'
            BY <2>1, <2>4 DEF KnownTo, SameShape
      <2>. PICK W : W = {b}
           OBVIOUS
      <2>10. W \in SUBSET {th[t].at, th[t].high} /\ \A a \in Addresses \ W : Same(a)
            BY <2>3
      <2>11. \A a \in W : Tracked(a)' => KnownTo(t, a)' /\ PoolOf(a)' \in live
            BY <2>8
      <2>12. \A a \in {th[t].at, th[t].high} \ W : KnownTo(t, a) => KnownTo(t, a)'
            BY <2>9
      <2>13. \A w \in Values : value'[w] = value[w] \/ value'[w].pool \in live \cup {Null}
            BY <1>3, <1>5, <2>3
      <2> QED
          BY <1>2, <1>4, <2>1, <2>3, <2>5, <2>6, <2>7, <2>10, <2>11, <2>12, <2>13, ShapeStep DEF Shaping
<1> QED
    BY <1>6, <1>7 DEF AddHigh

LEMMA UpdateAgrees ==
  ASSUME All, NEW t \in Threads, StepTyped(t), Update(t), strays' = {}
  PROVE  Agreement'
<1> USE DEF All
<1>. PICK r : r = th[t]
     OBVIOUS
<1>. PICK a : a = r.at
     OBVIOUS
<1>. PICK n : n = r.new
     OBVIOUS
<1>1. OthersStand(t) /\ Watching(t) /\ ThreadInv /\ ExactInv /\ ValueInv /\ SeenOf(t)
      BY DEF StepTyped, RegionInv, Agreement, ValueInv
<1>2. /\ r.pc = "update" /\ r.pc \in Shaping /\ r.pc \in Agreed
      /\ UNCHANGED <<given, held, untracked, value, spare>>
      /\ map' = [map EXCEPT ![a] = <<a, n>>]
      <2>1. strays' # strays \cup {a}
            OBVIOUS
      <2> QED
          BY <2>1 DEF Update, At, Shaping, Agreed, upstream, objects, SetMap
<1>3. /\ a \in Addresses /\ r.high \in Addresses /\ a # r.high /\ PoolBy(t) \in live
      /\ r.after[a].pool = PoolBy(t) /\ r.op \in {"split", "merge"} /\ a \in DOMAIN r.before
      BY <1>2, ShapePlaces
<1>4. /\ n \in Values /\ r.old \in Values /\ map[a] = <<a, r.old>>
      /\ value[n] = [pool |-> r.after[a].pool, size |-> r.after[a].size]
      BY <1>1, <1>2 DEF FieldInv, FieldsOK, SeenOf
<1>5. /\ th'[t] = [pc |-> "retire", op |-> r.op, at |-> a, high |-> r.high,
                   old |-> r.old, before |-> r.before, after |-> r.after]
      BY <1>1, Becomes DEF Update
<1>6. th'[t].pc = "retire" /\ SameShape(t) /\ th'[t].old = r.old
      BY <1>5 DEF SameShape
<1>7. map'[a] = <<a, n>> /\ \A b \in Addresses \ {a} : map'[b] = map[b]
      BY <1>2, <1>3 DEF MapTyped
<1>8. \A b \in Addresses \ {a} : Same(b)
      BY <1>2, <1>7 DEF Same
<1>9. /\ <<a, n>> # Null /\ Tracked(a)' /\ ValueAt(a)' = n /\ PoolOf(a)' = r.after[a].pool
      /\ SizeOf(a)' = r.after[a].size
      <2>1. <<a, n>> # Null
            BY <1>3, <1>4, NotNull DEF Entries
      <2> QED
          BY <1>2, <1>4, <1>7, <2>1 DEF Tracked, PoolOf, SizeOf, ValueAt
<1>10. Holds(a, r.old) /\ ValueAt(a) = r.old
      <2>1. <<a, r.old>> # Null
            BY <1>3, <1>4, NotNull DEF Entries
      <2> QED
          BY <1>4, <2>1 DEF Holds, Tracked, ValueAt
<1>11. InHand(t, n) /\ n # r.old
      <2>1. InHand(t, n)
            BY <1>2 DEF InHand
      <2>2. ~InHand(t, r.old)
            BY <1>1, <1>3, <1>4, <1>10 DEF ValueInv, OwnedOnce
      <2> QED
          BY <2>1, <2>2
<1>12. \A w : InHand(t, w)' <=> w = r.old
      BY <1>6 DEF InHand, Shaping
<1>13. \A w : InHand(t, w) <=> w = n
      BY <1>2 DEF InHand
<1>14. \A s \in Threads \ {t} : \A w : InHand(s, w)' <=> InHand(s, w)
      BY <1>1, HandsStand
<1>15. \A w : \A b \in Addresses \ {a} : Holds(b, w)' <=> Holds(b, w)
      BY <1>7 DEF Holds, Tracked, ValueAt
<1>16. \A w : (Holds(a, w)' <=> w = n) /\ (Holds(a, w) <=> w = r.old)
      BY <1>9, <1>10 DEF Holds
<1>17. ASSUME NEW w \in Values PROVE OwnedOnce(w)'
      <2>1. OwnedOnce(w) /\ (w \in spare' <=> w \in spare)
            BY <1>1, <1>2 DEF ValueInv
      <2>2. CASE w = n
            BY <1>3, <1>11, <1>12, <1>14, <1>15, <1>16, <2>1, <2>2, ValueEntered
      <2>3. CASE w = r.old
            BY <1>3, <1>10, <1>11, <1>12, <1>14, <1>15, <1>16, <2>1, <2>3, ValueReplaced
      <2>4. CASE w # n /\ w # r.old
            <3>1. \A s \in Threads : InHand(s, w)' <=> InHand(s, w)
                  BY <1>12, <1>13, <1>14, <2>4
            <3>2. \A b \in Addresses : Holds(b, w)' <=> Holds(b, w)
                  BY <1>15, <1>16, <2>4
            <3> QED
                BY <2>1, <3>1, <3>2, ValueStays
      <2> QED
          BY <2>2, <2>3, <2>4
<1>18. HandsKept(t) /\ SeenOf(t)'
      BY <1>2, <1>6, NothingSeen DEF HandsKept, Shaping
<1>19. /\ LowKnown(t)' /\ HighKnown(t)' /\ HighKnown(t)
       /\ LowIs(t)' = r.after[a] /\ HighIs(t)' = HighIs(t)
      BY <1>2, <1>3, <1>6 DEF LowKnown, HighKnown, LowIs, HighIs, SameShape, Shaping, Shaped, Early
<1>20. Entry(th[t].at, LowIs(t))'
      BY <1>6, <1>9, <1>19 DEF Entry, SameShape
<1>21. Entry(th[t].high, HighIs(t))'
      <2>1. Entry(r.high, HighIs(t)) /\ Same(r.high)
            BY <1>1, <1>3, <1>8, <1>19 DEF ExactInv
      <2> QED
          BY <1>6, <1>19, <2>1, SameEntry DEF Entry, SameShape
<1>. PICK W : W = {a}
     OBVIOUS
<1>22. KnownTo(t, a)' /\ KnownTo(t, r.high)' /\ PoolOf(a)' \in live
      BY <1>3, <1>6, <1>9, <1>19 DEF KnownTo, SameShape
<1>23. /\ W \in SUBSET {th[t].at, th[t].high} /\ \A b \in Addresses \ W : Same(b)
       /\ \A b \in W : Tracked(b)' => KnownTo(t, b)' /\ PoolOf(b)' \in live
       /\ \A b \in {th[t].at, th[t].high} \ W : KnownTo(t, b) => KnownTo(t, b)'
       /\ \A w \in Values : value'[w] = value[w] \/ value'[w].pool \in live \cup {Null}
      BY <1>2, <1>8, <1>22
<1> QED
    BY <1>2, <1>6, <1>17, <1>18, <1>20, <1>21, <1>23, ShapeStep DEF Shaping, Shaped, Agreed

LEMMA RetireAgrees ==
  ASSUME All, NEW t \in Threads, StepTyped(t), Retire(t)
  PROVE  Agreement'
<1> USE DEF All
<1>. PICK a0 : a0 = th[t].at
     OBVIOUS
<1>. PICK h0 : h0 = th[t].high
     OBVIOUS
<1>. PICK old : old = th[t].old
     OBVIOUS
<1>1. OthersStand(t) /\ Watching(t) /\ ThreadInv /\ ExactInv /\ ValueInv
      BY DEF StepTyped, RegionInv, Agreement
<1>2. /\ th[t].pc = "retire" /\ th[t].pc \in Shaped /\ FreeValue(old) /\ map' = map
      /\ UNCHANGED <<given, held, untracked>>
      BY DEF Retire, At, Shaped, upstream, callers, index
<1>3. old \in Values
      BY <1>2 DEF FieldInv, FieldsOK
<1>4. PICK pc \in {"unlock", "remove"} :
        Goto(t, pc) /\ pc = IF th[t].op = "split" THEN "unlock" ELSE "remove"
      BY DEF Retire
<1>5. th'[t].pc = pc /\ SameShape(t)
      BY <1>1, <1>2, <1>4, Goes DEF SameShape, Carrying
<1>6. /\ a0 \in Addresses /\ h0 \in Addresses /\ th[t].op \in {"split", "merge"}
      BY <1>2, ShapePlaces
<1>7. InHand(t, old) /\ (\A w : ~InHand(t, w)') /\ \A w : w # old => ~InHand(t, w)
      BY <1>2, <1>4, <1>5 DEF InHand, Shaping
<1>8. /\ \A b \in Addresses : Same(b)
      /\ \A w \in Values : value'[w] = value[w] \/ value'[w].pool = Null
      /\ \A w \in Values : OwnedOnce(w)'
      /\ HandsKept(t)
      BY <1>1, <1>2, <1>3, <1>7, ReturnIs
<1>9. /\ LowKnown(t) /\ HighKnown(t) /\ LowKnown(t)' /\ HighKnown(t)'
      /\ LowIs(t)' = LowIs(t) /\ HighIs(t)' = HighIs(t)
      BY <1>2, <1>4, <1>5, <1>6 DEF LowKnown, HighKnown, LowIs, HighIs, SameShape, Shaping, Shaped, Early
<1>10. /\ Entry(a0, LowIs(t)) /\ Same(a0) /\ Entry(h0, HighIs(t)) /\ Same(h0)
      BY <1>1, <1>6, <1>8, <1>9 DEF ExactInv
<1>11. Entry(th[t].at, LowIs(t))' /\ Entry(th[t].high, HighIs(t))'
      BY <1>5, <1>9, <1>10, SameEntry DEF Entry, SameShape
<1>12. KnownTo(t, a0)' /\ KnownTo(t, h0)' /\ SeenOf(t)' /\ th'[t].pc \in Shaped
      BY <1>4, <1>5, <1>9, NothingSeen DEF KnownTo, SameShape, Shaping, Shaped
<1>. PICK W : W = {}
     OBVIOUS
<1>13. /\ W \in SUBSET {th[t].at, th[t].high} /\ \A b \in Addresses \ W : Same(b)
       /\ \A b \in W : Tracked(b)' => KnownTo(t, b)' /\ PoolOf(b)' \in live
       /\ \A b \in {th[t].at, th[t].high} \ W : KnownTo(t, b) => KnownTo(t, b)'
       /\ \A w \in Values : value'[w] = value[w] \/ value'[w].pool \in live \cup {Null}
      BY <1>8, <1>12
<1> QED
    BY <1>2, <1>5, <1>8, <1>11, <1>12, <1>13, ShapeStep DEF Shaping, Shaped, Agreed

LEMMA RemoveHighAgrees ==
  ASSUME All, NEW t \in Threads, StepTyped(t), RemoveHigh(t)
  PROVE  Agreement'
<1> USE DEF All
<1>. PICK a0 : a0 = th[t].at
     OBVIOUS
<1>. PICK h0 : h0 = th[t].high
     OBVIOUS
<1>1. OthersStand(t) /\ Watching(t) /\ ThreadInv /\ ExactInv /\ ValueInv
      BY DEF StepTyped, RegionInv, Agreement
<1>2. /\ th[t].pc = "remove" /\ th[t].pc \in Shaped /\ Forget(h0) /\ Goto(t, "unlock")
      /\ UNCHANGED <<given, held, untracked>>
      BY DEF RemoveHigh, At, Shaped, upstream, callers
<1>3. th[t].op = "merge"
      BY <1>2 DEF FieldInv, FieldsOK
<1>4. th'[t].pc = "unlock" /\ SameShape(t)
      BY <1>1, <1>2, Goes DEF SameShape, Carrying
<1>5. a0 \in Addresses /\ h0 \in Addresses /\ a0 # h0
      BY <1>2, ShapePlaces
<1>6. \A v : InHand(t, v)' <=> InHand(t, v)
      BY <1>2, <1>4 DEF InHand, Shaping
<1>7. /\ LowKnown(t) /\ HighKnown(t) /\ LowKnown(t)' /\ ~HighKnown(t)' /\ LowIs(t)' = LowIs(t)
      BY <1>2, <1>3, <1>4 DEF LowKnown, HighKnown, LowIs, SameShape, Shaping, Shaped, Early
<1>8. Tracked(h0)
      BY <1>1, <1>7 DEF ExactInv, Entry
<1>9. /\ ~Tracked(h0)'
      /\ \A b \in Addresses \ {h0} : Same(b)
      /\ \A w \in Values : value'[w] = value[w] \/ value'[w].pool = Null
      /\ \A v \in Values : OwnedOnce(v)'
      /\ HandsKept(t)
      BY <1>1, <1>2, <1>5, <1>6, <1>8, ForgetIs
<1>10. Entry(a0, LowIs(t)) /\ Same(a0)
      BY <1>1, <1>5, <1>7, <1>9 DEF ExactInv
<1>11. Entry(th[t].at, LowIs(t))'
      BY <1>4, <1>7, <1>10, SameEntry DEF Entry, SameShape
<1>12. KnownTo(t, a0)' /\ SeenOf(t)' /\ th'[t].pc \in Shaped
      BY <1>4, <1>7, NothingSeen DEF KnownTo, SameShape, Shaping, Shaped
<1>. PICK W : W = {h0}
     OBVIOUS
<1>13. /\ W \in SUBSET {th[t].at, th[t].high} /\ \A b \in Addresses \ W : Same(b)
       /\ \A b \in W : Tracked(b)' => KnownTo(t, b)' /\ PoolOf(b)' \in live
       /\ \A b \in {th[t].at, th[t].high} \ W : KnownTo(t, b) => KnownTo(t, b)'
       /\ \A w \in Values : value'[w] = value[w] \/ value'[w].pool \in live \cup {Null}
      BY <1>9, <1>12
<1> QED
    BY <1>2, <1>4, <1>7, <1>9, <1>11, <1>12, <1>13, ShapeStep DEF Shaping, Shaped, Agreed

LEMMA UnlockAgrees ==
  ASSUME All, NEW t \in Threads, StepTyped(t), Unlock(t)
  PROVE  Agreement'
<1> USE DEF All
<1>. DEFINE a0 == th[t].at
            h0 == th[t].high
<1>. PICK regions : regions = th[t].after
     OBVIOUS
<1>1. OthersStand(t) /\ Watching(t) /\ ThreadInv /\ ExactInv /\ ValueInv
      BY DEF StepTyped, RegionInv, Agreement
<1>2. /\ th[t].pc = "unlock" /\ th[t].pc \in Shaped /\ Hold(regions) /\ Done(t)
      /\ untracked' = untracked \ {a0, h0} /\ UNCHANGED <<given, map, value, spare>>
      BY DEF Unlock, At, Shaped, upstream, index, objects
<1>3. th'[t].pc = "idle"
      BY <1>1, <1>2, Becomes DEF Done, NoQuery
<1>4. /\ th[t].op \in {"split", "merge"} /\ a0 # h0
      /\ th[t].op = "split" => DOMAIN regions = {a0, h0}
      /\ th[t].op = "merge" => DOMAIN regions = {a0}
      BY <1>2, ShapePlaces
<1>5. \A v : InHand(t, v)' <=> InHand(t, v)
      BY <1>2, <1>3 DEF InHand, Shaping
<1>6. /\ \A b \in Addresses : Same(b)
      /\ \A v \in Values : OwnedOnce(v)'
      /\ HandsKept(t)
      BY <1>1, <1>2, <1>5, ValuesKept
<1>7. /\ LowKnown(t) /\ (HighKnown(t) <=> th[t].op = "split") /\ LowIs(t) = regions[a0]
      /\ th[t].op = "split" => HighIs(t) = regions[h0]
      BY <1>2, <1>4 DEF LowKnown, HighKnown, LowIs, HighIs, Shaping, Shaped, Early
<1>8. /\ Entry(a0, regions[a0]) /\ (th[t].op = "split" => Entry(h0, regions[h0]))
      <2>1. Entry(a0, LowIs(t)) /\ (HighKnown(t) => Entry(h0, HighIs(t)))
            BY <1>1, <1>7 DEF ExactInv
      <2> QED
          BY <1>7, <2>1
<1>9. \A a \in DOMAIN regions \ untracked' : Entry(a, regions[a])
      BY <1>4, <1>8
<1>10. \A a : KnownTo(t, a) => a \in DOMAIN regions \ untracked'
      BY <1>2, <1>4, <1>7 DEF KnownTo
<1>11. /\ DOMAIN regions \subseteq {a0, h0}
       /\ \A a \in Addresses \ {a0, h0} : a \in untracked' <=> a \in untracked
       /\ \A a \in {a0, h0} : a \in untracked' => a \in DOMAIN regions
       /\ \A w \in Values : value'[w] = value[w] \/ value'[w].pool = Null
      BY <1>2, <1>4
<1> QED
    BY <1>2, <1>3, <1>6, <1>9, <1>10, <1>11, ShapeBack

LEMMA UndoAgrees ==
  ASSUME All, NEW t \in Threads, StepTyped(t), Undo(t)
  PROVE  Agreement'
<1> USE DEF All
<1>. DEFINE a0 == th[t].at
            h0 == th[t].high
<1>. PICK regions : regions = th[t].before
     OBVIOUS
<1>. PICK new : new = th[t].new
     OBVIOUS
<1>1. OthersStand(t) /\ Watching(t) /\ ThreadInv /\ ExactInv /\ ValueInv
      BY DEF StepTyped, RegionInv, Agreement
<1>2. /\ th[t].pc = "undo" /\ th[t].pc \in Shaping /\ Hold(regions) /\ Done(t) /\ FreeValue(new)
      /\ UNCHANGED <<given, map, untracked>>
      BY DEF Undo, At, Shaping, upstream, index
<1>3. th'[t].pc = "idle" /\ new \in Values
      BY <1>1, <1>2, Becomes DEF Done, NoQuery, FieldInv, FieldsOK
<1>4. /\ th[t].op \in {"split", "merge"} /\ a0 # h0 /\ Carries(t)
      /\ a0 \in Ground(t) /\ h0 \in Ground(t)
      /\ th[t].op = "split" => DOMAIN regions = {a0}
      /\ th[t].op = "merge" => DOMAIN regions = {a0, h0}
      BY <1>2, ShapePlaces
<1>5. InHand(t, new) /\ (\A w : ~InHand(t, w)') /\ \A w : w # new => ~InHand(t, w)
      BY <1>2, <1>3 DEF InHand, Shaping
<1>6. /\ \A b \in Addresses : Same(b)
      /\ \A w \in Values : value'[w] = value[w] \/ value'[w].pool = Null
      /\ \A w \in Values : OwnedOnce(w)'
      /\ HandsKept(t)
      BY <1>1, <1>2, <1>3, <1>5, ReturnIs
<1>7. /\ LowKnown(t) <=> a0 \notin untracked
      /\ HighKnown(t) <=> th[t].op = "merge" /\ h0 \notin untracked
      /\ LowIs(t) = regions[a0] /\ (th[t].op = "merge" => HighIs(t) = regions[h0])
      BY <1>2, <1>4 DEF LowKnown, HighKnown, LowIs, HighIs, Shaping, Shaped, Early
<1>8. /\ a0 \notin untracked => Entry(a0, regions[a0])
      /\ th[t].op = "merge" /\ h0 \notin untracked => Entry(h0, regions[h0])
      <2>1. (LowKnown(t) => Entry(a0, LowIs(t))) /\ (HighKnown(t) => Entry(h0, HighIs(t)))
            BY <1>1, <1>7 DEF ExactInv
      <2> QED
          BY <1>7, <2>1
<1>9. \A a \in DOMAIN regions \ untracked' : Entry(a, regions[a])
      BY <1>2, <1>4, <1>8
<1>10. \A a : KnownTo(t, a) => a \in DOMAIN regions \ untracked'
      BY <1>2, <1>4, <1>7 DEF KnownTo
<1>11. \A a \in {a0, h0} : a \in untracked' => a \in DOMAIN regions
      BY <1>1, <1>2, <1>4, UntrackedIs
<1>12. /\ DOMAIN regions \subseteq {a0, h0}
       /\ \A a \in Addresses \ {a0, h0} : a \in untracked' <=> a \in untracked
      BY <1>2, <1>4
<1> QED
    BY <1>2, <1>3, <1>6, <1>9, <1>10, <1>11, <1>12, ShapeBack

-----------------------------------------------------------------------------
(* The clearing of a pool. *)

(* A search begins with what is in the map. *)
LEMMA SeekClear ==
  ASSUME MapTyped, NEW t \in Threads, UNCHANGED <<map, value, spare>>, NEW k \in Nat, Seek(t, k),
         th'[t].pc = "seek",
         ~th'[t].overtaken => \A a \in Addresses : Tracked(a) /\ PoolOf(a) = th'[t].pool => a >= k
  PROVE  ClearOf(t)'
<1>. PICK w : w = Index(t)!Opened(<<"ge", k>>, map)
     OBVIOUS
<1>. PICK x : x = Index(t)!Exact(<<"ge", k>>, map)
     OBVIOUS
<1>. PICK ge : ge = "ge"
     OBVIOUS
<1>1. find'[t] = w
      BY OwnQuery DEF Seek
<1>2. w.query = <<"ge", k>> /\ w.exact = {x} /\ w.loose = Index(t)!Loose(<<"ge", k>>, map)
      BY OpenedIs
<1>3. w.loose = {map[a] : a \in Beside(ge, k, map)}
      BY <1>2, BesideIs
<1>4. x = Null \/ \E a \in Beside(ge, k, map) : x = map[a]
      <2>1. \/ Index(t)!Exact(<<ge, k>>, map) = Null
            \/ \E j \in Beside(ge, k, map) : Index(t)!Exact(<<ge, k>>, map) = map[j]
            BY ExactCases
      <2> QED
          BY <2>1
<1>5. ASSUME NEW a \in Beside(ge, k, map)
      PROVE  map'[map[a][1]] = map[a]
      BY DEF Beside, MapTyped, Tracked
<1>6. \A e \in w.exact \cup w.loose : e # Null => map'[e[1]] = e
      BY <1>2, <1>3, <1>4, <1>5
<1>7. Index(t)!Exact(find[t].query, map)' \in find'[t].exact
      BY <1>1, <1>2
<1>8. Floor(t, find[t].query[2])'
      BY <1>1, <1>2 DEF Floor, Tracked, PoolOf, ValueAt
<1> QED
    BY <1>1, <1>6, <1>7, <1>8 DEF ClearOf, Stands

(* A step of a clearing that leaves the map alone. *)
LEMMA ClearAside ==
  ASSUME All, NEW t \in Threads, StepTyped(t), UNCHANGED <<map, value, spare, held, untracked, given>>,
         th[t].pc \in Clearing, th'[t].pc \in Clearing, th'[t].pool = th[t].pool, ClearOf(t)'
  PROVE  Agreement'
<1> USE DEF All
<1>1. OthersStand(t) /\ Watching(t) /\ ExactInv /\ ValueInv
      BY DEF StepTyped, Agreement
<1>2. \A v : InHand(t, v)' <=> InHand(t, v)
      BY DEF InHand, Shaping, Clearing
<1>3. /\ \A b \in Addresses : Same(b)
      /\ \A v \in Values : OwnedOnce(v)'
      /\ HandsKept(t)
      BY <1>1, <1>2, ValuesKept
<1>4. Outside({}) /\ DeadKept({})
      BY <1>3, LandStays DEF Outside, DeadKept
<1>5. Elsewhere(t, {})
      BY <1>1, <1>4, ElseGround
<1>6. ASSUME NEW a, Leaves(t, a) PROVE Leaves(t, a)'
      BY <1>6 DEF Leaves, Land, PoolOf, ValueAt
<1>7. OwnExact(t, {})
      BY <1>6 DEF OwnExact, LowKnown, HighKnown, KnownTo, Shaping, Shaped, Agreed, Clearing
<1>8. SeenOf(t)' /\ QueryOf(t)'
      BY NothingSeen, NothingAsked DEF Shaping, Clearing
<1> QED
    BY <1>1, <1>3, <1>5, <1>7, <1>8, AgreementStep

LEMMA SeekOnAgrees ==
  ASSUME All, NEW t \in Threads, StepTyped(t), UNCHANGED <<map, value, spare, held, untracked, given>>,
         th[t].pc \in {"match", "on"}, SeekOn(t), Floor(t, th[t].entry[1] + 1)
  PROVE  Agreement'
<1> USE DEF All
<1>1. ThreadInv /\ th[t].entry[1] + 1 \in Nat
      BY TrackingAssumption DEF RegionInv, FieldInv, FieldsOK, Entries, Addresses
<1>2. th'[t] = [pc |-> "seek", pool |-> th[t].pool, overtaken |-> th[t].overtaken]
      BY <1>1, Becomes DEF SeekOn
<1>. PICK k : k = th[t].entry[1] + 1
     OBVIOUS
<1>3. k \in Nat /\ Seek(t, k)
      BY <1>1 DEF SeekOn
<1>4. ~th'[t].overtaken => \A a \in Addresses : Tracked(a) /\ PoolOf(a) = th'[t].pool => a >= k
      BY <1>2 DEF Floor
<1>5. ClearOf(t)'
      BY <1>2, <1>3, <1>4, SeekClear
<1> QED
    BY <1>2, <1>5, ClearAside DEF Clearing

LEMMA GoOnAgrees ==
  ASSUME All, NEW t \in Threads, StepTyped(t), GoOn(t)
  PROVE  Agreement'
<1>1. th[t].pc = "on" /\ SeekOn(t) /\ UNCHANGED <<map, value, spare, held, untracked, given>>
      BY DEF GoOn, At, upstream, objects, callers
<1>2. Floor(t, th[t].entry[1] + 1)
      BY <1>1 DEF All, Agreement, ClearInv, ClearOf
<1> QED
    BY <1>1, <1>2, SeekOnAgrees

LEMMA MatchAgrees ==
  ASSUME All, NEW t \in Threads, StepTyped(t), Match(t)
  PROVE  Agreement'
<1> USE DEF All
<1>. PICK e : e = th[t].entry
     OBVIOUS
<1>. PICK p : p = th[t].pool
     OBVIOUS
<1>1. /\ th[t].pc = "match" /\ UNCHANGED <<map, value, spare, held, untracked, given>>
      /\ IF value[e[2]].pool = p THEN Goto(t, "drop") ELSE SeekOn(t)
      BY DEF Match, At, upstream, objects, callers
<1>2. /\ ThreadInv /\ e \in Entries /\ e[1] \in Addresses /\ e[1] \in Nat
      /\ {"entry", "overtaken"} \subseteq DOMAIN th[t]
      BY <1>1, TrackingAssumption DEF RegionInv, FieldInv, FieldsOK, Entries, Addresses
<1>3. /\ Stands(e, p) /\ Floor(t, e[1])
      /\ ~th[t].overtaken /\ Tracked(e[1]) /\ PoolOf(e[1]) = p => map[e[1]] = e
      BY <1>1 DEF Agreement, ClearInv, ClearOf
<1>4. CASE value[e[2]].pool = p
      <2>1. /\ th'[t].pc = "drop" /\ th'[t].pool = p
            /\ th'[t].entry = e /\ th'[t].overtaken = th[t].overtaken
            <3>1. th'[t] = [th[t] EXCEPT !.pc = "drop"]
                  BY <1>1, <1>2, <1>4 DEF Goto, ThreadInv
            <3>2. "pool" \in DOMAIN th[t] /\ "pc" \in DOMAIN th[t]
                  BY <1>1, <1>2 DEF ThreadInv, RecordOK, Clearing
            <3>. PICK r : r = th[t]
                 OBVIOUS
            <3> QED
                BY <1>2, <3>1, <3>2
      <2>2. map[e[1]] = e
            BY <1>3, <1>4 DEF Stands
      <2>3. Floor(t, e[1])'
            BY <1>1, <1>2, <1>3, <2>1 DEF Floor, Tracked, PoolOf, ValueAt
      <2>4. ClearOf(t)'
            BY <1>1, <1>4, <2>1, <2>2, <2>3 DEF ClearOf
      <2> QED
          BY <1>1, <2>1, <2>4, ClearAside DEF Clearing
<1>5. CASE value[e[2]].pool # p
      <2>1. ASSUME ~th[t].overtaken, NEW a \in Addresses, Tracked(a), PoolOf(a) = p
            PROVE  a >= e[1] + 1
            <3>1. a >= e[1] /\ a \in Nat
                  BY <1>3, <2>1, TrackingAssumption DEF Floor, Addresses
            <3>2. a # e[1]
                  BY <1>3, <1>5, <2>1 DEF PoolOf, ValueAt
            <3> QED
                BY <1>2, <3>1, <3>2
      <2>2. Floor(t, e[1] + 1)
            BY <2>1 DEF Floor
      <2> QED
          BY <1>1, <1>5, <2>2, SeekOnAgrees
<1> QED
    BY <1>4, <1>5

LEMMA NextKeyAgrees ==
  ASSUME All, NEW t \in Threads, StepTyped(t), NextKey(t)
  PROVE  Agreement'
<1> USE DEF All
<1>. PICK c : c = find[t]
     OBVIOUS
<1>. PICK p : p = th[t].pool
     OBVIOUS
<1>. PICK ge : ge = "ge"
     OBVIOUS
<1>. PICK k : k = c.query[2]
     OBVIOUS
<1>. PICK x : x = Index(t)!Exact(<<ge, k>>, map)
     OBVIOUS
<1>. PICK o : o = (th[t].overtaken \/ Cardinality(c.exact) > 1)
     OBVIOUS
<1>1. th[t].pc = "seek" /\ ThreadInv /\ UNCHANGED <<map, value, spare, held, untracked, given>>
      BY DEF NextKey, At, upstream, objects, callers, RegionInv
<1>2. PICK e \in Index(t)!Answers(c) :
        th'[t] = [pc |-> IF e = Null THEN "cleared" ELSE "match", pool |-> p, entry |-> e, overtaken |-> o]
      <2>1. PICK e \in Index(t)!Answers(c) :
              Become(t, [pc |-> IF e = Null THEN "cleared" ELSE "match", pool |-> th[t].pool,
                         entry |-> e, overtaken |-> th[t].overtaken \/ Cardinality(c.exact) > 1])
            BY DEF NextKey
      <2> QED
          BY <1>1, <2>1, Becomes
<1>3. /\ IsFiniteSet(c.exact) /\ c.query[1] # "get" /\ c.query = <<ge, k>> /\ k \in Nat
      /\ c.exact \cup c.loose \subseteq {Null} \cup Entries
      BY <1>1 DEF FieldInv, FieldsOK
<1>4. /\ \A d \in c.exact \cup c.loose : d # Null => Stands(d, p)
      /\ x \in c.exact /\ Floor(t, k)
      BY <1>1, <1>3 DEF Agreement, ClearInv, ClearOf
<1>5. e \in c.exact \cup c.loose \cup {Null}
      BY <1>2, <1>3, AnswersAre
<1>6. o = (th[t].overtaken \/ Cardinality(c.exact) > 1)
      OBVIOUS
<1>7. ASSUME ~o PROVE e = x
      <2>1. ~(Cardinality(c.exact) > 1) /\ x \in c.exact /\ IsFiniteSet(c.exact) /\ c.query[1] # "get"
            BY <1>3, <1>4, <1>6, <1>7
      <2>2. Index(t)!Answers(c) = {x}
            BY <2>1, AnswersAre
      <2> QED
          BY <1>2, <2>2
<1>8. \/ x = Null /\ Beside(ge, k, map) = {}
      \/ \E j \in Beside(ge, k, map) : Nearest(Beside(ge, k, map), j, ge) /\ x = map[j]
      BY ExactCases
<1>9. ASSUME ~o, NEW a \in Addresses, Tracked(a), PoolOf(a) = p
      PROVE  a \in Beside(ge, k, map)
      BY <1>4, <1>6, <1>9 DEF Floor, Beside, Tracked
<1>10. CASE e = Null
      <2>1. th'[t].pc = "cleared" /\ th'[t].pool = p /\ (th'[t].overtaken <=> o)
            BY <1>2, <1>10
      <2>2. ASSUME ~o, NEW a \in Addresses, Tracked(a) PROVE PoolOf(a) # p
            <3>1. x = Null
                  BY <1>7, <1>10, <2>2
            <3>2. Beside(ge, k, map) = {}
                  BY <1>8, <3>1 DEF Beside
            <3> QED
                BY <1>9, <2>2, <3>2
      <2>3. ClearOf(t)'
            BY <1>1, <2>1, <2>2 DEF ClearOf, Tracked, PoolOf, ValueAt
      <2> QED
          BY <1>1, <2>1, <2>3, ClearAside DEF Clearing
<1>11. CASE e # Null
      <2>1. /\ th'[t].pc = "match" /\ th'[t].pool = p /\ (th'[t].overtaken <=> o)
            /\ th'[t].entry = e
            BY <1>2, <1>11
      <2>2. Stands(e, p)'
            BY <1>1, <1>4, <1>5, <1>11 DEF Stands
      <2>3. ASSUME ~o
            PROVE  /\ map[e[1]] = e
                   /\ \A a \in Addresses : Tracked(a) /\ PoolOf(a) = p => a >= e[1]
            <3>1. PICK j \in Beside(ge, k, map) : Nearest(Beside(ge, k, map), j, ge) /\ e = map[j]
                  BY <1>7, <1>8, <1>11, <2>3
            <3>2. j \in Addresses /\ e[1] = j /\ j \in Nat
                  BY <3>1, <1>11, TrackingAssumption DEF Beside, MapTyped, Tracked, Addresses
            <3>3. ASSUME NEW a \in Addresses, Tracked(a), PoolOf(a) = p PROVE a >= j
                  <4>1. a \in Beside(ge, k, map) /\ a \in Nat
                        BY <1>9, <2>3, <3>3, TrackingAssumption DEF Addresses
                  <4>2. j <= a
                        BY <3>1, <4>1 DEF Nearest
                  <4> QED
                      BY <3>2, <4>1, <4>2
            <3> QED
                BY <3>1, <3>2, <3>3
      <2>4. Floor(t, e[1])'
            BY <1>1, <2>1, <2>3 DEF Floor, Tracked, PoolOf, ValueAt
      <2>5. ClearOf(t)'
            BY <1>1, <2>1, <2>2, <2>3, <2>4 DEF ClearOf
      <2> QED
          BY <1>1, <2>1, <2>5, ClearAside DEF Clearing
<1> QED
    BY <1>10, <1>11

LEMMA DestroyAgrees ==
  ASSUME All, NEW t \in Threads, StepTyped(t), NEW p \in live, Destroy(t, p)
  PROVE  Agreement'
<1> USE DEF All
<1>. PICK W : W = Of(p, held)
     OBVIOUS
<1>1. OthersStand(t) /\ Watching(t) /\ ThreadInv /\ ExactInv /\ ValueInv
      BY DEF StepTyped, RegionInv, Agreement
<1>2. /\ th[t].pc = "idle" /\ held' = Without(held, W) /\ untracked' = untracked \ W
      /\ Seek(t, 1) /\ Busy(p) = {} /\ UNCHANGED <<map, value, spare, given>>
      BY DEF Destroy, Idle, Drop, upstream, objects
<1>3. th'[t] = [pc |-> "seek", pool |-> p, overtaken |-> FALSE]
      BY <1>1, Becomes DEF Destroy
<1>4. W \in SUBSET DOMAIN held /\ \A a \in W : held[a].pool = p /\ a \in Addresses
      BY HeldLand DEF Of
<1>5. \A v : InHand(t, v)' <=> InHand(t, v)
      BY <1>2, <1>3 DEF InHand, Shaping
<1>6. /\ \A b \in Addresses : Same(b)
      /\ \A v \in Values : OwnedOnce(v)'
      /\ HandsKept(t)
      BY <1>1, <1>2, <1>5, ValuesKept
<1>7. DOMAIN held' = DOMAIN held \ W /\ \A b \in DOMAIN held' : held'[b] = held[b]
      BY <1>2 DEF Without
<1>8. ASSUME NEW a \in W, Tracked(a)
      PROVE  PoolOf(a) = p /\ a \in Land(p)
      <2>1. a \in DOMAIN held /\ a \in Bytes(a, held[a].size) /\ held[a].pool = p
            BY <1>4, HeldLand
      <2>2. PoolOf(a) = held[a].pool
            BY <1>1, <1>8, <2>1, HeldKnown DEF Entry
      <2>. PICK q : q = held[a].pool
           OBVIOUS
      <2>3. a \in Land(q) /\ q = p
            BY <2>1, HeldLand
      <2> QED
          BY <2>1, <2>2, <2>3
<1>9. \A a \in W : Tracked(a)' => Tracked(a) /\ PoolOf(a)' = PoolOf(a)
      BY <1>4, <1>6, SameEntry
<1>10. ASSUME NEW a \in W PROVE Users(a) = {}
      <2>1. given[a].pool = p
            BY <1>4 DEF RegionInv, HeldInv
      <2>2. ASSUME NEW s \in Users(a) PROVE FALSE
            <3>1. s \in Threads /\ "at" \in DOMAIN th[s] /\ th[s].at = a
                  BY <2>2 DEF Users
            <3>2. ~Idle(s) /\ "pool" \notin DOMAIN th[s]
                  BY <1>1, <3>1 DEF ThreadInv, RecordOK, Idle, Clearing, Carrying, Using, Freeing, Shaping, Shaped
            <3>3. s \in Busy(p)
                  BY <2>1, <3>1, <3>2 DEF Busy
            <3> QED
                BY <1>2, <3>3
      <2> QED
          BY <2>2
<1>11. Outside(W) /\ DeadKept(W)
      BY <1>2, <1>6, <1>7, <1>8, <1>9, LandStays DEF Outside, DeadKept
<1>12. Elsewhere(t, W)
      BY <1>1, <1>4, <1>10, <1>11, ElseHeld
<1>13. ASSUME NEW a \in W, Tracked(a)' PROVE Leaves(t, a)'
      <2>1. PoolOf(a)' = p /\ a \in Land(p)
            BY <1>8, <1>9, <1>13
      <2>2. a \in Land(th[t].pool)'
            BY <1>2, <1>3, <2>1 DEF Land
      <2> QED
          BY <1>3, <2>1, <2>2 DEF Leaves, Clearing
<1>14. OwnExact(t, W)
      BY <1>2, <1>3, <1>7, <1>13
         DEF OwnExact, LowKnown, HighKnown, KnownTo, Leaves, Shaping, Shaped, Agreed, Clearing
<1>15. ClearOf(t)'
      <2>1. \A a \in Addresses : a >= 1
            BY TrackingAssumption DEF Addresses
      <2>. PICK k : k = 1
           OBVIOUS
      <2>2. k \in Nat /\ Seek(t, k) /\ th'[t].pc = "seek"
            BY <1>2, <1>3
      <2>3. ~th'[t].overtaken => \A a \in Addresses : Tracked(a) /\ PoolOf(a) = th'[t].pool => a >= k
            BY <2>1
      <2> QED
          BY <1>2, <2>2, <2>3, SeekClear
<1>16. SeenOf(t)' /\ QueryOf(t)' /\ th'[t].pool \in live
      BY <1>3, NothingSeen, NothingAsked DEF Shaping
<1> QED
    BY <1>1, <1>6, <1>12, <1>14, <1>15, <1>16, AgreementStep

LEMMA DropAgrees ==
  ASSUME All, NEW t \in Threads, StepTyped(t), DropEntry(t)
  PROVE  Agreement'
<1> USE DEF All
<1>. PICK e : e = th[t].entry
     OBVIOUS
<1>. PICK p : p = th[t].pool
     OBVIOUS
<1>. PICK a : a = e[1]
     OBVIOUS
<1>1. OthersStand(t) /\ Watching(t) /\ ThreadInv /\ ExactInv /\ ValueInv /\ ClearInv
      BY DEF StepTyped, RegionInv, Agreement
<1>2. /\ th[t].pc = "drop" /\ th[t].pc \in Clearing /\ Forget(a) /\ Goto(t, "on")
      /\ UNCHANGED <<given, held, untracked>>
      BY DEF DropEntry, At, Clearing, upstream, callers
<1>3. /\ e \in Entries /\ a \in Addresses /\ a \in Nat /\ e # Null
      /\ {"entry", "overtaken"} \subseteq DOMAIN th[t]
      BY <1>2, NotNull, TrackingAssumption DEF FieldInv, FieldsOK, Entries, Addresses
<1>4. value[e[2]].pool = p /\ map[a] = e /\ Floor(t, a)
      BY <1>1, <1>2 DEF ClearInv, ClearOf
<1>5. Tracked(a) /\ PoolOf(a) = p /\ p \notin live \cup {Null}
      BY <1>2, <1>3, <1>4, ClearerDead DEF Tracked, PoolOf, ValueAt
<1>6. /\ th'[t].pc = "on" /\ th'[t].pool = p
      /\ th'[t].entry = e /\ th'[t].overtaken = th[t].overtaken
      <2>1. th'[t] = [th[t] EXCEPT !.pc = "on"]
            BY <1>1, <1>2 DEF Goto, ThreadInv
      <2>2. "pool" \in DOMAIN th[t] /\ "pc" \in DOMAIN th[t]
            BY <1>1, <1>2 DEF ThreadInv, RecordOK
      <2>. PICK r : r = th[t]
           OBVIOUS
      <2> QED
          BY <1>3, <2>1, <2>2
<1>7. \A v : InHand(t, v)' <=> InHand(t, v)
      BY <1>2, <1>6 DEF InHand, Shaping, Clearing
<1>8. /\ ~Tracked(a)'
      /\ \A b \in Addresses \ {a} : Same(b)
      /\ \A w \in Values : value'[w] = value[w] \/ value'[w].pool = Null
      /\ \A v \in Values : OwnedOnce(v)'
      /\ HandsKept(t)
      BY <1>1, <1>2, <1>3, <1>5, <1>7, ForgetIs
<1>9. \A d \in DOMAIN held : a \notin Bytes(d, held[d].size)
      BY <1>1, <1>5, HeldKnown
<1>10. \A s \in Threads : Carries(s) => a \notin Ground(s)
      BY <1>1, <1>5, GroundKnown, KnownEntry
<1>11. a \notin DOMAIN held
      BY <1>9, HeldLand
<1>12. a \notin untracked
      <2>1. ASSUME NEW s \in Threads, th[s].pc \in Shaping \cup Shaped, a \in DOMAIN th[s].before
            PROVE  FALSE
            <3>1. Carries(s) /\ a \in Ground(s)
                  BY <2>1, ShapePlaces
            <3> QED
                BY <1>10, <3>1
      <2> QED
          BY <1>1, <1>11, <2>1 DEF ExactInv
<1>. PICK W : W = {a}
     OBVIOUS
<1>13. ASSUME NEW s \in Threads \ {t}
      PROVE  /\ Carries(s) => Ground(s) \cap W = {}
             /\ th[s].pc \in Using => Bytes(th[s].at, held[th[s].at].size) \cap W = {}
             /\ th[s].pc \in Clearing =>
                  /\ \A b \in Land(th[s].pool) : b \in Land(th[s].pool)'
                  /\ \A b \in W : /\ Tracked(b) => PoolOf(b) # th[s].pool
                                  /\ Tracked(b)' => PoolOf(b)' # th[s].pool
                  /\ \A v \in Values : value'[v].pool = th[s].pool => value[v].pool = th[s].pool
      <2>1. Carries(s) => Ground(s) \cap W = {}
            BY <1>10
      <2>2. th[s].pc \in Using => Bytes(th[s].at, held[th[s].at].size) \cap W = {}
            BY <1>9 DEF RegionInv, UsedInv
      <2>3. ASSUME th[s].pc \in Clearing
            PROVE  /\ \A b \in Land(th[s].pool) : b \in Land(th[s].pool)'
                   /\ \A b \in W : /\ Tracked(b) => PoolOf(b) # th[s].pool
                                   /\ Tracked(b)' => PoolOf(b)' # th[s].pool
                   /\ \A v \in Values : value'[v].pool = th[s].pool => value[v].pool = th[s].pool
            <3>. PICK q : q = th[s].pool
                 OBVIOUS
            <3>1. q # p /\ q # Null
                  BY <1>1, <1>2, <2>3, ClearerDead DEF ClearInv
            <3>2. \A b \in Land(q) : b \in Land(q)'
                  BY <1>2, LandStays
            <3>3. th'[s] = th[s]
                  BY <1>1 DEF OthersStand
            <3>4. \A b \in Land(th[s].pool) : b \in Land(th[s].pool)'
                  BY <3>2, <3>3 DEF Land
            <3>5. \A v \in Values : value'[v].pool = q => value[v].pool = q
                  BY <1>8, <3>1
            <3> QED
                BY <1>5, <1>8, <3>1, <3>4, <3>5
      <2> QED
          BY <2>1, <2>2, <2>3
<1>14. Elsewhere(t, W)
      BY <1>1, <1>2, <1>8, <1>13 DEF Elsewhere
<1>15. ASSUME NEW b \in Addresses \ W, Tracked(b), Leaves(t, b) PROVE Leaves(t, b)'
      <2>1. PoolOf(b) = p /\ b \in Land(p) /\ PoolOf(b)' = PoolOf(b)
            BY <1>8, <1>15, SameEntry DEF Leaves
      <2>2. b \in Land(th[t].pool)'
            BY <1>2, <1>6, <2>1 DEF Land
      <2> QED
          BY <1>6, <2>1, <2>2 DEF Leaves, Clearing
<1>16. OwnExact(t, W)
      BY <1>2, <1>6, <1>8, <1>11, <1>12, <1>15
         DEF OwnExact, LowKnown, HighKnown, KnownTo, Shaping, Shaped, Agreed
<1>17. ClearOf(t)'
      <2>1. ASSUME ~th[t].overtaken, NEW b \in Addresses, Tracked(b)', PoolOf(b)' = p
            PROVE  b >= a + 1
            <3>1. b # a /\ Tracked(b) /\ PoolOf(b) = p
                  BY <1>8, <2>1, SameEntry
            <3>2. b >= a /\ b \in Nat
                  BY <1>4, <2>1, <3>1, TrackingAssumption DEF Floor, Addresses
            <3> QED
                BY <1>3, <3>1, <3>2
      <2>2. Floor(t, th[t].entry[1] + 1)'
            BY <1>6, <2>1 DEF Floor
      <2> QED
          BY <1>6, <2>2 DEF ClearOf
<1>18. SeenOf(t)' /\ QueryOf(t)'
      BY <1>6, NothingSeen, NothingAsked DEF Shaping
<1> QED
    BY <1>1, <1>2, <1>6, <1>8, <1>14, <1>16, <1>17, <1>18, AgreementStep

LEMMA DestroyedAgrees ==
  ASSUME All, NEW t \in Threads, StepTyped(t), Destroyed(t), strays' = {}
  PROVE  Agreement'
<1> USE DEF All
<1>. PICK p : p = th[t].pool
     OBVIOUS
<1>1. OthersStand(t) /\ Watching(t) /\ ThreadInv /\ GivenInv /\ ExactInv /\ ValueInv /\ ClearInv
      BY DEF StepTyped, RegionInv, Agreement
<1>2. /\ th[t].pc = "cleared" /\ th[t].pc \in Clearing /\ Done(t)
      /\ given' = Without(given, Of(p, given))
      /\ UNCHANGED <<map, value, spare, held, untracked>>
      /\ \A a \in Addresses : ~(Tracked(a) /\ PoolOf(a) = p)
      BY DEF Destroyed, At, Clearing, index, objects
<1>3. th'[t].pc = "idle"
      BY <1>1, <1>2, Becomes DEF Done, NoQuery
<1>4. \A v : InHand(t, v)' <=> InHand(t, v)
      BY <1>2, <1>3 DEF InHand, Shaping, Clearing
<1>5. /\ \A b \in Addresses : Same(b)
      /\ \A v \in Values : OwnedOnce(v)'
      /\ HandsKept(t)
      BY <1>1, <1>2, <1>4, ValuesKept
<1>. PICK W : W = {}
     OBVIOUS
<1>6. ASSUME NEW s \in Threads \ {t}, th[s].pc \in Clearing
      PROVE  \A b \in Land(th[s].pool) : b \in Land(th[s].pool)'
      <2>. PICK q : q = th[s].pool
           OBVIOUS
      <2>1. q # p
            BY <1>1, <1>2, <1>6 DEF ClearInv
      <2>2. ASSUME NEW b \in Land(q) PROVE b \in Land(q)'
            <3>1. PICK y \in DOMAIN given : given[y].pool = q /\ b \in Bytes(y, given[y].size) /\ b \in Addresses
                  BY <2>2 DEF Land
            <3>2. y \in DOMAIN given' /\ given'[y] = given[y]
                  BY <1>2, <2>1, <3>1 DEF Without, Of
            <3> QED
                BY <3>1, <3>2 DEF Land
      <2>3. th'[s] = th[s]
            BY <1>1 DEF OthersStand
      <2> QED
          BY <2>2, <2>3 DEF Land
<1>7. Elsewhere(t, W)
      BY <1>1, <1>2, <1>5, <1>6 DEF Elsewhere
<1>8. \A a \in Addresses : Tracked(a) => ~Leaves(t, a)
      BY <1>2 DEF Leaves
<1>9. OwnExact(t, W)
      BY <1>2, <1>3, <1>8
         DEF OwnExact, LowKnown, HighKnown, KnownTo, Shaping, Shaped, Agreed, Clearing
<1>10. SeenOf(t)' /\ QueryOf(t)' /\ ClearOf(t)' /\ th'[t].pc \notin Clearing
      BY <1>3, NothingSeen, NothingAsked, NothingClear DEF Shaping, Clearing
<1> QED
    BY <1>1, <1>5, <1>7, <1>9, <1>10, AgreementStep

(* What the agreement is about does not mention the pools that live. *)
LEMMA AgreementStays ==
  ASSUME Agreement, UNCHANGED <<given, map, find, value, spare, held, untracked, th>>
  PROVE  Agreement'
<1>1. ExactInv'
      BY DEF Agreement, ExactInv, Entry, Tracked, PoolOf, SizeOf, ValueAt, LowKnown, HighKnown,
             LowIs, HighIs, KnownTo, Leaves, Land
<1>2. ValueInv'
      BY DEF Agreement, ValueInv, OwnedOnce, Holds, InHand, SeenOf, Tracked, ValueAt
<1>3. ClearInv'
      BY DEF Agreement, ClearInv, ClearOf, Stands, Floor, Tracked, PoolOf, ValueAt
<1>4. QueryInv'
      BY DEF Agreement, QueryInv, QueryOf
<1> QED
    BY <1>1, <1>2, <1>3, <1>4 DEF Agreement

-----------------------------------------------------------------------------
(* All steps.                                                                *)
LEMMA ThreadAgrees ==
  ASSUME All, NEW t \in Threads, ThreadStep(t), strays' = {}
  PROVE  Agreement'
<1>1. StepTyped(t)
      BY ThreadTyped DEF All
<1>2. ASSUME NEW a \in DOMAIN held, \E first \in 1 .. MaxSize : Split(t, a, first)
      PROVE  Agreement'
      <2>1. PICK v : Reshaped(t, {a}, v)
            BY <1>2, SplitIs DEF All
      <2> QED
          BY <1>1, <2>1, ReshapedAgrees
<1>3. ASSUME NEW a \in DOMAIN held, NEW b \in DOMAIN held, Merge(t, a, b)
      PROVE  Agreement'
      <2>1. PICK v : Reshaped(t, {a, b}, v)
            BY <1>3, MergeIs DEF All
      <2> QED
          BY <1>1, <2>1, ReshapedAgrees
<1>4. CASE \/ \E p \in live : Destroy(t, p)
                              \/ \E n \in 1 .. MaxSize, o \in BOOLEAN : Alloc(t, p, n, o)
           \/ \E a \in DOMAIN held :
                \/ Free(t, a) \/ GetHandle(t, a)
                \/ \E ptr \in Bytes(a, held[a].size) : Ask(t, a, ptr)
      BY <1>1, <1>4, DestroyAgrees, AllocAgrees, FreeAgrees, AsideSteps, AskAgrees
<1>5. CASE Track(t) \/ Uncache(t) \/ PutCached(t) \/ Give(t)
           \/ Return(t) \/ Look(t) \/ GetUpstream(t) \/ Insert(t) \/ PutBack(t)
           \/ Found(t) \/ ReadSize(t) \/ ReadInfo(t)
      BY <1>1, <1>5, TrackAgrees, AsideSteps, GiveAgrees, FoundAgrees
<1>6. CASE Lock(t) \/ Compare(t) \/ ShapeUpstream(t) \/ AddHigh(t) \/ Update(t)
           \/ Retire(t) \/ RemoveHigh(t) \/ Unlock(t) \/ Undo(t)
      BY <1>1, <1>6, LockAgrees, CompareAgrees, UpstreamAgrees, AddHighAgrees, UpdateAgrees,
         RetireAgrees, RemoveHighAgrees, UnlockAgrees, UndoAgrees
<1>7. CASE NextKey(t) \/ Match(t) \/ DropEntry(t) \/ GoOn(t) \/ Destroyed(t)
      BY <1>1, <1>7, NextKeyAgrees, MatchAgrees, DropAgrees, GoOnAgrees, DestroyedAgrees
<1> QED
    BY <1>2, <1>3, <1>4, <1>5, <1>6, <1>7 DEF ThreadStep

LEMMA StraysStay ==
  ASSUME [Next]_vars
  PROVE  strays \subseteq strays'
<1>1. ASSUME NEW t \in Threads, ThreadStep(t)
      PROVE  strays \subseteq strays'
      BY <1>1 DEF ThreadStep, Destroy, Alloc, Free, GetHandle, Split, Merge, Reshape, Ask, Track, Uncache,
         PutCached, Give, Lock, Compare, ShapeUpstream, AddHigh, Update, Retire, RemoveHigh, Unlock, Undo,
         Found, ReadSize, ReadInfo, Return, Look, GetUpstream, Insert, PutBack, NextKey, Match,
         DropEntry, GoOn, Destroyed, callers
<1> QED
    BY <1>1 DEF Next, ThreadStep, Create, vars, callers

LEMMA NextAgreement ==
  ASSUME RegionInv, RegionInv', Types', MapTyped, MapTyped', FieldInv, strays = {} => Agreement,
         [Next]_vars, strays' = {}
  PROVE  Agreement'
<1>1. Agreement
      BY StraysStay
<1>2. All
      BY <1>1 DEF All
<1>3. CASE \E t \in Threads : ThreadStep(t)
      BY <1>2, <1>3, ThreadAgrees
<1>4. CASE UNCHANGED <<given, map, find, value, spare, held, untracked, th>>
      BY <1>1, <1>4, AgreementStays
<1> QED
    BY <1>3, <1>4 DEF Next, ThreadStep, Create, vars, upstream, index, objects, callers
-----------------------------------------------------------------------------
(* The types of the history and of the counters.                             *)

LEMMA HandlesOfDead ==
  ASSUME RegionInv, HandleInv, [Next]_vars, NEW h \in Pools \X Addresses, h[1] \notin live'
  PROVE  handles'[h] \in {handles[h], 0}
<1>1. CASE UNCHANGED handles
      BY <1>1
<1>2. ASSUME NEW t \in Threads, PutCached(t)
      PROVE  handles'[h] = handles[h]
      <2>1. Single(t) /\ live' = live
            BY <1>2 DEF PutCached, At, Single, Freeing, callers
      <2>2. h # <<th[t].region.pool, th[t].at>>
            BY <2>1, SingleFacts DEF CarriedBy
      <2> QED
          BY <1>2, <2>2 DEF PutCached, Put, HandleInv
<1>3. ASSUME NEW t \in Threads, GetUpstream(t) \/ PutBack(t)
      PROVE  handles'[h] = handles[h]
      <2>1. th[t].pc \in Using /\ live' = live
            BY <1>3 DEF GetUpstream, PutBack, At, Using, callers
      <2>2. h # Cached(t)
            BY <2>1 DEF Cached, RegionInv, UsedInv, HeldInv
      <2> QED
          BY <1>3, <2>2 DEF GetUpstream, PutBack, Put, Cached, HandleInv
<1>4. ASSUME NEW t \in Threads, Destroyed(t)
      PROVE  handles'[h] \in {handles[h], 0}
      BY <1>4 DEF Destroyed, HandleInv
<1>5. ASSUME NEW t \in Threads, ThreadStep(t), ~PutCached(t), ~GetUpstream(t), ~PutBack(t), ~Destroyed(t)
      PROVE  UNCHANGED handles
      BY <1>5 DEF ThreadStep, Destroy, Alloc, Free, GetHandle, Split, Merge, Reshape, Ask, Track, Uncache,
         Give, Lock, Compare, ShapeUpstream, AddHigh, Update, Retire, RemoveHigh, Unlock, Undo,
         Found, ReadSize, ReadInfo, Return, Look, Insert, NextKey, Match, DropEntry, GoOn, upstream
<1> QED
    BY <1>1, <1>2, <1>3, <1>4, <1>5 DEF Next, ThreadStep, Create, vars, upstream

LEMMA NextTypes ==
  ASSUME RegionInv, HandleInv, HandleInv', Types, [Next]_vars
  PROVE  Types'
<1>1. ASSUME NEW t \in Threads, ThreadStep(t)
      PROVE  untracked' \subseteq Addresses /\ splitMerge' \in Threads \cup {Null}
      <2>1. Track(t) \/ Give(t) => th[t].at \in Addresses
            BY SingleFacts, GroundFacts DEF Track, Give, At, Single, Freeing
      <2>2. CASE Track(t) \/ Give(t)
            BY <2>1, <2>2 DEF Track, Give, Types
      <2>3. CASE ~Track(t) /\ ~Give(t)
            BY <1>1, <2>3 DEF ThreadStep, Destroy, Alloc, Free, GetHandle, Split, Merge, Reshape, Ask,
               Uncache, PutCached, Lock, Compare, ShapeUpstream, AddHigh, Update, Retire, RemoveHigh,
               Unlock, Undo, Found, ReadSize, ReadInfo, Return, Look, GetUpstream, Insert, PutBack,
               NextKey, Match, DropEntry, GoOn, Destroyed, callers, Types
      <2> QED
          BY <2>2, <2>3
<1>2. untracked' \subseteq Addresses /\ splitMerge' \in Threads \cup {Null}
      BY <1>1 DEF Next, ThreadStep, Create, vars, callers, Types
<1>3. ASSUME NEW h \in Pools \X Addresses
      PROVE  handles'[h] <= Cardinality(Threads) + 1
      <2>1. /\ Cardinality(Threads) \in Nat
            /\ Cardinality(CountOf(h)') \in Nat /\ Cardinality(CountOf(h)') <= Cardinality(Threads)
            BY TrackingAssumption, FS_Subset, FS_CardinalityType DEF CountOf
      <2>2. CASE h[1] \in live'
            BY <2>1, <2>2 DEF HandleInv
      <2>3. CASE h[1] \notin live'
            BY <2>1, <2>3, HandlesOfDead DEF Types
      <2> QED
          BY <2>2, <2>3
<1> QED
    BY <1>2, <1>3 DEF Types
-----------------------------------------------------------------------------
TrackerInv == RegionInv /\ HandleInv /\ Types /\ MapInv

LEMMA InitTracker == Init => TrackerInv
<1> SUFFICES ASSUME Init PROVE TrackerInv
    OBVIOUS
<1> USE DEF Init
<1>1. RegionInv /\ HandleInv
      BY InitRegions, InitHandles
<1>2. Types
      BY TrackingAssumption, FS_CardinalityType DEF Types
<1>3. MapTyped
      BY TrackingAssumption DEF MapTyped, Tracked
<1>4. FieldInv
      BY NoFields DEF FieldInv, NoQuery, Clearing, Shaping
<1>5. ExactInv
      BY DEF ExactInv, LowKnown, HighKnown, Tracked, Agreed, NoQuery, Shaping, Shaped
<1>6. ValueInv
      BY DEF ValueInv, OwnedOnce, Holds, Tracked, InHand, SeenOf, Agreed, NoQuery, Shaping
<1>7. ClearInv
      BY DEF ClearInv, ClearOf, NoQuery, Clearing
<1>8. QueryInv
      BY DEF QueryInv, QueryOf, NoQuery, Using
<1> QED
    BY <1>1, <1>2, <1>3, <1>4, <1>5, <1>6, <1>7, <1>8 DEF TrackerInv, MapInv, Agreement

LEMMA NextTracker == TrackerInv /\ [Next]_vars => TrackerInv'
<1> SUFFICES ASSUME TrackerInv, [Next]_vars PROVE TrackerInv'
    OBVIOUS
<1> USE DEF TrackerInv
<1>1. RegionInv'
      BY NextRegions
<1>2. HandleInv'
      BY <1>1, NextHandles
<1>3. Types'
      BY <1>2, NextTypes
<1>4. MapTyped' /\ FieldInv'
      BY <1>1, NextTyped DEF MapInv
<1>5. (strays = {} => Agreement)'
      BY <1>1, <1>3, <1>4, NextAgreement DEF MapInv
<1> QED
    BY <1>1, <1>2, <1>3, <1>4, <1>5 DEF MapInv

LEMMA TrackerAgrees == Spec => []TrackerInv
BY InitTracker, NextTracker, PTL DEF Spec

(* ValuesOwned: no path through a failed insert, split, merge or free loses   *)
(* a tracker_value_t or frees it twice.                                       *)
THEOREM EveryValueHasOneOwner == Spec => []ValuesOwned
<1>1. TrackerInv => ValuesOwned
      <2> SUFFICES ASSUME TrackerInv, strays = {}, NEW v \in Values
                   PROVE  Cardinality({a \in Addresses : Tracked(a) /\ ValueAt(a) = v})
                            + Cardinality({t \in Threads : v \in Hands(t)})
                            + (IF v \in spare THEN 1 ELSE 0) = 1
          BY DEF ValuesOwned
      <2>1. OwnedOnce(v) /\ ThreadInv
            BY DEF TrackerInv, MapInv, Agreement, ValueInv, RegionInv
      <2>2. ASSUME NEW t \in Threads
            PROVE  v \in Hands(t) <=> InHand(t, v)
            <3>1. "new" \in DOMAIN th[t] <=> th[t].pc \in Shaping
                  BY <2>1 DEF ThreadInv, RecordOK
            <3> QED
                BY <3>1 DEF Hands, InHand, At, Shaping
      <2>. PICK A : A = {a \in Addresses : Tracked(a) /\ ValueAt(a) = v}
           OBVIOUS
      <2>. PICK T : T = {t \in Threads : v \in Hands(t)}
           OBVIOUS
      <2>3. Cardinality({}) = 0 /\ \A x : Cardinality({x}) = 1
            BY FS_EmptySet, FS_Singleton
      <2>4. CASE v \in spare
            <3>1. A = {} /\ T = {}
                  BY <2>1, <2>2, <2>4 DEF OwnedOnce, Holds
            <3> QED
                BY <2>3, <2>4, <3>1
      <2>5. CASE v \notin spare /\ \E a \in Addresses : Holds(a, v)
            <3>1. PICK a \in Addresses : Holds(a, v)
                  BY <2>5
            <3>2. A = {a} /\ T = {}
                  BY <2>1, <2>2, <3>1 DEF OwnedOnce, Holds
            <3>3. Cardinality(A) = 1 /\ Cardinality(T) = 0
                  BY <2>3, <3>2
            <3> QED
                BY <2>5, <3>3
      <2>6. CASE v \notin spare /\ ~\E a \in Addresses : Holds(a, v)
            <3>1. PICK t \in Threads : InHand(t, v)
                  BY <2>1, <2>6 DEF OwnedOnce
            <3>2. A = {} /\ T = {t}
                  BY <2>1, <2>2, <2>6, <3>1 DEF OwnedOnce, Holds
            <3>3. Cardinality(A) = 0 /\ Cardinality(T) = 1
                  BY <2>3, <3>2
            <3> QED
                BY <2>6, <3>3
      <2> QED
          BY <2>4, <2>5, <2>6
<1> QED
    BY <1>1, TrackerAgrees, PTL

(* QueriesAreRight: what umfMemoryTrackerGetAllocInfo reads of a region that  *)
(* stays where it is belongs to that region.                                  *)
THEOREM QueriesFindTheirRegion == Spec => []QueriesAreRight
<1>1. TrackerInv => QueriesAreRight
      BY DEF TrackerInv, MapInv, Agreement, QueryInv, QueryOf, QueriesAreRight, At, Using
<1> QED
    BY <1>1, TrackerAgrees, PTL

(* TrackerIsExact: the map agrees with the callers' regions, and a pool whose *)
(* clearing was not overtaken leaves nothing behind.                          *)
THEOREM TrackerStaysExact == Spec => []TrackerIsExact
<1>1. TrackerInv => TypeOK
      <2> SUFFICES ASSUME TrackerInv PROVE TypeOK
          OBVIOUS
      <2>1. GivenInv /\ HeldInv /\ HandleInv /\ Types /\ MapTyped
            BY DEF TrackerInv, RegionInv, MapInv
      <2>2. ASSUME NEW a \in DOMAIN given
            PROVE  given[a] \in [pool : Pools, size : 1 .. Memory, opened : BOOLEAN]
            <3>1. given[a] \in Reg /\ a \in Nat /\ Bytes(a, given[a].size) \subseteq Addresses
                  BY <2>1, TrackingAssumption DEF GivenInv, Addresses
            <3>2. given[a].size \in Nat \ {0} /\ given[a].size \in 0 .. Memory
                  BY <3>1, SizeFits DEF Reg
            <3> QED
                BY <3>1, <3>2, TrackingAssumption DEF Reg
      <2>3. \A a \in Addresses : map[a] \in {Null} \cup {a} \X Values
            BY <2>1 DEF MapTyped, Tracked, Entries
      <2>4. Cardinality(Threads) \in Nat
            BY TrackingAssumption, FS_CardinalityType
      <2>5. \A h \in DOMAIN handles : handles[h] \in 0 .. Cardinality(Threads) + 1
            BY <2>1, <2>4 DEF HandleInv, Types
      <2>6. DOMAIN held \subseteq Addresses
            BY <2>1 DEF HeldInv, GivenInv
      <2> QED
          BY <2>1, <2>2, <2>3, <2>5, <2>6 DEF TypeOK, MapTyped, HandleInv, Types
<1>2. ASSUME TrackerInv, strays = {}
      PROVE  /\ \A a \in DOMAIN held \ untracked :
                  Tracked(a) /\ PoolOf(a) = held[a].pool /\ SizeOf(a) = held[a].size
             /\ \A a \in Addresses :
                  Tracked(a) => a \in DOMAIN held \ untracked \/ InTransit(a)
             /\ \A t \in Threads : At(t, "cleared") /\ ~th[t].overtaken =>
                  \A a \in Addresses : Tracked(a) => PoolOf(a) # th[t].pool
      <2>1. ExactInv /\ ClearInv /\ RegionInv
            BY <1>2 DEF TrackerInv, MapInv, Agreement
      <2>2. ASSUME NEW a \in Addresses, Tracked(a)
            PROVE  a \in DOMAIN held \ untracked \/ InTransit(a)
            <3>1. ASSUME NEW t \in Threads, KnownTo(t, a) PROVE InTransit(a)
                  <4>1. "after" \in DOMAIN th[t] /\ a \in {th[t].at, th[t].high}
                        BY <2>1, <3>1 DEF KnownTo, LowKnown, HighKnown, RegionInv, ThreadInv, RecordOK
                  <4> QED
                      BY <4>1 DEF InTransit
            <3>2. ASSUME NEW t \in Threads, Leaves(t, a) PROVE InTransit(a)
                  BY <2>1, <2>2, <3>2, LeavesDead DEF InTransit
            <3> QED
                BY <2>1, <2>2, <3>1, <3>2 DEF ExactInv
      <2> QED
          BY <2>1, <2>2 DEF ExactInv, Entry, ClearInv, ClearOf, At
<1>3. TrackerInv => TrackerIsExact
      BY <1>1, <1>2 DEF TrackerIsExact
<1> QED
    BY <1>3, TrackerAgrees, PTL
=============================================================================
