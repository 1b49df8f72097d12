----------------------- MODULE LinkedContainersProofs -----------------------
(***************************************************************************)
(* Theorems about LinkedContainers, for any values and any finite set of   *)
(* addresses.  A chain is followed by a sequence of addresses instead of a *)
(* walk; the three of them divide the heap, and each call changes one.     *)
(***************************************************************************)
EXTENDS LinkedContainers, SequenceTheorems, FiniteSetTheorems, WellFoundedInduction, TLAPS

(***************************************************************************)
(* Chains of nodes                                                         *)
(***************************************************************************)
(* What Chain is in the heap h. *)
ChainOf(h, p) ==
  LET at[n \in Nat] == IF n = 0 THEN p
                       ELSE IF at[n - 1] \in DOMAIN h THEN h[at[n - 1]].link
                       ELSE Null
      len == CHOOSE n \in 0 .. Cardinality(Addr) + 1 :
               /\ n = Cardinality(Addr) + 1 \/ at[n] = Null
               /\ \A m \in 0 .. n - 1 : at[m] # Null
  IN  [i \in 1 .. len |-> at[i - 1]]

(* The walk of the model is this one, now and after a step. *)
LEMMA ChainNow ==
  /\ \A p : Chain(p) = ChainOf(heap, p)
  /\ \A p : Chain(p)' = ChainOf(heap', p)
BY DEF Chain, ChainOf

(* The links lead from p through the nodes of c, each once, to null. *)
Linked(h, p, c) ==
  /\ c \in Seq(DOMAIN h)
  /\ p = IF c = <<>> THEN Null ELSE c[1]
  /\ \A i \in DOMAIN c : h[c[i]].link = IF i = Len(c) THEN Null ELSE c[i + 1]
  /\ \A i, j \in DOMAIN c : c[i] = c[j] => i = j

(* A set of natural numbers that is not empty has a least. *)
LEMMA Least ==
  ASSUME NEW S \in SUBSET Nat, S # {}
  PROVE  \E x \in S : \A y \in S : x <= y
<1>1. PICK x \in S : \A y \in S : ~ (<<y, x>> \in OpToRel(<, Nat))
  BY NatLessThanWellFounded, WFMin
<1>2. \A y \in S : ~ (y < x)
  BY <1>1 DEF OpToRel
<1> QED BY <1>2

(* No chain is longer than there are addresses. *)
LEMMA ChainFits ==
  ASSUME NEW h, DOMAIN h \subseteq Addr, NEW p, NEW c, Linked(h, p, c)
  PROVE  Len(c) \in 0 .. Cardinality(Addr) /\ Cardinality(Addr) \in Nat
<1>1. /\ Len(c) \in Nat /\ DOMAIN c = 1 .. Len(c) /\ \A i \in DOMAIN c : c[i] \in Addr
      /\ c \in [1 .. Len(c) -> Addr]
  BY DEF Linked
<1>2. c \in Injection(1 .. Len(c), Addr)
  BY <1>1 DEF Linked, Injection, IsInjective
<1>3. IsFiniteSet(Addr) /\ Cardinality(Addr) \in Nat
  BY ContainerAssumption, FS_CardinalityType DEF ContainerAssumption
<1>4. Cardinality(1 .. Len(c)) <= Cardinality(Addr)
  BY <1>2, <1>3, FS_Injection
<1>5. Cardinality(1 .. Len(c)) = Len(c)
  BY <1>1, FS_Interval
<1> QED BY <1>1, <1>3, <1>4, <1>5

(* Where the links lead through c, the walk gives c. *)
LEMMA ChainIs ==
  ASSUME NEW h, DOMAIN h \subseteq Addr, NEW p, NEW c, Linked(h, p, c)
  PROVE  ChainOf(h, p) = c
<1> DEFINE at[n \in Nat] == IF n = 0 THEN p
                            ELSE IF at[n - 1] \in DOMAIN h THEN h[at[n - 1]].link
                            ELSE Null
           N == Cardinality(Addr)
           L == Len(c)
           Ends(n) == /\ n = N + 1 \/ at[n] = Null
                      /\ \A m \in 0 .. n - 1 : at[m] # Null
           len == CHOOSE n \in 0 .. N + 1 : Ends(n)
           walk == [n \in Nat |-> IF n < L THEN c[n + 1] ELSE Null]
<1>0. /\ L \in Nat /\ DOMAIN c = 1 .. L /\ Null \notin DOMAIN h /\ L \in 0 .. N /\ N \in Nat
      /\ \A i \in 1 .. L : c[i] \in DOMAIN h
  BY ChainFits, ContainerAssumption DEF ContainerAssumption, Linked
<1>1. ChainOf(h, p) = [i \in 1 .. len |-> at[i - 1]]
  BY DEF ChainOf
<1>2. walk = [n \in Nat |-> IF n = 0 THEN p
                            ELSE IF walk[n - 1] \in DOMAIN h THEN h[walk[n - 1]].link
                            ELSE Null]
  <2> SUFFICES ASSUME NEW n \in Nat
               PROVE  walk[n] = IF n = 0 THEN p
                                ELSE IF walk[n - 1] \in DOMAIN h THEN h[walk[n - 1]].link
                                ELSE Null
    OBVIOUS
  <2>1. CASE n = 0
    BY <1>0, <2>1 DEF Linked
  <2>2. CASE n # 0 /\ n - 1 < L
    <3>1. n \in DOMAIN c /\ walk[n - 1] = c[n] /\ c[n] \in DOMAIN h
      BY <1>0, <2>2
    <3>2. h[c[n]].link = IF n = L THEN Null ELSE c[n + 1]
      BY <3>1 DEF Linked
    <3>3. walk[n] = IF n < L THEN c[n + 1] ELSE Null
      OBVIOUS
    <3> HIDE DEF walk, L
    <3>4. n < L <=> n # L
      BY <1>0, <2>2
    <3> QED BY <2>2, <3>1, <3>2, <3>3, <3>4
  <2>3. CASE n # 0 /\ ~ (n - 1 < L)
    BY <1>0, <2>3
  <2> QED BY <2>1, <2>2, <2>3
<1>3. at = [n \in Nat |-> IF n = 0 THEN p
                          ELSE IF at[n - 1] \in DOMAIN h THEN h[at[n - 1]].link
                          ELSE Null]
  <2>1. at = CHOOSE f : f = [n \in Nat |-> IF n = 0 THEN p
                                           ELSE IF f[n - 1] \in DOMAIN h THEN h[f[n - 1]].link
                                           ELSE Null]
    BY DEF at
  <2> HIDE DEF at, walk
  <2> QED BY <1>2, <2>1
<1>4. \A n \in Nat : at[n] = walk[n]
  <2> DEFINE S == {n \in Nat : at[n] # walk[n]}
  <2> SUFFICES ASSUME S # {}
               PROVE  FALSE
    OBVIOUS
  <2> HIDE DEF at, walk
  <2>1. PICK n \in S : \A m \in S : n <= m
    BY Least
  <2>2. n = 0 \/ at[n - 1] = walk[n - 1]
    BY <2>1
  <2>3. at[n] = IF n = 0 THEN p
                ELSE IF at[n - 1] \in DOMAIN h THEN h[at[n - 1]].link ELSE Null
    BY <1>3
  <2>4. walk[n] = IF n = 0 THEN p
                  ELSE IF walk[n - 1] \in DOMAIN h THEN h[walk[n - 1]].link ELSE Null
    BY <1>2
  <2> QED BY <2>2, <2>3, <2>4
<1>5. \A n \in Nat : at[n] = IF n < L THEN c[n + 1] ELSE Null
  BY <1>4
<1> HIDE DEF at
<1>6. \A n \in 0 .. N + 1 : Ends(n) <=> n = L
  <2> SUFFICES ASSUME NEW n \in 0 .. N + 1
               PROVE  Ends(n) <=> n = L
    OBVIOUS
  <2>1. \A m \in 0 .. L - 1 : at[m] # Null
    BY <1>0, <1>5
  <2>2. at[L] = Null
    BY <1>0, <1>5
  <2>3. CASE n < L
    <3>1. n \in 0 .. L - 1 /\ n # N + 1
      BY <1>0, <2>3
    <3> QED BY <2>1, <2>3, <3>1
  <2>4. CASE n = L
    BY <1>0, <2>1, <2>2, <2>4
  <2>5. CASE n > L
    <3>1. L \in 0 .. n - 1
      BY <1>0, <2>5
    <3> QED BY <2>2, <2>5, <3>1
  <2>6. n < L \/ n = L \/ n > L
    <3> HIDE DEF L, N
    <3> QED BY <1>0
  <2> QED BY <2>3, <2>4, <2>5, <2>6
<1>7. len = L
  <2> HIDE DEF Ends, L, N
  <2>1. L \in 0 .. N + 1
    BY <1>0
  <2> QED BY <1>6, <2>1
<1>8. \A i \in 1 .. L : at[i - 1] = c[i]
  BY <1>0, <1>5
<1>9. c = [i \in 1 .. L |-> c[i]]
  BY <1>0 DEF Linked
<1> QED BY <1>1, <1>7, <1>8, <1>9
-----------------------------------------------------------------------------
(***************************************************************************)
(* What becomes of a chain when nodes are linked in and out                *)
(***************************************************************************)
LEMMA SeqFacts ==
  ASSUME NEW S, NEW c \in Seq(S)
  PROVE  /\ Len(c) \in Nat /\ DOMAIN c = 1 .. Len(c) /\ c \in [1 .. Len(c) -> S]
         /\ (c = <<>> <=> Len(c) = 0)
         /\ \A i \in DOMAIN c : c[i] \in S
         /\ ToSet(c) \subseteq S
BY EmptySeq DEF ToSet

(* What is known of the nodes of a chain. *)
LEMMA LinkedFacts ==
  ASSUME NEW h, NEW p, NEW c, Linked(h, p, c)
  PROVE  /\ Len(c) \in Nat /\ DOMAIN c = 1 .. Len(c)
         /\ (c = <<>> <=> Len(c) = 0)
         /\ \A i \in 1 .. Len(c) : c[i] \in DOMAIN h /\ c[i] \in ToSet(c)
         /\ ToSet(c) \subseteq DOMAIN h
         /\ \A x : x \in ToSet(c) <=> \E i \in 1 .. Len(c) : c[i] = x
BY SeqFacts DEF Linked, ToSet

(* A chain is empty exactly when the pointer to it is null. *)
LEMMA LinkedNull ==
  ASSUME NEW h, Null \notin DOMAIN h, NEW p, NEW c, Linked(h, p, c)
  PROVE  /\ (p = Null <=> c = <<>>)
         /\ (p # Null => p = c[1] /\ p \in ToSet(c) /\ p \in DOMAIN h /\ Len(c) >= 1)
<1>1. CASE c = <<>>
  BY <1>1 DEF Linked
<1>2. CASE c # <<>>
  <2>1. 1 \in 1 .. Len(c) /\ Len(c) >= 1
    BY <1>2, LinkedFacts
  <2>2. p = c[1] /\ c[1] \in DOMAIN h /\ c[1] \in ToSet(c)
    BY <1>2, <2>1, LinkedFacts DEF Linked
  <2> QED BY <1>2, <2>1, <2>2
<1> QED BY <1>1, <1>2

(* A chain stays as it is when its nodes keep their links. *)
LEMMA LinkedSame ==
  ASSUME NEW h, NEW p, NEW c, Linked(h, p, c), NEW g,
         \A x \in ToSet(c) : x \in DOMAIN g /\ g[x].link = h[x].link
  PROVE  Linked(g, p, c)
<1>1. c \in Seq(DOMAIN g)
  <2>1. \A i \in 1 .. Len(c) : c[i] \in DOMAIN g
    BY LinkedFacts
  <2> QED BY <2>1, LinkedFacts DEF Linked
<1>2. \A i \in DOMAIN c : g[c[i]].link = h[c[i]].link
  BY LinkedFacts
<1> QED BY <1>1, <1>2 DEF Linked

(* A null pointer leads to the empty chain. *)
LEMMA LinkedEmpty ==
  ASSUME NEW h
  PROVE  Linked(h, Null, <<>>)
BY EmptySeq DEF Linked

(* A node is put before the first. *)
LEMMA LinkedPush ==
  ASSUME NEW h, NEW p, NEW c, Linked(h, p, c), NEW g, NEW a \in DOMAIN g, a \notin ToSet(c),
         g[a].link = p, \A x \in ToSet(c) : x \in DOMAIN g /\ g[x].link = h[x].link
  PROVE  Linked(g, a, <<a>> \o c) /\ ToSet(<<a>> \o c) = ToSet(c) \cup {a}
<1> DEFINE d == <<a>> \o c
           n == Len(c)
<1>1. /\ n \in Nat /\ DOMAIN c = 1 .. n /\ (c = <<>> <=> n = 0)
      /\ \A i \in 1 .. n : c[i] \in ToSet(c) /\ c[i] \in DOMAIN g
      /\ c \in Seq(DOMAIN h)
  BY LinkedFacts DEF Linked
<1>2. /\ Len(d) = n + 1 /\ DOMAIN d = 1 .. n + 1 /\ d # <<>>
      /\ d[1] = a /\ \A i \in 2 .. n + 1 : d[i] = c[i - 1]
  BY <1>1
<1>3. \A i \in 1 .. n + 1 : d[i] \in DOMAIN g
  <2> SUFFICES ASSUME NEW i \in 1 .. n + 1
               PROVE  d[i] \in DOMAIN g
    OBVIOUS
  <2>1. CASE i = 1
    BY <1>2, <2>1
  <2>2. CASE i \in 2 .. n + 1
    <3>1. i - 1 \in 1 .. n
      BY <1>1, <2>2
    <3> QED BY <1>1, <1>2, <2>2, <3>1
  <2> HIDE DEF n, d
  <2> QED BY <1>1, <2>1, <2>2
<1>4. d \in Seq(DOMAIN g)
  BY <1>1, <1>2, <1>3
<1> HIDE DEF d, n
<1>5. ASSUME NEW i \in 1 .. n + 1
      PROVE  g[d[i]].link = IF i = n + 1 THEN Null ELSE d[i + 1]
  <2>1. CASE i = 1
    <3>1. p = IF n = 0 THEN Null ELSE c[1]
      BY <1>1 DEF Linked
    <3>2. n # 0 => d[2] = c[1]
      <4>1. n # 0 => 2 \in 2 .. n + 1
        BY <1>1
      <4> QED BY <1>2, <4>1
    <3> QED BY <1>1, <1>2, <2>1, <3>1, <3>2
  <2>2. CASE i \in 2 .. n + 1
    <3>1. i - 1 \in 1 .. n /\ d[i] = c[i - 1]
      BY <1>1, <1>2, <2>2
    <3>2. g[c[i - 1]].link = h[c[i - 1]].link
      BY <1>1, <3>1
    <3>3. h[c[i - 1]].link = IF i - 1 = n THEN Null ELSE c[(i - 1) + 1]
      BY <1>1, <3>1 DEF Linked, n
    <3>4. (i - 1) + 1 = i /\ (i - 1 = n <=> i = n + 1)
      BY <1>1
    <3>5. i # n + 1 => d[i + 1] = c[i]
      <4>1. i # n + 1 => i + 1 \in 2 .. n + 1 /\ (i + 1) - 1 = i
        BY <1>1
      <4> QED BY <1>2, <4>1
    <3> QED BY <3>1, <3>2, <3>3, <3>4, <3>5
  <2> QED BY <1>1, <2>1, <2>2
<1>6. ASSUME NEW i \in 1 .. n + 1, NEW j \in 1 .. n + 1, d[i] = d[j]
      PROVE  i = j
  <2>1. \A k \in 2 .. n + 1 : k - 1 \in 1 .. n /\ d[k] = c[k - 1] /\ d[k] # a
    <3> SUFFICES ASSUME NEW k \in 2 .. n + 1
                 PROVE  k - 1 \in 1 .. n /\ d[k] = c[k - 1] /\ d[k] # a
      OBVIOUS
    <3>1. k - 1 \in 1 .. n
      BY <1>1
    <3> QED BY <1>1, <1>2, <3>1
  <2>2. CASE i = 1 \/ j = 1
    BY <1>1, <1>2, <1>6, <2>1, <2>2
  <2>3. CASE i # 1 /\ j # 1
    <3>1. i \in 2 .. n + 1 /\ j \in 2 .. n + 1
      BY <1>1, <2>3
    <3>2. i - 1 = j - 1
      BY <1>1, <1>6, <2>1, <3>1 DEF Linked
    <3> QED BY <3>2
  <2> QED BY <2>2, <2>3
<1>7. Linked(g, a, d)
  BY <1>2, <1>4, <1>5, <1>6 DEF Linked
<1>8. ToSet(d) = ToSet(c) \cup {a}
  <2>1. ASSUME NEW x \in ToSet(c)
        PROVE  x \in ToSet(d)
    <3>1. PICK i \in 1 .. n : c[i] = x
      BY <1>1 DEF ToSet
    <3>2. i + 1 \in 2 .. n + 1 /\ (i + 1) - 1 = i
      BY <1>1
    <3>3. d[i + 1] = x /\ i + 1 \in DOMAIN d
      BY <1>1, <1>2, <3>1, <3>2
    <3> QED BY <3>3 DEF ToSet
  <2>2. a \in ToSet(d)
    <3>1. 1 \in 1 .. n + 1
      BY <1>1
    <3> QED BY <1>2, <3>1 DEF ToSet
  <2>3. ASSUME NEW i \in 1 .. n + 1
        PROVE  d[i] = a \/ d[i] \in ToSet(c)
    <3>1. CASE i = 1
      BY <1>2, <3>1
    <3>2. CASE i # 1
      <4>1. i \in 2 .. n + 1 /\ i - 1 \in 1 .. n
        BY <1>1, <3>2
      <4> QED BY <1>1, <1>2, <4>1
    <3> QED BY <3>1, <3>2
  <2> QED BY <1>2, <2>1, <2>2, <2>3 DEF ToSet
<1> QED BY <1>7, <1>8 DEF d

(* c with a after its first k elements. *)
Inserted(c, k, a) ==
  [i \in 1 .. Len(c) + 1 |-> IF i <= k THEN c[i] ELSE IF i = k + 1 THEN a ELSE c[i - 1]]

(* The first element of a chain leaves it. *)
LEMMA LinkedTail ==
  ASSUME NEW h, NEW p, NEW c, Linked(h, p, c), c # <<>>, NEW g,
         \A x \in ToSet(c) : x # p => x \in DOMAIN g /\ g[x].link = h[x].link
  PROVE  Linked(g, h[p].link, Tail(c)) /\ ToSet(Tail(c)) = ToSet(c) \ {p}
<1> DEFINE d == Tail(c)
           n == Len(c)
<1>0. n \in Nat /\ n >= 1 /\ c \in Seq(DOMAIN h)
  BY LinkedFacts DEF Linked
<1>1. /\ DOMAIN c = 1 .. n /\ p = c[1]
      /\ \A i \in 1 .. n : c[i] \in ToSet(c)
      /\ \A i, j \in 1 .. n : c[i] = c[j] => i = j
      /\ \A i \in 1 .. n : h[c[i]].link = IF i = n THEN Null ELSE c[i + 1]
  BY LinkedFacts DEF Linked
<1>2. /\ Len(d) = n - 1 /\ DOMAIN d = 1 .. n - 1
      /\ \A i \in 1 .. n - 1 : d[i] = c[i + 1]
  BY <1>0
<1>3. d = <<>> <=> n = 1
  <2>1. d \in Seq(DOMAIN h)
    BY <1>0
  <2>2. d = <<>> <=> Len(d) = 0
    BY <2>1, EmptySeq
  <2> QED BY <1>0, <1>2, <2>2
<1> HIDE DEF d, n
<1>4. \A i \in 1 .. n - 1 : /\ i + 1 \in 1 .. n /\ i \in 1 .. n /\ i + 1 # 1
                           /\ (i = n - 1 <=> i + 1 = n)
                           /\ (i # n - 1 => i + 1 \in 1 .. n - 1)
  BY <1>0
<1>5. \A i \in 1 .. n - 1 : d[i] = c[i + 1] /\ d[i] \in ToSet(c) /\ d[i] # p
  <2> SUFFICES ASSUME NEW i \in 1 .. n - 1
               PROVE  d[i] = c[i + 1] /\ d[i] \in ToSet(c) /\ d[i] # p
    OBVIOUS
  <2>1. 1 \in 1 .. n
    BY <1>0
  <2> QED BY <1>1, <1>2, <1>4, <2>1
<1>6. \A i \in 1 .. n - 1 : d[i] \in DOMAIN g /\ g[d[i]].link = h[d[i]].link
  BY <1>5
<1>7. d \in Seq(DOMAIN g)
  <2>1. d = [i \in 1 .. n - 1 |-> d[i]] /\ n - 1 \in Nat
    <3>1. d \in Seq(DOMAIN h)
      BY <1>0 DEF d, n
    <3> QED BY <1>0, <1>2, <3>1
  <2> QED BY <1>6, <2>1
<1>8. ASSUME NEW i \in 1 .. n - 1
      PROVE  g[d[i]].link = IF i = n - 1 THEN Null ELSE d[i + 1]
  <2>1. h[c[i + 1]].link = IF i + 1 = n THEN Null ELSE c[(i + 1) + 1]
    BY <1>1, <1>4
  <2>2. i # n - 1 => d[i + 1] = c[(i + 1) + 1]
    BY <1>2, <1>4
  <2> QED BY <1>4, <1>5, <1>6, <2>1, <2>2
<1>9. ASSUME NEW i \in 1 .. n - 1, NEW j \in 1 .. n - 1, d[i] = d[j]
      PROVE  i = j
  <2>1. i + 1 = j + 1
    BY <1>1, <1>4, <1>5, <1>9
  <2> QED BY <2>1
<1>10. h[p].link = IF d = <<>> THEN Null ELSE d[1]
  <2>1. 1 \in 1 .. n /\ (n # 1 => 1 \in 1 .. n - 1)
    BY <1>0
  <2>2. h[p].link = IF n = 1 THEN Null ELSE c[1 + 1]
    BY <1>1, <2>1
  <2> QED BY <1>2, <1>3, <2>1, <2>2
<1>11. Linked(g, h[p].link, d)
  BY <1>2, <1>7, <1>8, <1>9, <1>10 DEF Linked
<1>12. ASSUME NEW x \in ToSet(c), x # p
       PROVE  x \in ToSet(d)
  <2>1. PICK i \in 1 .. n : c[i] = x
    BY <1>1 DEF ToSet
  <2>2. i # 1 /\ i - 1 \in 1 .. n - 1 /\ (i - 1) + 1 = i
    <3>1. i # 1
      BY <1>1, <1>12, <2>1
    <3> QED BY <1>0, <3>1
  <2>3. d[i - 1] = x
    BY <1>2, <2>1, <2>2
  <2> QED BY <1>2, <2>2, <2>3 DEF ToSet
<1>13. ToSet(d) = ToSet(c) \ {p}
  <2>1. \A x \in ToSet(d) : x \in ToSet(c) /\ x # p
    BY <1>2, <1>5 DEF ToSet
  <2> QED BY <1>12, <2>1
<1> QED BY <1>11, <1>13 DEF d

(* A node is linked in behind the k-th. *)
LEMMA LinkedInsert ==
  ASSUME NEW h, NEW p, NEW c, Linked(h, p, c), NEW k \in 1 .. Len(c),
         NEW g, NEW a \in DOMAIN g, a \notin ToSet(c), g[a].link = h[c[k]].link,
         \A x \in ToSet(c) : x \in DOMAIN g /\ g[x].link = IF x = c[k] THEN a ELSE h[x].link
  PROVE  Linked(g, p, Inserted(c, k, a)) /\ ToSet(Inserted(c, k, a)) = ToSet(c) \cup {a}
<1> DEFINE d == Inserted(c, k, a)
           n == Len(c)
<1>0. n \in Nat /\ k \in Nat /\ 1 <= k /\ k <= n /\ n >= 1
  BY LinkedFacts
<1>1. /\ DOMAIN c = 1 .. n /\ p = c[1]
      /\ \A i \in 1 .. n : c[i] \in ToSet(c)
      /\ \A i, j \in 1 .. n : c[i] = c[j] => i = j
      /\ \A i \in 1 .. n : h[c[i]].link = IF i = n THEN Null ELSE c[i + 1]
  BY <1>0, LinkedFacts DEF Linked
<1>2. /\ d = [i \in 1 .. n + 1 |-> d[i]]
      /\ \A i \in 1 .. n + 1 : d[i] = IF i <= k THEN c[i] ELSE IF i = k + 1 THEN a ELSE c[i - 1]
  BY DEF Inserted
<1> HIDE DEF d, n
<1>3. /\ Len(d) = n + 1 /\ DOMAIN d = 1 .. n + 1 /\ d # <<>>
      /\ \A i \in 1 .. k : d[i] = c[i] /\ i \in 1 .. n /\ i \in 1 .. n + 1
      /\ d[k + 1] = a
      /\ \A i \in k + 2 .. n + 1 : d[i] = c[i - 1] /\ i - 1 \in 1 .. n /\ i - 1 # k /\ i \in 1 .. n + 1
  <2>1. DOMAIN d = 1 .. n + 1
    BY <1>2
  <2>2. n + 1 \in Nat /\ 1 \in 1 .. n + 1
    BY <1>0
  <2>3. Len(d) = n + 1
    BY <1>2, <2>2
  <2>4. ASSUME NEW i \in 1 .. k PROVE d[i] = c[i] /\ i \in 1 .. n /\ i \in 1 .. n + 1
    <3>1. i \in 1 .. n /\ i \in 1 .. n + 1 /\ i <= k
      BY <1>0
    <3> QED BY <1>2, <3>1
  <2>5. d[k + 1] = a
    <3>1. k + 1 \in 1 .. n + 1 /\ ~ (k + 1 <= k)
      BY <1>0
    <3> QED BY <1>2, <3>1
  <2>6. ASSUME NEW i \in k + 2 .. n + 1
        PROVE  d[i] = c[i - 1] /\ i - 1 \in 1 .. n /\ i - 1 # k /\ i \in 1 .. n + 1
    <3>1. i \in 1 .. n + 1 /\ ~ (i <= k) /\ i # k + 1 /\ i - 1 \in 1 .. n /\ i - 1 # k
      BY <1>0
    <3> QED BY <1>2, <3>1
  <2>7. d # <<>>
    BY <2>1, <2>2
  <2> QED BY <2>1, <2>3, <2>4, <2>5, <2>6, <2>7
<1>4. \A i \in 1 .. n + 1 : i \in 1 .. k \/ i = k + 1 \/ i \in k + 2 .. n + 1
  BY <1>0
<1>5. \A i \in 1 .. n + 1 : d[i] \in DOMAIN g
  <2> SUFFICES ASSUME NEW i \in 1 .. n + 1
               PROVE  d[i] \in DOMAIN g
    OBVIOUS
  <2>1. CASE i \in 1 .. k
    BY <1>1, <1>3, <2>1
  <2>2. CASE i = k + 1
    BY <1>3, <2>2
  <2>3. CASE i \in k + 2 .. n + 1
    BY <1>1, <1>3, <2>3
  <2> QED BY <1>4, <2>1, <2>2, <2>3
<1>6. d \in Seq(DOMAIN g)
  <2>1. n + 1 \in Nat
    BY <1>0
  <2> QED BY <1>2, <1>5, <2>1
<1>7. ASSUME NEW i \in 1 .. n + 1
      PROVE  g[d[i]].link = IF i = n + 1 THEN Null ELSE d[i + 1]
  <2>1. CASE i \in 1 .. k - 1
    <3>1. i \in 1 .. k /\ i # k /\ i + 1 \in 1 .. k /\ i # n /\ i # n + 1 /\ i \in 1 .. n /\ k \in 1 .. n
      BY <1>0, <2>1
    <3>2. g[c[i]].link = h[c[i]].link
      <4>1. c[i] # c[k]
        BY <1>1, <3>1
      <4> QED BY <1>1, <3>1, <4>1
    <3> QED BY <1>1, <1>3, <3>1, <3>2
  <2>2. CASE i = k
    <3>1. i \in 1 .. k /\ i # n + 1 /\ i \in 1 .. n
      BY <1>0, <2>2
    <3>2. g[c[k]].link = a
      BY <1>1, <2>2, <3>1
    <3> QED BY <1>3, <2>2, <3>1, <3>2
  <2>3. CASE i = k + 1
    <3>1. k \in 1 .. n /\ (k = n <=> i = n + 1) /\ (k # n => i + 1 \in k + 2 .. n + 1)
          /\ (i + 1) - 1 = k + 1
      BY <1>0, <2>3
    <3>2. h[c[k]].link = IF k = n THEN Null ELSE c[k + 1]
      BY <1>1, <3>1
    <3>3. k # n => d[i + 1] = c[k + 1]
      BY <1>3, <3>1
    <3> QED BY <1>3, <2>3, <3>1, <3>2, <3>3
  <2>4. CASE i \in k + 2 .. n + 1
    <3>1. /\ i - 1 \in 1 .. n /\ k \in 1 .. n /\ i - 1 # k /\ (i - 1 = n <=> i = n + 1)
          /\ (i # n + 1 => i + 1 \in k + 2 .. n + 1)
          /\ (i + 1) - 1 = i /\ (i - 1) + 1 = i
      BY <1>0, <2>4
    <3>2. g[c[i - 1]].link = h[c[i - 1]].link
      <4>1. c[i - 1] # c[k]
        BY <1>1, <3>1
      <4> QED BY <1>1, <3>1, <4>1
    <3>3. h[c[i - 1]].link = IF i - 1 = n THEN Null ELSE c[(i - 1) + 1]
      BY <1>1, <3>1
    <3>4. i # n + 1 => d[i + 1] = c[i]
      BY <1>3, <3>1
    <3> QED BY <1>3, <2>4, <3>1, <3>2, <3>3, <3>4
  <2>5. i \in 1 .. k - 1 \/ i = k \/ i = k + 1 \/ i \in k + 2 .. n + 1
    BY <1>0
  <2> QED BY <2>1, <2>2, <2>3, <2>4, <2>5
<1>8. ASSUME NEW i \in 1 .. n + 1, NEW j \in 1 .. n + 1, d[i] = d[j]
      PROVE  i = j
  <2> DEFINE at(x) == IF x <= k THEN x ELSE x - 1
  <2>1. \A x \in 1 .. n + 1 : x # k + 1 => at(x) \in 1 .. n /\ d[x] = c[at(x)] /\ d[x] # a
    <3> SUFFICES ASSUME NEW x \in 1 .. n + 1, x # k + 1
                 PROVE  at(x) \in 1 .. n /\ d[x] = c[at(x)]
      BY <1>1
    <3>1. CASE x \in 1 .. k
      <4>1. x <= k
        BY <1>0, <3>1
      <4> QED BY <1>3, <3>1, <4>1
    <3>2. CASE x \in k + 2 .. n + 1
      <4>1. ~ (x <= k)
        BY <1>0, <3>2
      <4> QED BY <1>3, <3>2, <4>1
    <3> QED BY <1>4, <3>1, <3>2
  <2>2. CASE i = k + 1 \/ j = k + 1
    BY <1>3, <1>8, <2>1, <2>2
  <2>3. CASE i # k + 1 /\ j # k + 1
    <3>1. at(i) = at(j)
      <4> HIDE DEF at
      <4> QED BY <1>1, <1>8, <2>1, <2>3
    <3> QED BY <1>0, <2>3, <3>1
  <2> QED BY <2>2, <2>3
<1>9. p = d[1]
  <2>1. 1 \in 1 .. k
    BY <1>0
  <2> QED BY <1>1, <1>3, <2>1
<1>10. Linked(g, p, d)
  BY <1>3, <1>6, <1>7, <1>8, <1>9 DEF Linked
<1>11. ASSUME NEW x \in ToSet(c)
       PROVE  x \in ToSet(d)
  <2>1. PICK i \in 1 .. n : c[i] = x
    BY <1>1 DEF ToSet
  <2>2. CASE i <= k
    <3>1. i \in 1 .. k
      BY <1>0, <2>2
    <3> QED BY <1>3, <2>1, <3>1 DEF ToSet
  <2>3. CASE ~ (i <= k)
    <3>1. i + 1 \in k + 2 .. n + 1 /\ (i + 1) - 1 = i
      BY <1>0, <2>3
    <3>2. d[i + 1] = x /\ i + 1 \in DOMAIN d
      BY <1>3, <2>1, <3>1
    <3> QED BY <3>2 DEF ToSet
  <2> QED BY <2>2, <2>3
<1>12. a \in ToSet(d)
  <2>1. k + 1 \in 1 .. n + 1
    BY <1>0
  <2> QED BY <1>3, <2>1 DEF ToSet
<1>13. ASSUME NEW i \in 1 .. n + 1
       PROVE  d[i] = a \/ d[i] \in ToSet(c)
  BY <1>1, <1>3, <1>4
<1>14. ToSet(d) = ToSet(c) \cup {a}
  <2>1. \A x \in ToSet(d) : x = a \/ x \in ToSet(c)
    BY <1>3, <1>13 DEF ToSet
  <2> QED BY <1>11, <1>12, <2>1
<1> QED BY <1>10, <1>14 DEF d

(* The last of two nodes or more is cut off. *)
LEMMA LinkedFront ==
  ASSUME NEW h, NEW p, NEW c, Linked(h, p, c), Len(c) >= 2, NEW g,
         \A x \in ToSet(c) : x # c[Len(c)] =>
           x \in DOMAIN g /\ g[x].link = IF x = c[Len(c) - 1] THEN Null ELSE h[x].link
  PROVE  Linked(g, p, Front(c)) /\ ToSet(Front(c)) = ToSet(c) \ {c[Len(c)]}
<1> DEFINE d == Front(c)
           n == Len(c)
<1>0. n \in Nat /\ n >= 2 /\ c \in Seq(DOMAIN h)
  BY LinkedFacts DEF Linked
<1>1. /\ DOMAIN c = 1 .. n /\ p = c[1]
      /\ \A i \in 1 .. n : c[i] \in ToSet(c)
      /\ \A i, j \in 1 .. n : c[i] = c[j] => i = j
      /\ \A i \in 1 .. n : h[c[i]].link = IF i = n THEN Null ELSE c[i + 1]
  BY <1>0, LinkedFacts DEF Linked
<1>2. /\ Len(d) = n - 1 /\ DOMAIN d = 1 .. n - 1 /\ d = [i \in 1 .. n - 1 |-> d[i]]
      /\ \A i \in 1 .. n - 1 : d[i] = c[i]
  <2>1. d = SubSeq(c, 1, n - 1) /\ n - 1 \in 0 .. n
    BY <1>0 DEF Front
  <2>2. d \in Seq(DOMAIN h)
    BY <1>0, <2>1
  <2>3. Len(d) = n - 1 /\ \A i \in 1 .. n - 1 : d[i] = c[i]
    BY <1>0, <2>1
  <2> QED BY <2>2, <2>3
<1> HIDE DEF d, n
<1>3. /\ \A i \in 1 .. n - 1 : i \in 1 .. n /\ i # n
      /\ n \in 1 .. n /\ n - 1 \in 1 .. n - 1 /\ 1 \in 1 .. n - 1 /\ n - 1 \in Nat
  BY <1>0
<1>4. \A i \in 1 .. n - 1 : c[i] # c[n]
  BY <1>1, <1>3
<1>5. \A i \in 1 .. n - 1 : /\ c[i] \in DOMAIN g
                           /\ g[c[i]].link = IF c[i] = c[n - 1] THEN Null ELSE h[c[i]].link
  BY <1>1, <1>3, <1>4 DEF n
<1>6. d \in Seq(DOMAIN g)
  <2>1. \A i \in 1 .. n - 1 : d[i] \in DOMAIN g
    BY <1>2, <1>5
  <2> QED BY <1>2, <1>3, <2>1
<1>7. ASSUME NEW i \in 1 .. n - 1
      PROVE  g[d[i]].link = IF i = n - 1 THEN Null ELSE d[i + 1]
  <2>1. CASE i = n - 1
    BY <1>2, <1>5, <2>1
  <2>2. CASE i # n - 1
    <3>1. i + 1 \in 1 .. n - 1 /\ i # n /\ i \in 1 .. n /\ n - 1 \in 1 .. n
      BY <1>0, <2>2
    <3>2. c[i] # c[n - 1]
      BY <1>1, <2>2, <3>1
    <3>3. h[c[i]].link = c[i + 1]
      BY <1>1, <3>1
    <3> QED BY <1>2, <1>5, <2>2, <3>1, <3>2, <3>3
  <2> QED BY <2>1, <2>2
<1>8. ASSUME NEW i \in 1 .. n - 1, NEW j \in 1 .. n - 1, d[i] = d[j]
      PROVE  i = j
  BY <1>1, <1>2, <1>3, <1>8
<1>9. d # <<>> /\ p = d[1]
  BY <1>1, <1>2, <1>3
<1>10. Linked(g, p, d)
  BY <1>2, <1>6, <1>7, <1>8, <1>9 DEF Linked
<1>11. ASSUME NEW x \in ToSet(c), x # c[n]
       PROVE  x \in ToSet(d)
  <2>1. PICK i \in 1 .. n : c[i] = x
    BY <1>1 DEF ToSet
  <2>2. i \in 1 .. n - 1
    <3>1. i # n
      BY <1>11, <2>1
    <3> QED BY <1>0, <3>1
  <2> QED BY <1>2, <2>1, <2>2 DEF ToSet
<1>12. \A x \in ToSet(d) : x \in ToSet(c) /\ x # c[n]
  BY <1>1, <1>2, <1>3, <1>4 DEF ToSet
<1>13. ToSet(d) = ToSet(c) \ {c[n]}
  BY <1>11, <1>12
<1> QED BY <1>10, <1>13 DEF d, n
-----------------------------------------------------------------------------
(***************************************************************************)
(* The values along a chain                                                *)
(***************************************************************************)
Content(h, c) == [i \in DOMAIN c |-> h[c[i]].data]

(* In front of the others. *)
LEMMA InsertedFirst ==
  ASSUME NEW S, NEW c \in Seq(S), NEW a
  PROVE  Inserted(c, 0, a) = <<a>> \o c
<1> DEFINE n == Len(c)
           d == <<a>> \o c
           e == Inserted(c, 0, a)
<1>1. n \in Nat /\ Len(d) = n + 1 /\ d = [i \in 1 .. n + 1 |-> d[i]]
  <2>1. n \in Nat /\ c \in Seq(S \cup {a}) /\ <<a>> \in Seq(S \cup {a})
    OBVIOUS
  <2>2. d \in Seq(S \cup {a}) /\ Len(d) = n + 1
    BY <2>1
  <2> QED BY <2>1, <2>2
<1>2. d[1] = a /\ \A i \in 2 .. n + 1 : d[i] = c[i - 1]
  OBVIOUS
<1>3. e = [i \in 1 .. n + 1 |-> IF i <= 0 THEN c[i] ELSE IF i = 0 + 1 THEN a ELSE c[i - 1]]
  BY DEF Inserted
<1> HIDE DEF d, n, e
<1>4. ASSUME NEW i \in 1 .. n + 1
      PROVE  d[i] = e[i]
  <2>1. ~ (i <= 0) /\ (i # 1 => i \in 2 .. n + 1) /\ 0 + 1 = 1
    BY <1>1
  <2> QED BY <1>2, <1>3, <2>1
<1>5. d = e
  BY <1>1, <1>3, <1>4
<1> QED BY <1>5 DEF d, e

(* Behind the others. *)
LEMMA InsertedLast ==
  ASSUME NEW S, NEW c \in Seq(S), NEW a
  PROVE  Inserted(c, Len(c), a) = Append(c, a)
<1> DEFINE n == Len(c)
           d == Append(c, a)
           e == Inserted(c, Len(c), a)
<1>1. n \in Nat /\ Len(d) = n + 1 /\ d = [i \in 1 .. n + 1 |-> d[i]]
  <2>1. n \in Nat /\ c \in Seq(S \cup {a})
    OBVIOUS
  <2>2. d \in Seq(S \cup {a})
    BY <2>1
  <2>3. Len(d) = n + 1
    BY <2>1
  <2> HIDE DEF d, n
  <2> QED BY <2>1, <2>2, <2>3
<1>2. d[n + 1] = a /\ \A i \in 1 .. n : d[i] = c[i]
  OBVIOUS
<1>3. e = [i \in 1 .. n + 1 |-> IF i <= n THEN c[i] ELSE IF i = n + 1 THEN a ELSE c[i - 1]]
  BY DEF Inserted
<1> HIDE DEF d, n, e
<1>4. ASSUME NEW i \in 1 .. n + 1
      PROVE  d[i] = e[i]
  <2>1. (i <= n /\ i \in 1 .. n) \/ (~ (i <= n) /\ i = n + 1)
    BY <1>1
  <2> QED BY <1>2, <1>3, <2>1
<1>5. d = e
  BY <1>1, <1>3, <1>4
<1> QED BY <1>5 DEF d, e

(* The library's insertion, as a function. *)
LEMMA InsertedAt ==
  ASSUME NEW S, NEW c \in Seq(S), NEW k \in 0 .. Len(c), NEW a
  PROVE  Inserted(c, k, a) = InsertAt(c, k + 1, a)
<1> DEFINE n == Len(c)
           T == S \cup {a}
           u == SubSeq(c, 1, k)
           v == SubSeq(c, k + 1, n)
           w == u \o <<a>>
           d == w \o v
           e == Inserted(c, k, a)
<1>1. n \in Nat /\ k \in Nat /\ k <= n /\ c \in Seq(T)
  OBVIOUS
<1>2. InsertAt(c, k + 1, a) = d
  <2>1. (k + 1) - 1 = k
    BY <1>1
  <2> QED BY <2>1 DEF InsertAt
<1>3. u \in Seq(T) /\ Len(u) = k /\ \A i \in 1 .. k : u[i] = c[i]
  <2> HIDE DEF T
  <2> QED BY <1>1
<1>4. v \in Seq(T) /\ Len(v) = n - k /\ \A i \in 1 .. n - k : v[i] = c[k + i]
  <2> HIDE DEF T
  <2>1. v \in Seq(T)
    BY <1>1
  <2>2. Len(v) = n - k
    BY <1>1
  <2>3. \A i \in 1 .. n - k : v[i] = c[k + i]
    <3>1. \A i \in 1 .. n - k : v[i] = c[(k + 1) + i - 1] /\ (k + 1) + i - 1 = k + i
      BY <1>1
    <3> QED BY <3>1
  <2> QED BY <2>1, <2>2, <2>3
<1>5. <<a>> \in Seq(T) /\ Len(<<a>>) = 1 /\ <<a>>[1] = a
  OBVIOUS
<1> HIDE DEF u, v, T, n
<1>6. /\ w \in Seq(T) /\ Len(w) = k + 1
      /\ \A i \in 1 .. k + 1 : w[i] = IF i <= k THEN u[i] ELSE <<a>>[i - k]
  BY <1>3, <1>5, ConcatProperties
<1> HIDE DEF w
<1>7. /\ d \in Seq(T) /\ Len(d) = (k + 1) + (n - k)
      /\ \A i \in 1 .. (k + 1) + (n - k) : d[i] = IF i <= k + 1 THEN w[i] ELSE v[i - (k + 1)]
  <2>1. /\ d \in Seq(T) /\ Len(d) = Len(w) + Len(v)
        /\ \A i \in 1 .. Len(w) + Len(v) : d[i] = IF i <= Len(w) THEN w[i] ELSE v[i - Len(w)]
    BY <1>4, <1>6, ConcatProperties
  <2> HIDE DEF d
  <2> QED BY <1>4, <1>6, <2>1
<1> HIDE DEF d
<1>8. (k + 1) + (n - k) = n + 1 /\ n + 1 \in Nat
  BY <1>1
<1>9. d = [i \in 1 .. n + 1 |-> d[i]]
  BY <1>7, <1>8
<1>10. e = [i \in 1 .. n + 1 |-> IF i <= k THEN c[i] ELSE IF i = k + 1 THEN a ELSE c[i - 1]]
  BY DEF Inserted, n
<1> HIDE DEF e
<1>11. ASSUME NEW i \in 1 .. n + 1
       PROVE  d[i] = e[i]
  <2>1. CASE i <= k
    <3>1. i \in 1 .. k /\ i \in 1 .. k + 1 /\ i <= k + 1
      BY <1>1, <2>1
    <3> QED BY <1>3, <1>6, <1>7, <1>8, <1>10, <2>1, <3>1
  <2>2. CASE i = k + 1
    <3>1. ~ (i <= k) /\ i <= k + 1 /\ i - k = 1 /\ i \in 1 .. k + 1
      BY <1>1, <2>2
    <3>2. d[i] = w[i] /\ w[i] = <<a>>[1]
      BY <1>6, <1>7, <1>8, <3>1
    <3> QED BY <1>5, <1>10, <2>2, <3>1, <3>2
  <2>3. CASE ~ (i <= k + 1)
    <3>1. ~ (i <= k) /\ i # k + 1 /\ i - (k + 1) \in 1 .. n - k /\ k + (i - (k + 1)) = i - 1
      BY <1>1, <2>3
    <3>2. d[i] = v[i - (k + 1)]
      BY <1>7, <1>8, <2>3
    <3>3. v[i - (k + 1)] = c[i - 1]
      BY <1>4, <3>1
    <3> QED BY <1>10, <3>1, <3>2, <3>3
  <2>4. i <= k \/ i = k + 1 \/ ~ (i <= k + 1)
    BY <1>1
  <2> QED BY <2>1, <2>2, <2>3, <2>4
<1>12. d = e
  BY <1>9, <1>10, <1>11
<1> QED BY <1>2, <1>12 DEF e

(* The values of the nodes, one by one. *)
LEMMA ContentIs ==
  ASSUME NEW h, NEW c, NEW n \in Nat, Len(c) = n, DOMAIN c = 1 .. n
  PROVE  /\ DOMAIN Content(h, c) = 1 .. n /\ Len(Content(h, c)) = n
         /\ \A i \in 1 .. n : Content(h, c)[i] = h[c[i]].data
BY DEF Content

(* The values are a sequence as long as the chain. *)
LEMMA ContentSeq ==
  ASSUME NEW h, NEW p, NEW c, Linked(h, p, c), NEW S, \A x \in ToSet(c) : h[x].data \in S
  PROVE  /\ Content(h, c) \in Seq(S)
         /\ Len(Content(h, c)) = Len(c) /\ DOMAIN Content(h, c) = 1 .. Len(c)
         /\ \A i \in 1 .. Len(c) : Content(h, c)[i] = h[c[i]].data
         /\ (Content(h, c) = <<>> <=> c = <<>>)
<1>1. Len(c) \in Nat /\ DOMAIN c = 1 .. Len(c) /\ (c = <<>> <=> Len(c) = 0)
      /\ \A i \in 1 .. Len(c) : h[c[i]].data \in S
  BY LinkedFacts
<1>2. Content(h, c) = [i \in 1 .. Len(c) |-> h[c[i]].data]
  BY <1>1 DEF Content
<1>3. Content(h, c) \in Seq(S)
  BY <1>1, <1>2
<1>4. Len(Content(h, c)) = Len(c)
  BY <1>1, <1>2
<1>5. Content(h, c) = <<>> <=> Len(c) = 0
  BY <1>3, <1>4, EmptySeq
<1> QED BY <1>1, <1>2, <1>3, <1>4, <1>5

(* The values stay as they are when the nodes keep theirs. *)
LEMMA ContentSame ==
  ASSUME NEW h, NEW p, NEW c, Linked(h, p, c), NEW g, \A x \in ToSet(c) : g[x].data = h[x].data
  PROVE  Content(g, c) = Content(h, c)
BY LinkedFacts DEF Content

(* A new node's value comes where the node does. *)
LEMMA ContentInserted ==
  ASSUME NEW h, NEW p, NEW c, Linked(h, p, c), NEW k \in 0 .. Len(c), NEW g, NEW a,
         \A x \in ToSet(c) : g[x].data = h[x].data
  PROVE  Content(g, Inserted(c, k, a)) = Inserted(Content(h, c), k, g[a].data)
<1> DEFINE n == Len(c)
           d == Inserted(c, k, a)
           v == Content(h, c)
           e == Inserted(v, k, g[a].data)
<1>1. /\ n \in Nat /\ k \in Nat /\ k <= n
      /\ \A i \in 1 .. n : c[i] \in ToSet(c)
      /\ DOMAIN c = 1 .. n
  BY LinkedFacts
<1>2. Len(v) = n /\ \A i \in 1 .. n : v[i] = h[c[i]].data
  BY <1>1, ContentIs
<1>3. d = [i \in 1 .. n + 1 |-> IF i <= k THEN c[i] ELSE IF i = k + 1 THEN a ELSE c[i - 1]]
  BY DEF Inserted
<1>4. e = [i \in 1 .. n + 1 |-> IF i <= k THEN v[i] ELSE IF i = k + 1 THEN g[a].data ELSE v[i - 1]]
  BY <1>2 DEF Inserted
<1> HIDE DEF n, d, v, e
<1>5. Content(g, d) = [i \in 1 .. n + 1 |-> g[d[i]].data]
  BY <1>3 DEF Content
<1>6. ASSUME NEW i \in 1 .. n + 1
      PROVE  g[d[i]].data = e[i]
  <2>1. CASE i <= k
    <3>1. i \in 1 .. n
      BY <1>1, <2>1
    <3> QED BY <1>1, <1>2, <1>3, <1>4, <2>1, <3>1
  <2>2. CASE i = k + 1
    <3>1. ~ (i <= k)
      BY <1>1, <2>2
    <3> QED BY <1>3, <1>4, <2>2, <3>1
  <2>3. CASE ~ (i <= k) /\ i # k + 1
    <3>1. i - 1 \in 1 .. n
      BY <1>1, <2>3
    <3> QED BY <1>1, <1>2, <1>3, <1>4, <2>3, <3>1
  <2> QED BY <2>1, <2>2, <2>3
<1>7. Content(g, d) = e
  BY <1>4, <1>5, <1>6
<1> QED BY <1>7 DEF d, e, v

(* Without the first node the values are those behind the first. *)
LEMMA ContentTail ==
  ASSUME NEW h, NEW p, NEW c, Linked(h, p, c), c # <<>>, NEW g,
         \A x \in ToSet(c) : x # p => g[x].data = h[x].data
  PROVE  Content(g, Tail(c)) = Tail(Content(h, c)) /\ Head(Content(h, c)) = h[p].data
<1> DEFINE n == Len(c)
           d == Tail(c)
           v == Content(h, c)
           e == Tail(v)
<1>1. /\ n \in Nat /\ n >= 1 /\ DOMAIN c = 1 .. n /\ c \in Seq(DOMAIN h) /\ p = c[1]
      /\ \A i \in 1 .. n : c[i] \in ToSet(c)
      /\ \A i, j \in 1 .. n : c[i] = c[j] => i = j
  BY LinkedFacts DEF Linked
<1>2. d = [i \in 1 .. n - 1 |-> c[i + 1]]
  <2>1. d \in Seq(DOMAIN h) /\ Len(d) = n - 1 /\ \A i \in 1 .. n - 1 : d[i] = c[i + 1]
    BY <1>1
  <2> HIDE DEF d, n
  <2> QED BY <1>1, <2>1
<1>3. v = [i \in 1 .. n |-> h[c[i]].data] /\ Len(v) = n
  BY <1>1 DEF Content
<1>4. e = [i \in 1 .. n - 1 |-> v[i + 1]] /\ Head(v) = v[1]
  <2>1. v \in Seq({h[c[i]].data : i \in 1 .. n}) /\ v # <<>>
    <3>1. v \in Seq({h[c[i]].data : i \in 1 .. n})
      BY <1>1, <1>3
    <3>2. v = <<>> <=> Len(v) = 0
      BY <3>1, EmptySeq
    <3> QED BY <1>1, <1>3, <3>1, <3>2
  <2> HIDE DEF v, n
  <2> QED BY <1>1, <1>3, <2>1
<1> HIDE DEF n, d, v, e
<1>5. Content(g, d) = [i \in 1 .. n - 1 |-> g[d[i]].data]
  BY <1>2 DEF Content
<1>6. ASSUME NEW i \in 1 .. n - 1
      PROVE  g[d[i]].data = e[i]
  <2>1. i + 1 \in 1 .. n /\ i + 1 # 1 /\ 1 \in 1 .. n
    BY <1>1
  <2>2. c[i + 1] # p
    BY <1>1, <2>1
  <2> QED BY <1>1, <1>2, <1>3, <1>4, <2>1, <2>2
<1>7. Content(g, d) = e
  BY <1>4, <1>5, <1>6
<1>8. Head(v) = h[p].data
  <2>1. 1 \in 1 .. n
    BY <1>1
  <2> QED BY <1>1, <1>3, <1>4, <2>1
<1> QED BY <1>7, <1>8 DEF d, e, v

(* Without the last node the values are those before the last. *)
LEMMA ContentFront ==
  ASSUME NEW h, NEW p, NEW c, Linked(h, p, c), c # <<>>, NEW g,
         \A x \in ToSet(c) : x # c[Len(c)] => g[x].data = h[x].data
  PROVE  Content(g, Front(c)) = Front(Content(h, c)) /\ Last(Content(h, c)) = h[c[Len(c)]].data
<1> DEFINE n == Len(c)
           d == Front(c)
           v == Content(h, c)
           e == Front(v)
<1>1. /\ n \in Nat /\ n >= 1 /\ DOMAIN c = 1 .. n /\ c \in Seq(DOMAIN h)
      /\ \A i \in 1 .. n : c[i] \in ToSet(c)
      /\ \A i, j \in 1 .. n : c[i] = c[j] => i = j
  BY LinkedFacts DEF Linked
<1>2. d = [i \in 1 .. n - 1 |-> c[i]]
  BY <1>1 DEF Front
<1>3. v = [i \in 1 .. n |-> h[c[i]].data] /\ Len(v) = n
  BY <1>1 DEF Content
<1>4. e = [i \in 1 .. n - 1 |-> v[i]] /\ Last(v) = v[n]
  <2>1. v \in Seq({h[c[i]].data : i \in 1 .. n})
    BY <1>1, <1>3
  <2>2. e = SubSeq(v, 1, n - 1) /\ Last(v) = v[n]
    BY <1>3 DEF Front, Last
  <2> HIDE DEF v, n, e
  <2> QED BY <1>1, <1>3, <2>1, <2>2
<1>5. \A x \in ToSet(c) : x # c[n] => g[x].data = h[x].data
  OBVIOUS
<1> HIDE DEF n, d, v, e
<1>6. Content(g, d) = [i \in 1 .. n - 1 |-> g[d[i]].data]
  BY <1>2 DEF Content
<1>7. ASSUME NEW i \in 1 .. n - 1
      PROVE  g[d[i]].data = e[i]
  <2>1. i \in 1 .. n /\ i # n /\ n \in 1 .. n
    BY <1>1
  <2>2. c[i] # c[n]
    BY <1>1, <2>1
  <2> QED BY <1>1, <1>2, <1>3, <1>4, <1>5, <2>1, <2>2
<1>8. Content(g, d) = e
  BY <1>4, <1>6, <1>7
<1>9. Last(v) = h[c[n]].data
  <2>1. n \in 1 .. n
    BY <1>1
  <2> QED BY <1>3, <1>4, <2>1
<1> QED BY <1>8, <1>9 DEF d, e, v, n
-----------------------------------------------------------------------------
(***************************************************************************)
(* The heap                                                                *)
(***************************************************************************)
Nodes == [data : Data, link : Pointer]

Sound(h) == DOMAIN h \subseteq Addr /\ h \in [DOMAIN h -> Nodes]

(* What a node of a sound heap holds. *)
LEMMA SoundNode ==
  ASSUME NEW h, Sound(h), NEW a \in DOMAIN h
  PROVE  h[a] \in Nodes /\ h[a].data \in Data /\ h[a].link \in Pointer /\ a \in Addr
BY DEF Sound, Nodes

(* No node is at the null pointer. *)
LEMMA NullIsFree ==
  ASSUME NEW h, Sound(h)
  PROVE  Null \notin DOMAIN h /\ \A a \in Addr : a # Null
BY ContainerAssumption DEF Sound, ContainerAssumption

(* A heap stays sound with a new node. *)
LEMMA WithSound ==
  ASSUME NEW h, Sound(h), NEW a \in Addr, NEW d \in Data, NEW l \in Pointer
  PROVE  Sound(With(h, a, d, l))
<1> DEFINE g == With(h, a, d, l)
<1>1. g = [x \in DOMAIN h \cup {a} |-> g[x]]
  BY DEF With
<1>2. \A x \in DOMAIN h \cup {a} : g[x] \in Nodes
  BY DEF With, Nodes, Sound
<1> HIDE DEF g
<1>3. DOMAIN g = DOMAIN h \cup {a}
  BY <1>1
<1>4. g \in [DOMAIN g -> Nodes]
  BY <1>1, <1>2, <1>3
<1>5. Sound(g)
  BY <1>3, <1>4 DEF Sound
<1> QED BY <1>5 DEF g

(* What delete leaves. *)
LEMMA WithoutIs ==
  ASSUME NEW h, NEW a
  PROVE  /\ DOMAIN Without(h, a) = DOMAIN h \ {a}
         /\ \A x \in DOMAIN h : x # a => Without(h, a)[x] = h[x]
         /\ Sound(h) => Sound(Without(h, a))
BY DEF Without, Sound

(* What setLink changes: one link, and no value. *)
LEMMA SetLinkIs ==
  ASSUME NEW h, Sound(h), NEW a \in DOMAIN h, NEW l \in Pointer
  PROVE  /\ DOMAIN SetLink(h, a, l) = DOMAIN h
         /\ SetLink(h, a, l)[a].link = l
         /\ \A x \in DOMAIN h : SetLink(h, a, l)[x].data = h[x].data
         /\ \A x \in DOMAIN h : x # a => SetLink(h, a, l)[x] = h[x]
         /\ Sound(SetLink(h, a, l))
<1> DEFINE g == [h EXCEPT ![a].link = l]
<1>1. SetLink(h, a, l) = g
  BY DEF SetLink
<1>2. h[a] \in Nodes
  BY SoundNode
<1>3. /\ g = [x \in DOMAIN h |-> IF x = a THEN [h[a] EXCEPT !.link = l] ELSE h[x]]
  BY DEF Sound
<1>4. [h[a] EXCEPT !.link = l] = [data |-> h[a].data, link |-> l]
  BY <1>2 DEF Nodes
<1> HIDE DEF g
<1>5. g[a].link = l /\ g[a].data = h[a].data /\ \A x \in DOMAIN h : x # a => g[x] = h[x]
  BY <1>3, <1>4
<1>6. \A x \in DOMAIN h : g[x] \in Nodes
  BY <1>2, <1>3, <1>4, SoundNode DEF Nodes
<1>7. DOMAIN g = DOMAIN h /\ g = [x \in DOMAIN h |-> g[x]]
  BY <1>3
<1>8. g \in [DOMAIN g -> Nodes]
  BY <1>6, <1>7
<1>9. Sound(g)
  BY <1>7, <1>8 DEF Sound
<1>10. \A x \in DOMAIN h : g[x].data = h[x].data
  BY <1>5
<1> QED BY <1>1, <1>5, <1>7, <1>9, <1>10
-----------------------------------------------------------------------------
(***************************************************************************)
(* Three chains that divide the heap among them, one of which changes      *)
(***************************************************************************)
Three(h, p, c, p2, c2, p3, c3) ==
  /\ Sound(h)
  /\ Linked(h, p, c) /\ Linked(h, p2, c2) /\ Linked(h, p3, c3)
  /\ ToSet(c) \cap ToSet(c2) = {} /\ ToSet(c) \cap ToSet(c3) = {} /\ ToSet(c2) \cap ToSet(c3) = {}
  /\ ToSet(c) \cup ToSet(c2) \cup ToSet(c3) = DOMAIN h

(* The three may be taken in any order. *)
LEMMA ThreeTurned ==
  ASSUME NEW h, NEW p, NEW c, NEW p2, NEW c2, NEW p3, NEW c3
  PROVE  /\ Three(h, p, c, p2, c2, p3, c3) <=> Three(h, p2, c2, p, c, p3, c3)
         /\ Three(h, p, c, p2, c2, p3, c3) <=> Three(h, p3, c3, p, c, p2, c2)
<1> DEFINE A == ToSet(c)
           B == ToSet(c2)
           C == ToSet(c3)
<1>1. Three(h, p, c, p2, c2, p3, c3) <=>
        Sound(h) /\ Linked(h, p, c) /\ Linked(h, p2, c2) /\ Linked(h, p3, c3)
        /\ A \cap B = {} /\ A \cap C = {} /\ B \cap C = {} /\ A \cup B \cup C = DOMAIN h
  BY DEF Three
<1>2. Three(h, p2, c2, p, c, p3, c3) <=>
        Sound(h) /\ Linked(h, p2, c2) /\ Linked(h, p, c) /\ Linked(h, p3, c3)
        /\ B \cap A = {} /\ B \cap C = {} /\ A \cap C = {} /\ B \cup A \cup C = DOMAIN h
  BY DEF Three
<1>3. Three(h, p3, c3, p, c, p2, c2) <=>
        Sound(h) /\ Linked(h, p3, c3) /\ Linked(h, p, c) /\ Linked(h, p2, c2)
        /\ C \cap A = {} /\ C \cap B = {} /\ A \cap B = {} /\ C \cup A \cup B = DOMAIN h
  BY DEF Three
<1> HIDE DEF A, B, C
<1> QED BY <1>1, <1>2, <1>3

(* The chains that do not change, in a heap that keeps their nodes. *)
Kept(h, g, p2, c2, p3, c3) ==
  /\ Linked(g, p2, c2) /\ Linked(g, p3, c3)
  /\ Content(g, c2) = Content(h, c2) /\ Content(g, c3) = Content(h, c3)

(* A heap that keeps the nodes of two chains keeps the chains. *)
LEMMA OthersKept ==
  ASSUME NEW h, NEW p2, NEW c2, NEW p3, NEW c3, Linked(h, p2, c2), Linked(h, p3, c3), NEW g,
         \A x \in ToSet(c2) \cup ToSet(c3) : x \in DOMAIN g /\ g[x] = h[x]
  PROVE  Kept(h, g, p2, c2, p3, c3)
<1>1. Linked(g, p2, c2)
  BY LinkedSame
<1>2. Linked(g, p3, c3)
  BY LinkedSame
<1>3. Content(g, c2) = Content(h, c2)
  BY ContentSame
<1>4. Content(g, c3) = Content(h, c3)
  BY ContentSame
<1> QED BY <1>1, <1>2, <1>3, <1>4 DEF Kept

(* A heap with the two kept chains, a third and nothing else. *)
LEMMA ThreeFrom ==
  ASSUME NEW h, NEW g, NEW p, NEW c, NEW p2, NEW c2, NEW p3, NEW c3,
         Sound(g), Linked(g, p, c), Kept(h, g, p2, c2, p3, c3),
         ToSet(c) \cap ToSet(c2) = {}, ToSet(c) \cap ToSet(c3) = {},
         ToSet(c2) \cap ToSet(c3) = {},
         ToSet(c) \cup ToSet(c2) \cup ToSet(c3) = DOMAIN g
  PROVE  Three(g, p, c, p2, c2, p3, c3)
BY DEF Three, Kept

(* A new node before the first of a chain: push, prepend, and add to an empty queue. *)
LEMMA ThreePush ==
  ASSUME NEW h, NEW p, NEW c, NEW p2, NEW c2, NEW p3, NEW c3, Three(h, p, c, p2, c2, p3, c3),
         NEW a \in Addr \ DOMAIN h, NEW d \in Data, p \in Pointer
  PROVE  /\ Three(With(h, a, d, p), a, Inserted(c, 0, a), p2, c2, p3, c3)
         /\ Kept(h, With(h, a, d, p), p2, c2, p3, c3)
         /\ Content(With(h, a, d, p), Inserted(c, 0, a)) = Inserted(Content(h, c), 0, d)
<1> DEFINE g == With(h, a, d, p)
           e == Inserted(c, 0, a)
<1>1. /\ Sound(h) /\ Linked(h, p, c) /\ Linked(h, p2, c2) /\ Linked(h, p3, c3)
      /\ ToSet(c) \subseteq DOMAIN h /\ ToSet(c2) \subseteq DOMAIN h /\ ToSet(c3) \subseteq DOMAIN h
  BY LinkedFacts DEF Three
<1>2. Sound(g)
  BY <1>1, WithSound
<1>3. DOMAIN g = DOMAIN h \cup {a} /\ g[a].data = d /\ g[a].link = p
      /\ \A x \in DOMAIN h : g[x] = h[x]
  <2>1. \A x \in DOMAIN h : x # a
    OBVIOUS
  <2>2. /\ DOMAIN g = DOMAIN h \cup {a} /\ g[a].data = d /\ g[a].link = p
        /\ \A x \in DOMAIN h : x # a => g[x] = h[x]
    <3>1. DOMAIN g = DOMAIN h \cup {a}
      BY DEF With
    <3>2. g[a].data = d
      BY DEF With
    <3>3. g[a].link = p
      BY DEF With
    <3>4. \A x \in DOMAIN h : x # a => g[x] = h[x]
      BY DEF With
    <3> HIDE DEF g
    <3> QED BY <3>1, <3>2, <3>3, <3>4
  <2> HIDE DEF g
  <2> QED BY <2>1, <2>2
<1>4. e = <<a>> \o c
  BY <1>1, InsertedFirst DEF Linked
<1> HIDE DEF g, e
<1>5. a \in DOMAIN g /\ a \notin ToSet(c) /\ \A x \in ToSet(c) : x \in DOMAIN g /\ g[x].link = h[x].link
  BY <1>1, <1>3
<1>6. Linked(g, a, e) /\ ToSet(e) = ToSet(c) \cup {a}
  BY <1>1, <1>3, <1>4, <1>5, LinkedPush
<1>7. Kept(h, g, p2, c2, p3, c3)
  <2>1. \A x \in ToSet(c2) \cup ToSet(c3) : x \in DOMAIN g /\ g[x] = h[x]
    BY <1>1, <1>3
  <2> QED BY <1>1, <2>1, OthersKept
<1>8. Three(g, a, e, p2, c2, p3, c3)
  <2>1. /\ ToSet(e) \cap ToSet(c2) = {} /\ ToSet(e) \cap ToSet(c3) = {}
        /\ ToSet(c2) \cap ToSet(c3) = {}
        /\ ToSet(e) \cup ToSet(c2) \cup ToSet(c3) = DOMAIN g
    BY <1>1, <1>3, <1>6 DEF Three
  <2> QED BY <1>2, <1>6, <1>7, <2>1, ThreeFrom
<1>9. Content(g, e) = Inserted(Content(h, c), 0, d)
  <2>1. 0 \in 0 .. Len(c) /\ \A x \in ToSet(c) : g[x].data = h[x].data
    BY <1>1, <1>3, LinkedFacts
  <2>2. Content(g, Inserted(c, 0, a)) = Inserted(Content(h, c), 0, g[a].data)
    BY <1>1, <2>1, ContentInserted
  <2> QED BY <1>3, <2>2 DEF e
<1> QED BY <1>7, <1>8, <1>9 DEF g, e

(* A new node behind the k-th of a chain: add, append, insertAfter, insertAtIndex. *)
LEMMA ThreeInsert ==
  ASSUME NEW h, NEW p, NEW c, NEW p2, NEW c2, NEW p3, NEW c3, Three(h, p, c, p2, c2, p3, c3),
         NEW a \in Addr \ DOMAIN h, NEW d \in Data, NEW k \in 1 .. Len(c),
         NEW l, l = h[c[k]].link, NEW g, g = With(SetLink(h, c[k], a), a, d, l)
  PROVE  /\ Three(g, p, Inserted(c, k, a), p2, c2, p3, c3)
         /\ Kept(h, g, p2, c2, p3, c3)
         /\ Content(g, Inserted(c, k, a)) = Inserted(Content(h, c), k, d)
<1> DEFINE f == SetLink(h, c[k], a)
           e == Inserted(c, k, a)
<1>1. /\ Sound(h) /\ Linked(h, p, c) /\ Linked(h, p2, c2) /\ Linked(h, p3, c3)
      /\ ToSet(c) \subseteq DOMAIN h /\ ToSet(c2) \subseteq DOMAIN h /\ ToSet(c3) \subseteq DOMAIN h
      /\ c[k] \in ToSet(c) /\ c[k] \in DOMAIN h
  BY LinkedFacts DEF Three
<1>2. l \in Pointer /\ a \in Pointer
  BY <1>1, SoundNode DEF Pointer
<1>3. /\ DOMAIN f = DOMAIN h /\ f[c[k]].link = a /\ Sound(f)
      /\ \A x \in DOMAIN h : f[x].data = h[x].data
      /\ \A x \in DOMAIN h : x # c[k] => f[x] = h[x]
  BY <1>1, <1>2, SetLinkIs
<1> HIDE DEF f
<1>4. g = With(f, a, d, l)
  BY DEF f
<1>5. Sound(g)
  BY <1>2, <1>3, <1>4, WithSound
<1>6. DOMAIN g = DOMAIN h \cup {a} /\ g[a].data = d /\ g[a].link = l
      /\ \A x \in DOMAIN h : g[x] = f[x]
  <2>1. \A x \in DOMAIN h : x # a
    OBVIOUS
  <2>2. /\ DOMAIN g = DOMAIN f \cup {a} /\ g[a].data = d /\ g[a].link = l
        /\ \A x \in DOMAIN f : x # a => g[x] = f[x]
    <3>1. DOMAIN g = DOMAIN f \cup {a}
      BY <1>4 DEF With
    <3>2. g[a].data = d
      BY <1>4 DEF With
    <3>3. g[a].link = l
      BY <1>4 DEF With
    <3>4. \A x \in DOMAIN f : x # a => g[x] = f[x]
      BY <1>4 DEF With
    <3> QED BY <3>1, <3>2, <3>3, <3>4
  <2> QED BY <1>3, <2>1, <2>2
<1>7. a \in DOMAIN g /\ a \notin ToSet(c)
      /\ \A x \in ToSet(c) : x \in DOMAIN g /\ g[x].link = IF x = c[k] THEN a ELSE h[x].link
  BY <1>1, <1>3, <1>6
<1>8. Linked(g, p, e) /\ ToSet(e) = ToSet(c) \cup {a}
  BY <1>1, <1>6, <1>7, LinkedInsert
<1> HIDE DEF e
<1>9. Kept(h, g, p2, c2, p3, c3)
  <2>1. \A x \in ToSet(c2) \cup ToSet(c3) : x \in DOMAIN g /\ g[x] = h[x]
    BY <1>1, <1>3, <1>6 DEF Three
  <2> QED BY <1>1, <2>1, OthersKept
<1>10. Three(g, p, e, p2, c2, p3, c3)
  <2>1. /\ ToSet(e) \cap ToSet(c2) = {} /\ ToSet(e) \cap ToSet(c3) = {}
        /\ ToSet(c2) \cap ToSet(c3) = {}
        /\ ToSet(e) \cup ToSet(c2) \cup ToSet(c3) = DOMAIN g
    BY <1>1, <1>6, <1>8 DEF Three
  <2> QED BY <1>5, <1>8, <1>9, <2>1, ThreeFrom
<1>11. Content(g, e) = Inserted(Content(h, c), k, d)
  <2>1. k \in 0 .. Len(c) /\ \A x \in ToSet(c) : g[x].data = h[x].data
    BY <1>1, <1>3, <1>6, LinkedFacts
  <2>2. Content(g, Inserted(c, k, a)) = Inserted(Content(h, c), k, g[a].data)
    BY <1>1, <2>1, ContentInserted
  <2> QED BY <1>6, <2>2 DEF e
<1> QED BY <1>9, <1>10, <1>11 DEF e

(* The first node of a chain is deleted: pop, del, removeHead. *)
LEMMA ThreeTail ==
  ASSUME NEW h, NEW p, NEW c, NEW p2, NEW c2, NEW p3, NEW c3, Three(h, p, c, p2, c2, p3, c3),
         c # <<>>
  PROVE  /\ Three(Without(h, p), h[p].link, Tail(c), p2, c2, p3, c3)
         /\ Kept(h, Without(h, p), p2, c2, p3, c3)
         /\ Content(Without(h, p), Tail(c)) = Tail(Content(h, c))
         /\ Head(Content(h, c)) = h[p].data
<1> DEFINE g == Without(h, p)
           e == Tail(c)
<1>1. /\ Sound(h) /\ Linked(h, p, c) /\ Linked(h, p2, c2) /\ Linked(h, p3, c3)
      /\ ToSet(c) \subseteq DOMAIN h /\ ToSet(c2) \subseteq DOMAIN h /\ ToSet(c3) \subseteq DOMAIN h
  BY LinkedFacts DEF Three
<1>2. p \in ToSet(c) /\ p \in DOMAIN h
  BY <1>1, NullIsFree, LinkedNull
<1>3. Sound(g) /\ DOMAIN g = DOMAIN h \ {p} /\ \A x \in DOMAIN h : x # p => g[x] = h[x]
  BY <1>1, WithoutIs
<1> HIDE DEF g
<1>4. \A x \in ToSet(c) : x # p => x \in DOMAIN g /\ g[x].link = h[x].link
  BY <1>1, <1>3
<1>5. Linked(g, h[p].link, e) /\ ToSet(e) = ToSet(c) \ {p}
  BY <1>1, <1>4, LinkedTail
<1>6. \A x \in ToSet(c) : x # p => g[x].data = h[x].data
  BY <1>1, <1>3
<1>7. Content(g, e) = Tail(Content(h, c)) /\ Head(Content(h, c)) = h[p].data
  <2> HIDE DEF e
  <2>1. Content(g, Tail(c)) = Tail(Content(h, c))
    BY <1>1, <1>6, ContentTail
  <2>2. Head(Content(h, c)) = h[p].data
    BY <1>1, <1>6, ContentTail
  <2> QED BY <2>1, <2>2 DEF e
<1> HIDE DEF e
<1>8. Kept(h, g, p2, c2, p3, c3)
  <2>1. \A x \in ToSet(c2) \cup ToSet(c3) : x \in DOMAIN g /\ g[x] = h[x]
    BY <1>1, <1>2, <1>3 DEF Three
  <2> QED BY <1>1, <2>1, OthersKept
<1>9. Three(g, h[p].link, e, p2, c2, p3, c3)
  <2>1. /\ ToSet(e) \cap ToSet(c2) = {} /\ ToSet(e) \cap ToSet(c3) = {}
        /\ ToSet(c2) \cap ToSet(c3) = {}
        /\ ToSet(e) \cup ToSet(c2) \cup ToSet(c3) = DOMAIN g
    BY <1>2, <1>3, <1>5 DEF Three
  <2> QED BY <1>3, <1>5, <1>8, <2>1, ThreeFrom
<1> QED BY <1>7, <1>8, <1>9 DEF g, e

(* The last of several nodes is cut off and deleted: removeTail. *)
LEMMA ThreeFront ==
  ASSUME NEW h, NEW p, NEW c, NEW p2, NEW c2, NEW p3, NEW c3, Three(h, p, c, p2, c2, p3, c3),
         Len(c) >= 2,
         NEW g, g = Without(SetLink(h, c[Len(c) - 1], Null), c[Len(c)])
  PROVE  /\ Three(g, p, Front(c), p2, c2, p3, c3)
         /\ Kept(h, g, p2, c2, p3, c3)
         /\ Content(g, Front(c)) = Front(Content(h, c))
         /\ Last(Content(h, c)) = h[c[Len(c)]].data
<1> DEFINE n == Len(c)
           f == SetLink(h, c[n - 1], Null)
           e == Front(c)
<1>1. /\ Sound(h) /\ Linked(h, p, c) /\ Linked(h, p2, c2) /\ Linked(h, p3, c3)
      /\ ToSet(c) \subseteq DOMAIN h /\ ToSet(c2) \subseteq DOMAIN h /\ ToSet(c3) \subseteq DOMAIN h
      /\ \A i \in 1 .. n : c[i] \in ToSet(c) /\ c[i] \in DOMAIN h
      /\ n \in Nat
  BY LinkedFacts DEF Three
<1>2. n \in 1 .. n /\ n - 1 \in 1 .. n
  <2> HIDE DEF n
  <2> QED BY <1>1 DEF n
<1>3. c # <<>>
  BY <1>1, <1>2, LinkedFacts
<1>4. /\ DOMAIN f = DOMAIN h /\ f[c[n - 1]].link = Null /\ Sound(f)
      /\ \A x \in DOMAIN h : f[x].data = h[x].data
      /\ \A x \in DOMAIN h : x # c[n - 1] => f[x] = h[x]
  BY <1>1, <1>2, SetLinkIs DEF Pointer
<1> HIDE DEF f
<1>5. g = Without(f, c[n])
  BY DEF f
<1>6. Sound(g) /\ DOMAIN g = DOMAIN h \ {c[n]} /\ \A x \in DOMAIN h : x # c[n] => g[x] = f[x]
  <2>1. /\ DOMAIN g = DOMAIN f \ {c[n]} /\ \A x \in DOMAIN f : x # c[n] => g[x] = f[x]
        /\ (Sound(f) => Sound(g))
    BY ONLY <1>5, WithoutIs
  <2> QED BY <1>4, <2>1
<1>7. \A x \in ToSet(c) : x # c[n] => x \in DOMAIN g
                            /\ g[x].link = IF x = c[n - 1] THEN Null ELSE h[x].link
  BY <1>1, <1>4, <1>6
<1>8. Linked(g, p, e) /\ ToSet(e) = ToSet(c) \ {c[n]}
  BY <1>1, <1>7, LinkedFront
<1>9. \A x \in ToSet(c) : x # c[n] => g[x].data = h[x].data
  BY <1>1, <1>4, <1>6
<1>10. Content(g, e) = Front(Content(h, c)) /\ Last(Content(h, c)) = h[c[n]].data
  BY <1>1, <1>3, <1>9, ContentFront
<1> HIDE DEF e
<1>11. Kept(h, g, p2, c2, p3, c3)
  <2>1. \A x \in ToSet(c2) \cup ToSet(c3) : x \in DOMAIN g /\ g[x] = h[x]
    <3>1. \A x \in ToSet(c2) \cup ToSet(c3) : x \in DOMAIN h /\ x # c[n] /\ x # c[n - 1]
      BY <1>1, <1>2 DEF Three
    <3> QED BY <1>4, <1>6, <3>1
  <2> QED BY <1>1, <2>1, OthersKept
<1>12. Three(g, p, e, p2, c2, p3, c3)
  <2>1. /\ ToSet(e) \cap ToSet(c2) = {} /\ ToSet(e) \cap ToSet(c3) = {}
        /\ ToSet(c2) \cap ToSet(c3) = {}
        /\ ToSet(e) \cup ToSet(c2) \cup ToSet(c3) = DOMAIN g
    <3>1. c[n] \in ToSet(c)
      BY <1>1, <1>2
    <3> QED BY <1>6, <1>8, <3>1 DEF Three
  <2> QED BY <1>6, <1>8, <1>11, <2>1, ThreeFrom
<1> QED BY <1>10, <1>11, <1>12 DEF e, n

(* All nodes of a chain are deleted: the destructors. *)
LEMMA ThreeDrop ==
  ASSUME NEW h, NEW p, NEW c, NEW p2, NEW c2, NEW p3, NEW c3, Three(h, p, c, p2, c2, p3, c3),
         NEW g, g = [a \in DOMAIN h \ ToSet(c) |-> h[a]]
  PROVE  Three(g, Null, <<>>, p2, c2, p3, c3) /\ Kept(h, g, p2, c2, p3, c3)
<1>1. /\ Sound(h) /\ Linked(h, p, c) /\ Linked(h, p2, c2) /\ Linked(h, p3, c3)
      /\ ToSet(c) \subseteq DOMAIN h /\ ToSet(c2) \subseteq DOMAIN h /\ ToSet(c3) \subseteq DOMAIN h
  BY LinkedFacts DEF Three
<1>2. Sound(g) /\ DOMAIN g = DOMAIN h \ ToSet(c) /\ \A x \in DOMAIN g : g[x] = h[x]
  BY <1>1 DEF Sound
<1>3. Linked(g, Null, <<>>) /\ ToSet(<<>>) = {}
  BY LinkedEmpty DEF ToSet
<1>4. Kept(h, g, p2, c2, p3, c3)
  <2>1. \A x \in ToSet(c2) \cup ToSet(c3) : x \in DOMAIN g /\ g[x] = h[x]
    BY <1>1, <1>2 DEF Three
  <2> QED BY <1>1, <2>1, OthersKept
<1>5. /\ ToSet(<<>>) \cap ToSet(c2) = {} /\ ToSet(<<>>) \cap ToSet(c3) = {}
      /\ ToSet(c2) \cap ToSet(c3) = {}
      /\ ToSet(<<>>) \cup ToSet(c2) \cup ToSet(c3) = DOMAIN g
  BY <1>2, <1>3 DEF Three
<1>6. Three(g, Null, <<>>, p2, c2, p3, c3)
  BY <1>2, <1>3, <1>4, <1>5, ThreeFrom
<1> QED BY <1>4, <1>6
-----------------------------------------------------------------------------
(***************************************************************************)
(* The invariant                                                           *)
(***************************************************************************)
Parts(s, q, l) ==
  /\ Three(heap, top, s, front, q, head, l)
  /\ rear = IF q = <<>> THEN Null ELSE q[Len(q)]
  /\ length = Len(l)

(* The chains of the three objects divide the heap, and rear and length    *)
(* are what the chains of the queue and the list say.                      *)
Inv == crashed \in BOOLEAN /\ Parts(Chain(top), Chain(front), Chain(head))

(* The values the refinement mapping shows are those along the chains. *)
LEMMA ValuesNow ==
  /\ Values(top) = Content(heap, Chain(top)) /\ Values(front) = Content(heap, Chain(front))
  /\ Values(head) = Content(heap, Chain(head))
BY DEF Values, Content

(* Chains that divide the new heap are what the model's walks find in it. *)
LEMMA NewParts ==
  ASSUME NEW s, NEW q, NEW l, Three(heap', top', s, front', q, head', l),
         rear' = IF q = <<>> THEN Null ELSE q[Len(q)], length' = Len(l), crashed' \in BOOLEAN
  PROVE  /\ Inv'
         /\ Values(top)' = Content(heap', s) /\ Values(front)' = Content(heap', q)
         /\ Values(head)' = Content(heap', l)
<1>1. DOMAIN heap' \subseteq Addr /\ Linked(heap', top', s) /\ Linked(heap', front', q)
      /\ Linked(heap', head', l)
  BY DEF Three, Sound
<1>2. ChainOf(heap', top') = s
  BY <1>1, ChainIs
<1>3. ChainOf(heap', front') = q
  BY <1>1, ChainIs
<1>4. ChainOf(heap', head') = l
  BY <1>1, ChainIs
<1>5. Chain(top)' = s
  BY <1>2 DEF ChainOf, Chain
<1>6. Chain(front)' = q
  BY <1>3 DEF ChainOf, Chain
<1>7. Chain(head)' = l
  BY <1>4 DEF ChainOf, Chain
<1>8. Parts(Chain(top), Chain(front), Chain(head))'
  BY <1>5, <1>6, <1>7 DEF Parts
<1>9. Values(top)' = Content(heap', s)
  BY <1>5 DEF Values, Content
<1>10. Values(front)' = Content(heap', q)
  BY <1>6 DEF Values, Content
<1>11. Values(head)' = Content(heap', l)
  BY <1>7 DEF Values, Content
<1> QED BY <1>8, <1>9, <1>10, <1>11 DEF Inv

(* A chain of the invariant: what it says of the pointer to it. *)
LEMMA PointerTo ==
  ASSUME NEW h, Sound(h), NEW p, NEW c, Linked(h, p, c)
  PROVE  /\ p \in Pointer /\ (p = Null <=> c = <<>>)
         /\ c # <<>> => p = c[1] /\ p \in DOMAIN h /\ Len(c) >= 1
         /\ Len(c) \in Nat /\ (c = <<>> <=> Len(c) = 0)
         /\ Content(h, c) \in Seq(Data) /\ Len(Content(h, c)) = Len(c)
         /\ DOMAIN Content(h, c) = 1 .. Len(c)
         /\ \A i \in 1 .. Len(c) : Content(h, c)[i] = h[c[i]].data
         /\ (Content(h, c) = <<>> <=> c = <<>>)
<1>1. Null \notin DOMAIN h
  BY NullIsFree
<1>2. /\ (p = Null <=> c = <<>>)
      /\ (p # Null => p = c[1] /\ p \in ToSet(c) /\ p \in DOMAIN h /\ Len(c) >= 1)
  BY <1>1, LinkedNull
<1>3. \A x \in ToSet(c) : h[x].data \in Data
  BY LinkedFacts, SoundNode
<1>4. Len(c) \in Nat /\ (c = <<>> <=> Len(c) = 0)
  BY LinkedFacts
<1>5. p \in Pointer
  BY <1>2 DEF Pointer, Sound
<1>6. /\ Content(h, c) \in Seq(Data) /\ Len(Content(h, c)) = Len(c)
      /\ DOMAIN Content(h, c) = 1 .. Len(c)
      /\ \A i \in 1 .. Len(c) : Content(h, c)[i] = h[c[i]].data
      /\ (Content(h, c) = <<>> <=> c = <<>>)
  BY <1>3, ContentSeq
<1> QED BY <1>2, <1>4, <1>5, <1>6

(* What a step starts from. *)
Start(s, q, l, vs, vq, vl) ==
  /\ s = Chain(top) /\ q = Chain(front) /\ l = Chain(head)
  /\ vs = Values(top) /\ vq = Values(front) /\ vl = Values(head)
  /\ Sound(heap) /\ crashed \in BOOLEAN
  /\ Three(heap, top, s, front, q, head, l) /\ Three(heap, front, q, top, s, head, l)
  /\ Three(heap, head, l, top, s, front, q)
  /\ vs = Content(heap, s) /\ vq = Content(heap, q) /\ vl = Content(heap, l)
  /\ rear = (IF q = <<>> THEN Null ELSE q[Len(q)]) /\ length = Len(l)

(* Every state of the invariant is such a start. *)
LEMMA Starts ==
  ASSUME Inv
  PROVE  \E s, q, l, vs, vq, vl : Start(s, q, l, vs, vq, vl)
<1>1. Three(heap, top, Chain(top), front, Chain(front), head, Chain(head))
  BY DEF Inv, Parts
<1>2. Three(heap, front, Chain(front), top, Chain(top), head, Chain(head))
  BY <1>1, ThreeTurned
<1>3. Three(heap, head, Chain(head), top, Chain(top), front, Chain(front))
  BY <1>1, ThreeTurned
<1>4. Start(Chain(top), Chain(front), Chain(head), Values(top), Values(front), Values(head))
  BY <1>1, <1>2, <1>3, ValuesNow DEF Start, Inv, Parts, Three
<1> QED BY <1>4

(* A step that leaves the heap and the objects alone. *)
LEMMA Unmoved ==
  ASSUME Inv, UNCHANGED <<heap, objects>>, crashed' \in BOOLEAN
  PROVE  /\ Inv' /\ Values(top)' = Values(top) /\ Values(front)' = Values(front)
         /\ Values(head)' = Values(head)
<1>1. /\ heap' = heap /\ top' = top /\ front' = front /\ head' = head
      /\ rear' = rear /\ length' = length
  BY DEF objects
<1>2. Three(heap, top, Chain(top), front, Chain(front), head, Chain(head))
      /\ rear = (IF Chain(front) = <<>> THEN Null ELSE Chain(front)[Len(Chain(front))])
      /\ length = Len(Chain(head))
  BY DEF Inv, Parts
<1> DEFINE s == Chain(top)
           q == Chain(front)
           l == Chain(head)
<1> HIDE DEF s, q, l
<1>3. /\ Inv' /\ Values(top)' = Content(heap, s) /\ Values(front)' = Content(heap, q)
      /\ Values(head)' = Content(heap, l)
  BY <1>1, <1>2, NewParts DEF s, q, l
<1> QED BY <1>3, ValuesNow DEF s, q, l
-----------------------------------------------------------------------------
(***************************************************************************)
(* The calls of Stack                                                      *)
(***************************************************************************)
(* What a step comes to. *)
Done == Inv' /\ (Promise!Next \/ UNCHANGED Promise!vars)

(* push puts its value before the others. *)
LEMMA PushDone ==
  ASSUME Inv, NEW d \in Data, Push(d)
  PROVE  Done
<1>1. PICK s, q, l, vs, vq, vl : Start(s, q, l, vs, vq, vl)
  BY Starts
<1>2. PICK a \in Addr \ DOMAIN heap : heap' = With(heap, a, d, top) /\ top' = a
  BY DEF Push, Fresh
<1>3. /\ Sound(heap) /\ Three(heap, top, s, front, q, head, l)
      /\ Linked(heap, top, s) /\ top \in Pointer
      /\ Content(heap, s) = vs /\ vs \in Seq(Data)
  BY <1>1, PointerTo DEF Start, Three
<1>4. /\ Three(heap', a, Inserted(s, 0, a), front, q, head, l)
      /\ Kept(heap, heap', front, q, head, l)
      /\ Content(heap', Inserted(s, 0, a)) = Inserted(vs, 0, d)
  BY <1>2, <1>3, ThreePush
<1>5. UNCHANGED <<front, rear, head, length, crashed>> /\ last' = <<"push", d>>
  BY DEF Push, Called
<1>6. /\ Inv' /\ Values(top)' = Content(heap', Inserted(s, 0, a))
      /\ Values(front)' = Content(heap', q) /\ Values(head)' = Content(heap', l)
  BY <1>1, <1>2, <1>4, <1>5, NewParts DEF Start
<1>7. /\ Values(top)' = <<d>> \o Values(top) /\ Values(front)' = Values(front)
      /\ Values(head)' = Values(head)
  BY <1>1, <1>3, <1>4, <1>6, InsertedFirst DEF Start, Kept
<1>8. Promise!StackCall
  BY <1>5, <1>7 DEF Promise!StackCall, Promise!Push, Promise!Called
<1> QED BY <1>6, <1>8 DEF Done, Promise!Next

(* pop takes the first value and returns it. *)
LEMMA PopDone ==
  ASSUME Inv, Pop
  PROVE  Done
<1>1. PICK s, q, l, vs, vq, vl : Start(s, q, l, vs, vq, vl)
  BY Starts
<1>2. /\ Sound(heap) /\ Three(heap, top, s, front, q, head, l)
      /\ (top = Null <=> s = <<>>) /\ Linked(heap, top, s) /\ (vs = <<>> <=> s = <<>>)
      /\ Content(heap, s) = vs
  BY <1>1, PointerTo DEF Start, Three
<1>3. CASE top = Null
  <2>1. UNCHANGED <<heap, objects, crashed>> /\ last' = <<"pop", Empty>> /\ crashed' \in BOOLEAN
    BY <1>1, <1>3 DEF Pop, Called, Start
  <2>2. /\ Inv' /\ Values(top)' = Values(top) /\ Values(front)' = Values(front)
        /\ Values(head)' = Values(head)
    BY <2>1, Unmoved
  <2>3. Values(top) = <<>>
    BY <1>1, <1>2, <1>3 DEF Start
  <2>4. Promise!StackCall
    BY <2>1, <2>2, <2>3
    DEF Promise!StackCall, Promise!Pop, Promise!Called, Promise!Empty, Empty
  <2> QED BY <2>2, <2>4 DEF Done, Promise!Next
<1>4. CASE top # Null
  <2>1. /\ top' = heap[top].link /\ heap' = Without(heap, top) /\ last' = <<"pop", heap[top].data>>
        /\ UNCHANGED <<front, rear, head, length, crashed>>
    BY <1>4 DEF Pop, Called
  <2>2. /\ Three(heap', top', Tail(s), front, q, head, l)
        /\ Kept(heap, heap', front, q, head, l)
        /\ Content(heap', Tail(s)) = Tail(vs) /\ Head(vs) = heap[top].data
    BY <1>2, <1>4, <2>1, ThreeTail
  <2>3. /\ Inv' /\ Values(top)' = Content(heap', Tail(s))
        /\ Values(front)' = Content(heap', q) /\ Values(head)' = Content(heap', l)
    BY <1>1, <2>1, <2>2, NewParts DEF Start
  <2>4. /\ Values(top)' = Tail(Values(top)) /\ Values(front)' = Values(front)
        /\ Values(head)' = Values(head) /\ Values(top) # <<>>
        /\ heap[top].data = Head(Values(top))
    BY <1>1, <1>2, <1>4, <2>2, <2>3 DEF Start, Kept
  <2>5. Promise!StackCall
    BY <2>1, <2>4 DEF Promise!StackCall, Promise!Pop, Promise!Called
  <2> QED BY <2>3, <2>5 DEF Done, Promise!Next
<1> QED BY <1>3, <1>4

(* A stack that is deleted leaves no node. *)
LEMMA DeleteStackDone ==
  ASSUME Inv, DeleteStack
  PROVE  Done
<1>1. PICK s, q, l, vs, vq, vl : Start(s, q, l, vs, vq, vl)
  BY Starts
<1>2. /\ heap' = [a \in DOMAIN heap \ ToSet(s) |-> heap[a]] /\ top' = Null
      /\ UNCHANGED <<front, rear, head, length, crashed>> /\ last' = <<"delete", "stack">>
  BY <1>1 DEF DeleteStack, Called, Start
<1>3. Three(heap', Null, <<>>, front, q, head, l) /\ Kept(heap, heap', front, q, head, l)
  BY <1>1, <1>2, ThreeDrop DEF Start
<1>4. /\ Inv' /\ Values(top)' = Content(heap', <<>>)
      /\ Values(front)' = Content(heap', q) /\ Values(head)' = Content(heap', l)
  BY <1>1, <1>2, <1>3, NewParts DEF Start
<1>5. /\ Values(top)' = <<>> /\ Values(front)' = Values(front) /\ Values(head)' = Values(head)
  <2>1. Content(heap', <<>>) = <<>>
    BY DEF Content
  <2> QED BY <1>1, <1>3, <1>4, <2>1 DEF Start, Kept
<1>6. Promise!Replace
  BY <1>2, <1>5 DEF Promise!Replace, Promise!Called
<1> QED BY <1>4, <1>6 DEF Done, Promise!Next
-----------------------------------------------------------------------------
(***************************************************************************)
(* The calls of Queue                                                      *)
(***************************************************************************)
(* The rear of a queue that loses its first node stays its last, unless it *)
(* was the only one.                                                       *)
LEMMA TailEnds ==
  ASSUME NEW S, NEW c \in Seq(S), c # <<>>, Tail(c) # <<>>
  PROVE  Tail(c)[Len(Tail(c))] = c[Len(c)]
<1> DEFINE n == Len(c)
           d == Tail(c)
<1>1. n \in Nat /\ n >= 1 /\ Len(d) = n - 1 /\ \A i \in 1 .. n - 1 : d[i] = c[i + 1]
  BY EmptySeq
<1>2. Len(d) # 0
  <2>1. d \in Seq(S)
    OBVIOUS
  <2> QED BY <2>1, EmptySeq
<1> HIDE DEF n, d
<1>3. n - 1 \in 1 .. n - 1 /\ (n - 1) + 1 = n
  BY <1>1, <1>2
<1>4. d[n - 1] = c[n]
  BY <1>1, <1>3
<1> QED BY <1>1, <1>4 DEF d, n

(* The last element of a sequence that was added to. *)
LEMMA InsertedEnd ==
  ASSUME NEW c, Len(c) \in Nat, NEW a
  PROVE  /\ Len(Inserted(c, Len(c), a)) = Len(c) + 1
         /\ Inserted(c, Len(c), a)[Len(c) + 1] = a
         /\ Inserted(c, Len(c), a) # <<>>
<1> DEFINE n == Len(c)
           d == Inserted(c, n, a)
<1>1. d = [i \in 1 .. n + 1 |-> IF i <= n THEN c[i] ELSE IF i = n + 1 THEN a ELSE c[i - 1]]
  BY DEF Inserted
<1> HIDE DEF d
<1>2. n + 1 \in Nat /\ n + 1 \in 1 .. n + 1 /\ ~ (n + 1 <= n)
  OBVIOUS
<1> HIDE DEF n
<1>3. Len(d) = n + 1
  BY <1>1, <1>2
<1>4. d[n + 1] = a
  BY <1>1, <1>2
<1>5. DOMAIN d = 1 .. n + 1
  BY <1>1
<1>6. d # <<>>
  BY <1>2, <1>5
<1> QED BY <1>3, <1>4, <1>6 DEF d, n

(* add puts its value behind the others, the first one too. *)
LEMMA AddDone ==
  ASSUME Inv, NEW d \in Data, Add(d)
  PROVE  Done
<1>1. PICK s, q, l, vs, vq, vl : Start(s, q, l, vs, vq, vl)
  BY Starts
<1>2. /\ Sound(heap) /\ Three(heap, front, q, top, s, head, l)
      /\ Linked(heap, front, q) /\ front \in Pointer /\ (front = Null <=> q = <<>>)
      /\ Content(heap, q) = vq /\ vq \in Seq(Data) /\ Len(vq) = Len(q)
      /\ Len(q) \in Nat /\ (q = <<>> <=> Len(q) = 0)
      /\ rear = (IF q = <<>> THEN Null ELSE q[Len(q)])
  BY <1>1, PointerTo DEF Start, Three
<1>3. PICK a \in Addr \ DOMAIN heap :
        /\ IF front = Null THEN heap' = With(heap, a, d, rear) /\ front' = a
           ELSE heap' = With(SetLink(heap, rear, a), a, d, Null) /\ front' = front
        /\ rear' = a
  BY DEF Add, Fresh
<1>4. UNCHANGED <<top, head, length, crashed>> /\ last' = <<"add", d>>
  BY DEF Add, Called
<1> DEFINE e == Inserted(q, Len(q), a)
<1>5. /\ Three(heap', front', e, top, s, head, l) /\ Kept(heap, heap', top, s, head, l)
      /\ Content(heap', e) = Inserted(vq, Len(q), d)
  <2>1. CASE front = Null
    <3>1. Len(q) = 0 /\ heap' = With(heap, a, d, front) /\ front' = a
      BY <1>2, <1>3, <2>1
    <3>2. /\ Three(heap', a, Inserted(q, 0, a), top, s, head, l)
          /\ Kept(heap, heap', top, s, head, l)
          /\ Content(heap', Inserted(q, 0, a)) = Inserted(vq, 0, d)
      <4> HIDE DEF e
      <4> QED BY <1>2, <3>1, ThreePush
    <3> QED BY <3>1, <3>2
  <2>2. CASE front # Null
    <3>1. q # <<>> /\ Len(q) \in 1 .. Len(q) /\ rear = q[Len(q)] /\ front' = front
          /\ heap' = With(SetLink(heap, q[Len(q)], a), a, d, Null)
      BY <1>2, <1>3, <2>2
    <3>2. Null = heap[q[Len(q)]].link
      BY <1>2, <3>1, LinkedFacts DEF Linked
    <3>3. Three(heap', front, e, top, s, head, l)
      BY <1>2, <3>1, <3>2, ThreeInsert
    <3>4. Kept(heap, heap', top, s, head, l)
      BY <1>2, <3>1, <3>2, ThreeInsert
    <3>5. Content(heap', e) = Inserted(vq, Len(q), d)
      BY <1>2, <3>1, <3>2, ThreeInsert
    <3> HIDE DEF e
    <3> QED BY <3>1, <3>3, <3>4, <3>5
  <2> QED BY <2>1, <2>2
<1>6. rear' = IF e = <<>> THEN Null ELSE e[Len(e)]
  <2>1. Len(e) = Len(q) + 1 /\ e[Len(q) + 1] = a /\ e # <<>>
    BY <1>2, InsertedEnd
  <2> HIDE DEF e
  <2> QED BY <1>3, <2>1
<1> HIDE DEF e
<1>7. Three(heap', top', s, front', e, head', l)
  BY <1>4, <1>5, ThreeTurned
<1>8. /\ Inv' /\ Values(top)' = Content(heap', s)
      /\ Values(front)' = Content(heap', e) /\ Values(head)' = Content(heap', l)
  BY <1>1, <1>4, <1>6, <1>7, NewParts DEF Start
<1>9. /\ Values(front)' = Append(Values(front), d) /\ Values(top)' = Values(top)
      /\ Values(head)' = Values(head)
  <2>1. Inserted(vq, Len(q), d) = Append(vq, d)
    BY <1>2, InsertedLast
  <2> QED BY <1>1, <1>5, <1>8, <2>1 DEF Start, Kept
<1>10. Promise!QueueCall
  BY <1>4, <1>9 DEF Promise!QueueCall, Promise!Add, Promise!Called
<1> QED BY <1>8, <1>10 DEF Done, Promise!Next

(* del takes the first value, and rear is right again when it was the last. *)
LEMMA DelDone ==
  ASSUME Inv, Del
  PROVE  Done
<1>1. PICK s, q, l, vs, vq, vl : Start(s, q, l, vs, vq, vl)
  BY Starts
<1>2. /\ Sound(heap) /\ Three(heap, front, q, top, s, head, l)
      /\ (front = Null <=> q = <<>>) /\ Linked(heap, front, q) /\ (vq = <<>> <=> q = <<>>)
      /\ Content(heap, q) = vq
      /\ rear = (IF q = <<>> THEN Null ELSE q[Len(q)])
  BY <1>1, PointerTo DEF Start, Three
<1>3. CASE front = Null
  <2>1. UNCHANGED <<heap, objects, crashed>> /\ last' = <<"del", Empty>> /\ crashed' \in BOOLEAN
    BY <1>1, <1>3 DEF Del, Called, Start
  <2>2. /\ Inv' /\ Values(top)' = Values(top) /\ Values(front)' = Values(front)
        /\ Values(head)' = Values(head)
    BY <2>1, Unmoved
  <2>3. Values(front) = <<>>
    BY <1>1, <1>2, <1>3 DEF Start
  <2>4. Promise!QueueCall
    BY <2>1, <2>2, <2>3
    DEF Promise!QueueCall, Promise!Del, Promise!Called, Promise!Empty, Empty
  <2> QED BY <2>2, <2>4 DEF Done, Promise!Next
<1>4. CASE front # Null
  <2>1. /\ front' = heap[front].link /\ heap' = Without(heap, front)
        /\ last' = <<"del", heap[front].data>>
        /\ rear' = IF front' = Null THEN Null ELSE rear
        /\ UNCHANGED <<top, head, length, crashed>>
    BY <1>4 DEF Del, Called
  <2>2. q # <<>>
    BY <1>2, <1>4
  <2>3. /\ Three(heap', front', Tail(q), top, s, head, l)
        /\ Kept(heap, heap', top, s, head, l)
        /\ Content(heap', Tail(q)) = Tail(vq) /\ Head(vq) = heap[front].data
    BY <1>2, <2>1, <2>2, ThreeTail
  <2>4. rear' = IF Tail(q) = <<>> THEN Null ELSE Tail(q)[Len(Tail(q))]
    <3>1. front' = Null <=> Tail(q) = <<>>
      <4> DEFINE h == heap'
                 p == front'
                 c == Tail(q)
      <4>1. Sound(h) /\ Linked(h, p, c)
        BY <2>3 DEF Three
      <4> HIDE DEF h, p, c
      <4>2. p = Null <=> c = <<>>
        BY <4>1, PointerTo
      <4> QED BY <4>2 DEF p, c
    <3>2. Tail(q) # <<>> => Tail(q)[Len(Tail(q))] = q[Len(q)]
      BY <1>2, <2>2, TailEnds DEF Linked
    <3> QED BY <1>2, <2>1, <2>2, <3>1, <3>2
  <2>5. Three(heap', top', s, front', Tail(q), head', l)
    BY <2>1, <2>3, ThreeTurned
  <2>6. /\ Inv' /\ Values(top)' = Content(heap', s)
        /\ Values(front)' = Content(heap', Tail(q)) /\ Values(head)' = Content(heap', l)
    BY <1>1, <2>1, <2>4, <2>5, NewParts DEF Start
  <2>7. /\ Values(front)' = Tail(Values(front)) /\ Values(top)' = Values(top)
        /\ Values(head)' = Values(head) /\ Values(front) # <<>>
        /\ heap[front].data = Head(Values(front))
    BY <1>1, <1>2, <1>4, <2>3, <2>6 DEF Start, Kept
  <2>8. Promise!QueueCall
    BY <2>1, <2>7 DEF Promise!QueueCall, Promise!Del, Promise!Called
  <2> QED BY <2>6, <2>8 DEF Done, Promise!Next
<1> QED BY <1>3, <1>4

(* A queue that is deleted leaves no node. *)
LEMMA DeleteQueueDone ==
  ASSUME Inv, DeleteQueue
  PROVE  Done
<1>1. PICK s, q, l, vs, vq, vl : Start(s, q, l, vs, vq, vl)
  BY Starts
<1>2. /\ heap' = [a \in DOMAIN heap \ ToSet(q) |-> heap[a]] /\ front' = Null /\ rear' = Null
      /\ UNCHANGED <<top, head, length, crashed>> /\ last' = <<"delete", "queue">>
  BY <1>1 DEF DeleteQueue, Called, Start
<1>3. Three(heap', Null, <<>>, top, s, head, l) /\ Kept(heap, heap', top, s, head, l)
  BY <1>1, <1>2, ThreeDrop DEF Start
<1>4. Three(heap', top', s, front', <<>>, head', l)
  BY <1>2, <1>3, ThreeTurned
<1>5. /\ Inv' /\ Values(top)' = Content(heap', s)
      /\ Values(front)' = Content(heap', <<>>) /\ Values(head)' = Content(heap', l)
  BY <1>1, <1>2, <1>4, NewParts DEF Start
<1>6. /\ Values(front)' = <<>> /\ Values(top)' = Values(top) /\ Values(head)' = Values(head)
  <2>1. Content(heap', <<>>) = <<>>
    BY DEF Content
  <2> QED BY <1>1, <1>3, <1>5, <2>1 DEF Start, Kept
<1>7. Promise!Replace
  BY <1>2, <1>6 DEF Promise!Replace, Promise!Called
<1> QED BY <1>5, <1>7 DEF Done, Promise!Next
-----------------------------------------------------------------------------
(***************************************************************************)
(* The calls of LinkedList                                                 *)
(***************************************************************************)
(* A new node behind the first k.                                          *)
LEMMA LinkDone ==
  ASSUME Inv, NEW d \in Data, NEW before, NEW after, NEW call, Link(d, before, after, call),
         NEW k \in 0 .. Len(Chain(head)),
         IF k = 0 THEN before = Null /\ after = head
         ELSE before = Chain(head)[k] /\ after = heap[before].link
  PROVE  /\ Inv' /\ Values(head)' = Inserted(Values(head), k, d)
         /\ Values(top)' = Values(top) /\ Values(front)' = Values(front) /\ last' = call
<1>1. PICK s, q, l, vs, vq, vl : Start(s, q, l, vs, vq, vl)
  BY Starts
<1>2. /\ Sound(heap) /\ Three(heap, head, l, top, s, front, q)
      /\ Linked(heap, head, l) /\ head \in Pointer
      /\ Content(heap, l) = vl /\ Len(l) \in Nat /\ length = Len(l)
  BY <1>1, PointerTo DEF Start, Three
<1>3. PICK a \in Addr \ DOMAIN heap :
        IF before = Null THEN heap' = With(heap, a, d, after) /\ head' = a
        ELSE heap' = With(SetLink(heap, before, a), a, d, after) /\ head' = head
  BY DEF Link, Fresh
<1>4. UNCHANGED <<top, front, rear, crashed>> /\ last' = call /\ length' = length + 1
  BY DEF Link, Called
<1>5. k \in 0 .. Len(l) /\ IF k = 0 THEN before = Null /\ after = head
                          ELSE before = l[k] /\ after = heap[before].link
  BY <1>1 DEF Start
<1> DEFINE e == Inserted(l, k, a)
<1>6. /\ Three(heap', head', e, top, s, front, q) /\ Kept(heap, heap', top, s, front, q)
      /\ Content(heap', e) = Inserted(vl, k, d)
  <2>1. CASE k = 0
    <3>1. heap' = With(heap, a, d, head) /\ head' = a
      BY <1>3, <1>5, <2>1
    <3>2. /\ Three(heap', a, Inserted(l, 0, a), top, s, front, q)
          /\ Kept(heap, heap', top, s, front, q)
          /\ Content(heap', Inserted(l, 0, a)) = Inserted(vl, 0, d)
      <4> HIDE DEF e
      <4> QED BY <1>2, <3>1, ThreePush
    <3> QED BY <2>1, <3>1, <3>2
  <2>2. CASE k # 0
    <3>1. k \in 1 .. Len(l) /\ before = l[k] /\ after = heap[l[k]].link
      BY <1>2, <1>5, <2>2
    <3>2. l[k] # Null
      BY <1>2, <3>1, LinkedFacts, NullIsFree
    <3>3. head' = head /\ heap' = With(SetLink(heap, l[k], a), a, d, after)
      BY <1>3, <3>1, <3>2
    <3>4. Three(heap', head, e, top, s, front, q)
      BY <1>2, <3>1, <3>3, ThreeInsert
    <3>5. Kept(heap, heap', top, s, front, q)
      BY <1>2, <3>1, <3>3, ThreeInsert
    <3>6. Content(heap', e) = Inserted(vl, k, d)
      BY <1>2, <3>1, <3>3, ThreeInsert
    <3> HIDE DEF e
    <3> QED BY <3>3, <3>4, <3>5, <3>6
  <2> QED BY <2>1, <2>2
<1>7. length' = Len(e)
  <2>1. Len(e) = Len(l) + 1
    <3>1. e = [i \in 1 .. Len(l) + 1 |-> e[i]]
      BY DEF Inserted
    <3>2. Len(l) + 1 \in Nat
      BY <1>2
    <3> HIDE DEF e
    <3> QED BY <3>1, <3>2
  <2> HIDE DEF e
  <2> QED BY <1>2, <1>4, <2>1
<1> HIDE DEF e
<1>8. Three(heap', top', s, front', q, head', e)
  <2>1. Three(heap', head', e, top', s, front', q)
    BY <1>4, <1>6
  <2>2. Three(heap', top', s, head', e, front', q)
    BY <2>1, ThreeTurned
  <2>3. Three(heap', front', q, top', s, head', e)
    BY <2>2, ThreeTurned
  <2> QED BY <2>3, ThreeTurned
<1>9. /\ Inv' /\ Values(top)' = Content(heap', s)
      /\ Values(front)' = Content(heap', q) /\ Values(head)' = Content(heap', e)
  BY <1>1, <1>4, <1>7, <1>8, NewParts DEF Start
<1> QED BY <1>1, <1>4, <1>6, <1>9 DEF Start, Kept

(* What the calls of the list need of it. *)
LEMMA ListNow ==
  ASSUME Inv, NEW l, l = Chain(head), NEW vl, vl = Values(head)
  PROVE  /\ Sound(heap) /\ Linked(heap, head, l) /\ (head = Null <=> l = <<>>)
         /\ Len(l) \in Nat /\ (l = <<>> <=> Len(l) = 0) /\ length = Len(l) /\ DOMAIN l = 1 .. Len(l)
         /\ vl \in Seq(Data) /\ Len(vl) = Len(l) /\ DOMAIN vl = 1 .. Len(l)
         /\ \A i \in 1 .. Len(l) : vl[i] = heap[l[i]].data
         /\ (vl = <<>> <=> l = <<>>)
         /\ crashed \in BOOLEAN
<1>1. /\ Sound(heap) /\ Linked(heap, head, l) /\ length = Len(l) /\ vl = Content(heap, l)
      /\ crashed \in BOOLEAN
  BY ValuesNow DEF Inv, Parts, Three
<1> QED BY <1>1, PointerTo, LinkedFacts

(* prepend puts its value before the others. *)
LEMMA PrependDone ==
  ASSUME Inv, NEW d \in Data, Prepend(d)
  PROVE  Done
<1>1. 0 \in 0 .. Len(Chain(head)) /\ Values(head) \in Seq(Data)
  BY ListNow
<1>2. Link(d, Null, head, <<"prepend", d>>)
  BY DEF Prepend
<1>3. /\ Inv' /\ Values(head)' = Inserted(Values(head), 0, d)
      /\ Values(top)' = Values(top) /\ Values(front)' = Values(front) /\ last' = <<"prepend", d>>
  BY <1>1, <1>2, LinkDone
<1>4. Values(head)' = <<d>> \o Values(head)
  BY <1>1, <1>3, InsertedFirst
<1>5. Promise!ListCall
  BY <1>3, <1>4 DEF Promise!ListCall, Promise!Prepend, Promise!Called
<1> QED BY <1>3, <1>5 DEF Done, Promise!Next

(* append walks to the last node and puts its value behind it. *)
LEMMA ListAppendDone ==
  ASSUME Inv, NEW d \in Data, ListAppend(d)
  PROVE  Done
<1> DEFINE l == Chain(head)
           vl == Values(head)
           n == Len(l)
           before == IF head = Null THEN Null ELSE Last(l)
<1>1. Link(d, before, Null, <<"append", d>>)
  BY DEF ListAppend
<1>2. /\ Linked(heap, head, l) /\ (head = Null <=> l = <<>>) /\ n \in Nat /\ (l = <<>> <=> n = 0)
      /\ vl \in Seq(Data) /\ Len(vl) = n
  BY ListNow
<1>3. n \in 0 .. n /\ IF n = 0 THEN before = Null /\ Null = head
                    ELSE before = l[n] /\ Null = heap[before].link
  <2> HIDE DEF l
  <2>1. n \in 0 .. n
    BY <1>2
  <2>2. CASE head = Null
    BY <1>2, <2>1, <2>2
  <2>3. CASE head # Null
    <3>1. before = l[n] /\ n # 0 /\ n \in 1 .. n
      BY <1>2, <2>3 DEF Last
    <3>2. heap[l[n]].link = Null
      BY <1>2, <3>1, LinkedFacts DEF Linked
    <3> QED BY <2>1, <3>1, <3>2
  <2> QED BY <2>2, <2>3
<1> HIDE DEF before, vl
<1>4. /\ Inv' /\ vl' = Inserted(vl, n, d)
      /\ Values(top)' = Values(top) /\ Values(front)' = Values(front) /\ last' = <<"append", d>>
  BY <1>1, <1>3, LinkDone DEF vl
<1>5. vl' = Append(vl, d)
  BY <1>2, <1>4, InsertedLast
<1>6. Promise!ListCall
  BY <1>4, <1>5 DEF Promise!ListCall, Promise!ListAppend, Promise!Called, vl
<1> QED BY <1>4, <1>6 DEF Done, Promise!Next

(* A call that finds nothing to do. *)
LEMMA NoneDone ==
  ASSUME Inv, NEW c, Called(c), UNCHANGED <<heap, objects>>
  PROVE  /\ Inv' /\ Values(head)' = Values(head)
         /\ Values(top)' = Values(top) /\ Values(front)' = Values(front) /\ last' = c
<1>1. crashed' \in BOOLEAN /\ last' = c
  BY DEF Called, Inv
<1> QED BY <1>1, Unmoved

(* A call that crashes has done nothing yet. *)
LEMMA CrashDone ==
  ASSUME Inv, Crash
  PROVE  Done
<1>1. crashed' \in BOOLEAN /\ UNCHANGED <<heap, objects>> /\ last' = last
  BY DEF Crash
<1>2. /\ Inv' /\ Values(head)' = Values(head)
      /\ Values(top)' = Values(top) /\ Values(front)' = Values(front)
  BY <1>1, Unmoved
<1> QED BY <1>1, <1>2 DEF Done, Promise!vars

(* insertAfter finds the first node with the value. *)
LEMMA InsertAfterDone ==
  ASSUME Inv, NEW x \in Data, NEW d \in Data, InsertAfter(x, d)
  PROVE  Done
<1> DEFINE l == Chain(head)
           vl == Values(head)
           n == Len(l)
           call == <<"insertAfter", x, d>>
<1>1. /\ (head = Null <=> l = <<>>) /\ n \in Nat /\ (l = <<>> <=> n = 0) /\ DOMAIN l = 1 .. n
      /\ vl \in Seq(Data) /\ Len(vl) = n /\ DOMAIN vl = 1 .. n /\ (vl = <<>> <=> l = <<>>)
      /\ \A i \in 1 .. n : vl[i] = heap[l[i]].data
  BY ListNow
<1>2. Holders(x) = {i \in 1 .. n : vl[i] = x}
  BY <1>1 DEF Holders
<1>3. x \in ToSet(vl) <=> Holders(x) # {}
  <2> HIDE DEF vl, n
  <2> QED BY <1>1, <1>2 DEF ToSet
<1> HIDE DEF vl, n
<1>4. CASE head = Null
  <2>1. Link(d, Null, Null, call)
    BY <1>4 DEF InsertAfter
  <2>2. 0 \in 0 .. Len(l) /\ n = 0 /\ vl = <<>>
    BY <1>1, <1>4 DEF n
  <2>3. /\ Inv' /\ Values(head)' = Inserted(Values(head), 0, d)
        /\ Values(top)' = Values(top) /\ Values(front)' = Values(front) /\ last' = call
    BY <1>4, <2>1, <2>2, LinkDone
  <2>4. Values(head)' = <<d>>
    <3>1. Inserted(vl, 0, d) = <<d>> \o vl
      BY <1>1, InsertedFirst
    <3>2. <<d>> \o <<>> = <<d>>
      OBVIOUS
    <3> QED BY <2>2, <2>3, <3>1, <3>2 DEF vl
  <2>5. Promise!ListCall
    BY <2>2, <2>3, <2>4 DEF Promise!ListCall, Promise!InsertAfter, Promise!Called, vl
  <2> QED BY <2>3, <2>5 DEF Done, Promise!Next
<1>5. CASE head # Null /\ Holders(x) = {}
  <2>1. Called(call) /\ UNCHANGED <<heap, objects>>
    BY <1>5 DEF InsertAfter
  <2>2. /\ Inv' /\ Values(head)' = Values(head)
        /\ Values(top)' = Values(top) /\ Values(front)' = Values(front) /\ last' = call
    BY <2>1, NoneDone
  <2>3. vl # <<>> /\ x \notin ToSet(vl)
    BY <1>1, <1>3, <1>5
  <2>4. Promise!ListCall
    BY <2>2, <2>3 DEF Promise!ListCall, Promise!InsertAfter, Promise!Called, Promise!ToSet, ToSet, vl
  <2> QED BY <2>2, <2>4 DEF Done, Promise!Next
<1>6. CASE head # Null /\ Holders(x) # {}
  <2> DEFINE H == Holders(x)
             k == CHOOSE i \in H : \A j \in H : i <= j
  <2>1. Link(d, l[k], heap[l[k]].link, call)
    BY <1>6 DEF InsertAfter
  <2>2. H \in SUBSET Nat /\ H # {} /\ H \subseteq 1 .. n
    BY <1>2, <1>6
  <2> HIDE DEF H
  <2>3. k \in H /\ \A j \in H : k <= j
    BY <2>2, Least
  <2>4. k \in 0 .. Len(Chain(head)) /\ k # 0 /\ k \in 1 .. n /\ k + 1 = 1 + k
    <3> HIDE DEF k
    <3>1. k \in 1 .. n /\ n \in Nat
      BY <1>1, <2>2, <2>3
    <3>2. k \in 0 .. n /\ k # 0 /\ k + 1 = 1 + k
      BY <3>1
    <3> QED BY <3>1, <3>2 DEF n
  <2> HIDE DEF k
  <2>5. /\ Inv' /\ Values(head)' = Inserted(Values(head), k, d)
        /\ Values(top)' = Values(top) /\ Values(front)' = Values(front) /\ last' = call
    BY <2>1, <2>4, LinkDone
  <2>6. Inserted(vl, k, d) = InsertAt(vl, 1 + k, d)
    <3>1. k \in 0 .. Len(vl)
      BY <1>1, <2>4 DEF n
    <3> QED BY <1>1, <2>4, <3>1, InsertedAt
  <2>7. Promise!First(x) = k
    <3>1. Promise!First(x) = CHOOSE i \in DOMAIN vl : vl[i] = x /\ \A j \in 1 .. i - 1 : vl[j] # x
      BY DEF Promise!First, vl
    <3>2. k \in DOMAIN vl /\ vl[k] = x /\ \A j \in 1 .. k - 1 : vl[j] # x
      <4>1. \A j \in 1 .. k - 1 : j \in 1 .. n /\ ~ (k <= j)
        BY <1>1, <2>4
      <4> QED BY <1>1, <1>2, <2>3, <2>4, <4>1 DEF H
    <3>3. \A i \in DOMAIN vl : vl[i] = x /\ (\A j \in 1 .. i - 1 : vl[j] # x) => i = k
      <4> SUFFICES ASSUME NEW i \in 1 .. n, vl[i] = x, \A j \in 1 .. i - 1 : vl[j] # x
                   PROVE  i = k
        BY <1>1
      <4>1. i \in H
        BY <1>2 DEF H
      <4>2. k <= i
        BY <2>3, <4>1
      <4>3. ~ (k \in 1 .. i - 1)
        BY <3>2
      <4> QED BY <1>1, <2>4, <4>2, <4>3
    <3> QED BY <3>1, <3>2, <3>3
  <2>8. vl # <<>> /\ x \in ToSet(vl)
    BY <1>1, <1>3, <1>6
  <2>9. vl' = InsertAt(vl, 1 + Promise!First(x), d)
    BY <2>5, <2>6, <2>7 DEF vl
  <2>10. Promise!InsertAfter(x, d)
    BY <2>5, <2>8, <2>9
    DEF Promise!InsertAfter, Promise!Called, Promise!ToSet, ToSet, Promise!InsertAt, InsertAt, vl
  <2>11. Promise!ListCall
    BY <2>5, <2>10 DEF Promise!ListCall
  <2> QED BY <2>5, <2>11 DEF Done, Promise!Next
<1> QED BY <1>4, <1>5, <1>6

(* insertAtIndex puts its value before the node with the index, or crashes at the head. *)
LEMMA InsertAtIndexDone ==
  ASSUME Inv, NEW index \in 0 .. Cardinality(Addr), NEW d \in Data, InsertAtIndex(index, d)
  PROVE  Done
<1> DEFINE l == Chain(head)
           vl == Values(head)
           n == Len(l)
           call == <<"insertAtIndex", index, d>>
<1>1. /\ Linked(heap, head, l) /\ n \in Nat /\ length = n /\ DOMAIN l = 1 .. n
      /\ vl \in Seq(Data) /\ Len(vl) = n
  BY ListNow
<1>2. index \in Nat
  <2>1. Cardinality(Addr) \in Nat
    BY ContainerAssumption, FS_CardinalityType DEF ContainerAssumption
  <2> QED BY <2>1
<1> HIDE DEF vl, n
<1>3. CASE index + 1 > length
  <2>1. Called(call) /\ UNCHANGED <<heap, objects>>
    BY <1>3 DEF InsertAtIndex
  <2>2. /\ Inv' /\ Values(head)' = Values(head)
        /\ Values(top)' = Values(top) /\ Values(front)' = Values(front) /\ last' = call
    BY <2>1, NoneDone
  <2>3. ~ (index < Len(vl))
    BY <1>1, <1>2, <1>3
  <2>4. Promise!ListCall
    BY <2>2, <2>3 DEF Promise!ListCall, Promise!InsertAtIndex, Promise!Called, vl
  <2> QED BY <2>2, <2>4 DEF Done, Promise!Next
<1>4. CASE ~ (index + 1 > length) /\ index = 0
  <2>1. Crash
    BY <1>4 DEF InsertAtIndex
  <2> QED BY <2>1, CrashDone
<1>5. CASE ~ (index + 1 > length) /\ index # 0
  <2>1. Link(d, l[index], l[index + 1], call)
    BY <1>5 DEF InsertAtIndex
  <2>2. index \in 1 .. n /\ index # n /\ index < n /\ index \in 0 .. Len(l)
    BY <1>1, <1>2, <1>5 DEF n
  <2>3. l[index + 1] = heap[l[index]].link
    BY <1>1, <2>2 DEF Linked, n
  <2>4. /\ Inv' /\ Values(head)' = Inserted(Values(head), index, d)
        /\ Values(top)' = Values(top) /\ Values(front)' = Values(front) /\ last' = call
    BY <1>5, <2>1, <2>2, <2>3, LinkDone
  <2>5. Inserted(vl, index, d) = InsertAt(vl, index + 1, d)
    <3>1. index \in 0 .. Len(vl)
      BY <1>1, <2>2 DEF n
    <3> QED BY <1>1, <3>1, InsertedAt
  <2>6. index < Len(vl)
    BY <1>1, <2>2
  <2>7. vl' = InsertAt(vl, index + 1, d)
    BY <2>4, <2>5 DEF vl
  <2>8. Promise!InsertAtIndex(index, d)
    BY <2>4, <2>6, <2>7
    DEF Promise!InsertAtIndex, Promise!Called, Promise!InsertAt, InsertAt, vl
  <2>9. Promise!ListCall
    BY <2>4, <2>8 DEF Promise!ListCall
  <2> QED BY <2>4, <2>9 DEF Done, Promise!Next
<1> QED BY <1>3, <1>4, <1>5

(* removeHead takes the first value and returns it. *)
LEMMA RemoveHeadDone ==
  ASSUME Inv, RemoveHead
  PROVE  Done
<1>1. PICK s, q, l, vs, vq, vl : Start(s, q, l, vs, vq, vl)
  BY Starts
<1>2. /\ Sound(heap) /\ Three(heap, head, l, top, s, front, q)
      /\ (head = Null <=> l = <<>>) /\ Linked(heap, head, l) /\ (vl = <<>> <=> l = <<>>)
      /\ Content(heap, l) = vl /\ length = Len(l) /\ l \in Seq(DOMAIN heap)
  <2>1. /\ Sound(heap) /\ Three(heap, head, l, top, s, front, q) /\ Linked(heap, head, l)
        /\ Content(heap, l) = vl /\ length = Len(l)
    BY <1>1 DEF Start, Three
  <2>2. l \in Seq(DOMAIN heap)
    BY <2>1 DEF Linked
  <2>3. (head = Null <=> l = <<>>) /\ (vl = <<>> <=> l = <<>>)
    BY <2>1, PointerTo
  <2> QED BY <2>1, <2>2, <2>3
<1>3. CASE head = Null
  <2>1. Called(<<"removeHead", Empty>>) /\ UNCHANGED <<heap, objects>>
    BY <1>3 DEF RemoveHead
  <2>2. /\ Inv' /\ Values(head)' = Values(head)
        /\ Values(top)' = Values(top) /\ Values(front)' = Values(front)
        /\ last' = <<"removeHead", Empty>>
    BY <2>1, NoneDone
  <2>3. Values(head) = <<>>
    BY <1>1, <1>2, <1>3 DEF Start
  <2>4. Promise!ListCall
    BY <2>2, <2>3 DEF Promise!ListCall, Promise!RemoveHead, Promise!Called, Promise!Empty, Empty
  <2> QED BY <2>2, <2>4 DEF Done, Promise!Next
<1>4. CASE head # Null
  <2>1. /\ head' = heap[head].link /\ heap' = Without(heap, head) /\ length' = length - 1
        /\ last' = <<"removeHead", heap[head].data>>
        /\ UNCHANGED <<top, front, rear, crashed>>
    BY <1>4 DEF RemoveHead, Called
  <2>2. l # <<>>
    BY <1>2, <1>4
  <2>3. /\ Three(heap', head', Tail(l), top, s, front, q)
        /\ Kept(heap, heap', top, s, front, q)
        /\ Content(heap', Tail(l)) = Tail(vl) /\ Head(vl) = heap[head].data
    BY <1>2, <2>1, <2>2, ThreeTail
  <2>4. length' = Len(Tail(l))
    BY <1>2, <2>1, <2>2
  <2> DEFINE e == Tail(l)
  <2> HIDE DEF e
  <2>5. Three(heap', top', s, front', q, head', e)
    <3>1. Three(heap', head', e, top', s, front', q)
      BY <2>1, <2>3 DEF e
    <3>2. Three(heap', top', s, head', e, front', q)
      BY <3>1, ThreeTurned
    <3>3. Three(heap', front', q, top', s, head', e)
      BY <3>2, ThreeTurned
    <3> QED BY <3>3, ThreeTurned
  <2>6. /\ Inv' /\ Values(top)' = Content(heap', s)
        /\ Values(front)' = Content(heap', q) /\ Values(head)' = Content(heap', e)
    <3>1. rear' = (IF q = <<>> THEN Null ELSE q[Len(q)]) /\ crashed' \in BOOLEAN
      BY <1>1, <2>1 DEF Start
    <3>2. length' = Len(e)
      BY <2>4 DEF e
    <3> QED BY <2>5, <3>1, <3>2, NewParts
  <2>7. /\ Values(head)' = Tail(Values(head)) /\ Values(top)' = Values(top)
        /\ Values(front)' = Values(front) /\ Values(head) # <<>>
        /\ heap[head].data = Head(Values(head))
    BY <1>1, <1>2, <2>2, <2>3, <2>6 DEF Start, Kept, e
  <2>8. Promise!ListCall
    BY <2>1, <2>7 DEF Promise!ListCall, Promise!RemoveHead, Promise!Called
  <2> QED BY <2>6, <2>8 DEF Done, Promise!Next
<1> QED BY <1>3, <1>4

(* removeTail takes the last value of several, or crashes with one. *)
LEMMA RemoveTailDone ==
  ASSUME Inv, RemoveTail
  PROVE  Done
<1>1. PICK s, q, l, vs, vq, vl : Start(s, q, l, vs, vq, vl)
  BY Starts
<1>2. /\ Sound(heap) /\ Three(heap, head, l, top, s, front, q)
      /\ (head = Null <=> l = <<>>) /\ Linked(heap, head, l) /\ (vl = <<>> <=> l = <<>>)
      /\ Content(heap, l) = vl /\ length = Len(l) /\ l \in Seq(DOMAIN heap)
      /\ (l # <<>> => head = l[1]) /\ Len(l) \in Nat /\ (l = <<>> <=> Len(l) = 0)
  <2>1. /\ Sound(heap) /\ Three(heap, head, l, top, s, front, q) /\ Linked(heap, head, l)
        /\ Content(heap, l) = vl /\ length = Len(l)
    BY <1>1 DEF Start, Three
  <2>2. l \in Seq(DOMAIN heap)
    BY <2>1 DEF Linked
  <2>3. (head = Null <=> l = <<>>) /\ (vl = <<>> <=> l = <<>>)
    BY <2>1, PointerTo
  <2>4. (l # <<>> => head = l[1]) /\ Len(l) \in Nat /\ (l = <<>> <=> Len(l) = 0)
    BY <2>1, PointerTo
  <2> QED BY <2>1, <2>2, <2>3, <2>4
<1>3. CASE head = Null
  <2>1. Called(<<"removeTail", Empty>>) /\ UNCHANGED <<heap, objects>>
    BY <1>3 DEF RemoveTail
  <2>2. /\ Inv' /\ Values(head)' = Values(head)
        /\ Values(top)' = Values(top) /\ Values(front)' = Values(front)
        /\ last' = <<"removeTail", Empty>>
    BY <2>1, NoneDone
  <2>3. Values(head) = <<>>
    BY <1>1, <1>2, <1>3 DEF Start
  <2>4. Promise!ListCall
    BY <2>2, <2>3 DEF Promise!ListCall, Promise!RemoveTail, Promise!Called, Promise!Empty, Empty
  <2> QED BY <2>2, <2>4 DEF Done, Promise!Next
<1>4. CASE head # Null /\ heap[head].link = Null
  <2>1. Crash
    BY <1>4 DEF RemoveTail
  <2> QED BY <2>1, CrashDone
<1>5. CASE head # Null /\ heap[head].link # Null
  <2>1. /\ heap' = Without(SetLink(heap, l[Len(l) - 1], Null), Last(l)) /\ length' = length - 1
        /\ last' = <<"removeTail", heap[Last(l)].data>>
        /\ UNCHANGED <<top, front, rear, head, crashed>>
    BY <1>1, <1>5 DEF RemoveTail, Called, Start
  <2>2. Last(l) = l[Len(l)]
    BY DEF Last
  <2>3. Len(l) >= 2
    <3>1. Len(l) # 1
      <4> SUFFICES ASSUME Len(l) = 1
                   PROVE  FALSE
        OBVIOUS
      <4>1. 1 \in DOMAIN l /\ l # <<>>
        BY <1>2
      <4>2. heap[l[1]].link = Null
        BY <1>2, <4>1 DEF Linked
      <4> QED BY <1>2, <1>5, <4>1, <4>2
    <3> QED BY <1>2, <1>5, <3>1
  <2> DEFINE e == Front(l)
  <2>4. length' = Len(e)
    <3>1. Len(l) - 1 \in 0 .. Len(l) /\ e = SubSeq(l, 1, Len(l) - 1)
      BY <1>2, <2>3 DEF Front
    <3>2. Len(e) = Len(l) - 1
      BY <1>2, <3>1
    <3> HIDE DEF e
    <3> QED BY <1>2, <2>1, <3>2
  <2>5. /\ Three(heap', head, e, top, s, front, q)
        /\ Kept(heap, heap', top, s, front, q)
        /\ Content(heap', e) = Front(vl) /\ Last(vl) = heap[l[Len(l)]].data
    <3>1. heap' = Without(SetLink(heap, l[Len(l) - 1], Null), l[Len(l)])
      BY <2>1, <2>2
    <3>2. Three(heap', head, e, top, s, front, q)
      BY <1>2, <2>3, <3>1, ThreeFront
    <3>3. Kept(heap, heap', top, s, front, q)
      BY <1>2, <2>3, <3>1, ThreeFront
    <3>4. Content(heap', e) = Front(vl)
      BY <1>2, <2>3, <3>1, ThreeFront
    <3>5. Last(vl) = heap[l[Len(l)]].data
      BY <1>2, <2>3, <3>1, ThreeFront
    <3> HIDE DEF e
    <3> QED BY <3>2, <3>3, <3>4, <3>5
  <2> HIDE DEF e
  <2>6. Three(heap', top', s, front', q, head', e)
    <3>1. Three(heap', head', e, top', s, front', q)
      BY <2>1, <2>5
    <3>2. Three(heap', top', s, head', e, front', q)
      BY <3>1, ThreeTurned
    <3>3. Three(heap', front', q, top', s, head', e)
      BY <3>2, ThreeTurned
    <3> QED BY <3>3, ThreeTurned
  <2>7. /\ Inv' /\ Values(top)' = Content(heap', s)
        /\ Values(front)' = Content(heap', q) /\ Values(head)' = Content(heap', e)
    BY <1>1, <2>1, <2>4, <2>6, NewParts DEF Start
  <2>8. /\ Values(head)' = Front(Values(head)) /\ Values(top)' = Values(top)
        /\ Values(front)' = Values(front) /\ Values(head) # <<>>
        /\ last' = <<"removeTail", Last(Values(head))>>
    BY <1>1, <1>2, <1>5, <2>1, <2>2, <2>5, <2>7 DEF Start, Kept
  <2>9. Promise!ListCall
    BY <2>8 DEF Promise!ListCall, Promise!RemoveTail, Promise!Called, Promise!Front, Front,
                Promise!Last, Last
  <2> QED BY <2>7, <2>9 DEF Done, Promise!Next
<1> QED BY <1>3, <1>4, <1>5

(* lookUp answers whether the value is there. *)
LEMMA LookUpDone ==
  ASSUME Inv, NEW d \in Data, LookUp(d)
  PROVE  Done
<1> DEFINE l == Chain(head)
           vl == Values(head)
           n == Len(l)
<1>1. /\ DOMAIN l = 1 .. n /\ DOMAIN vl = 1 .. n
      /\ \A i \in 1 .. n : vl[i] = heap[l[i]].data
  BY ListNow
<1>2. Holders(d) = {i \in 1 .. n : vl[i] = d}
  BY <1>1 DEF Holders
<1>3. d \in ToSet(vl) <=> Holders(d) # {}
  <2> HIDE DEF vl, n
  <2> QED BY <1>1, <1>2 DEF ToSet
<1> HIDE DEF vl, n
<1>4. /\ Inv' /\ Values(head)' = Values(head)
      /\ Values(top)' = Values(top) /\ Values(front)' = Values(front)
      /\ last' = <<"lookUp", d, Holders(d) # {}>>
  BY NoneDone DEF LookUp
<1>5. (Holders(d) # {}) = (d \in ToSet(vl))
  BY <1>3
<1>6. Promise!LookUp(d)
  BY <1>4, <1>5 DEF Promise!LookUp, Promise!Called, Promise!ToSet, ToSet, vl
<1>7. Promise!ListCall
  BY <1>4, <1>6 DEF Promise!ListCall
<1> QED BY <1>4, <1>7 DEF Done, Promise!Next

(* A list that is deleted leaves no node. *)
LEMMA DeleteListDone ==
  ASSUME Inv, DeleteList
  PROVE  Done
<1>1. PICK s, q, l, vs, vq, vl : Start(s, q, l, vs, vq, vl)
  BY Starts
<1>2. /\ heap' = [a \in DOMAIN heap \ ToSet(l) |-> heap[a]] /\ head' = Null /\ length' = 0
      /\ UNCHANGED <<top, front, rear, crashed>> /\ last' = <<"delete", "list">>
  BY <1>1 DEF DeleteList, Called, Start
<1>3. Three(heap', Null, <<>>, top, s, front, q) /\ Kept(heap, heap', top, s, front, q)
  BY <1>1, <1>2, ThreeDrop DEF Start
<1>4. Three(heap', top', s, front', q, head', <<>>)
  <2>1. Three(heap', head', <<>>, top', s, front', q)
    BY <1>2, <1>3
  <2>2. Three(heap', top', s, head', <<>>, front', q)
    BY <2>1, ThreeTurned
  <2>3. Three(heap', front', q, top', s, head', <<>>)
    BY <2>2, ThreeTurned
  <2> QED BY <2>3, ThreeTurned
<1>5. /\ Inv' /\ Values(top)' = Content(heap', s)
      /\ Values(front)' = Content(heap', q) /\ Values(head)' = Content(heap', <<>>)
  <2> DEFINE e == <<>>
  <2>1. length' = Len(e) /\ Three(heap', top', s, front', q, head', e)
    BY <1>2, <1>4
  <2>2. rear' = (IF q = <<>> THEN Null ELSE q[Len(q)]) /\ crashed' \in BOOLEAN
    BY <1>1, <1>2 DEF Start
  <2> HIDE DEF e
  <2>3. /\ Inv' /\ Values(top)' = Content(heap', s)
        /\ Values(front)' = Content(heap', q) /\ Values(head)' = Content(heap', e)
    BY <2>1, <2>2, NewParts
  <2> QED BY <2>3 DEF e
<1>6. /\ Values(head)' = <<>> /\ Values(top)' = Values(top) /\ Values(front)' = Values(front)
  <2>1. Content(heap', <<>>) = <<>>
    BY DEF Content
  <2> QED BY <1>1, <1>3, <1>5, <2>1 DEF Start, Kept
<1>7. Promise!Replace
  BY <1>2, <1>6 DEF Promise!Replace, Promise!Called
<1> QED BY <1>5, <1>7 DEF Done, Promise!Next
-----------------------------------------------------------------------------
(***************************************************************************)
(* The theorems                                                            *)
(***************************************************************************)
LEMMA Empties ==
  ASSUME Init
  PROVE  /\ Inv
         /\ Values(top) = <<>> /\ Values(front) = <<>> /\ Values(head) = <<>> /\ last = <<>>
<1>1. /\ DOMAIN heap = {} /\ top = Null /\ front = Null /\ rear = Null /\ head = Null /\ length = 0
      /\ last = <<>> /\ crashed = FALSE /\ heap = [a \in {} |-> Null]
  BY DEF Init
<1>2. Linked(heap, Null, <<>>)
  BY LinkedEmpty
<1>3. ChainOf(heap, Null) = <<>>
  <2>1. DOMAIN heap \subseteq Addr
    BY <1>1
  <2> QED BY <1>2, <2>1, ChainIs
<1>4. Chain(top) = <<>> /\ Chain(front) = <<>> /\ Chain(head) = <<>>
  BY <1>1, <1>3, ChainNow
<1>5. Sound(heap)
  BY <1>1 DEF Sound
<1>6. Three(heap, Null, <<>>, Null, <<>>, Null, <<>>)
  <2>1. ToSet(<<>>) = {}
    BY DEF ToSet
  <2> QED BY <1>1, <1>2, <1>5, <2>1 DEF Three
<1>7. Len(<<>>) = 0
  OBVIOUS
<1>8. Parts(<<>>, <<>>, <<>>)
  BY <1>1, <1>6, <1>7 DEF Parts
<1>9. Inv
  BY <1>1, <1>4, <1>8 DEF Inv
<1>10. Content(heap, <<>>) = <<>>
  BY DEF Content
<1> QED BY <1>1, <1>4, <1>9, <1>10, ValuesNow

(* Every step keeps the invariant and is a call of the promise, or no change. *)
LEMMA StepDone ==
  ASSUME Inv, [Next]_vars
  PROVE  Done
<1>1. CASE ~crashed /\ Call
  <2>1. CASE Pop
    BY <2>1, PopDone
  <2>2. CASE Del
    BY <2>2, DelDone
  <2>3. CASE RemoveHead
    BY <2>3, RemoveHeadDone
  <2>4. CASE RemoveTail
    BY <2>4, RemoveTailDone
  <2>5. CASE DeleteStack
    BY <2>5, DeleteStackDone
  <2>6. CASE DeleteQueue
    BY <2>6, DeleteQueueDone
  <2>7. CASE DeleteList
    BY <2>7, DeleteListDone
  <2>8. ASSUME NEW d \in Data, Push(d) PROVE Done
    BY <2>8, PushDone
  <2>9. ASSUME NEW d \in Data, Add(d) PROVE Done
    BY <2>9, AddDone
  <2>10. ASSUME NEW d \in Data, Prepend(d) PROVE Done
    BY <2>10, PrependDone
  <2>11. ASSUME NEW d \in Data, ListAppend(d) PROVE Done
    BY <2>11, ListAppendDone
  <2>12. ASSUME NEW d \in Data, LookUp(d) PROVE Done
    BY <2>12, LookUpDone
  <2>13. ASSUME NEW d \in Data, NEW x \in Data, InsertAfter(x, d) PROVE Done
    BY <2>13, InsertAfterDone
  <2>14. ASSUME NEW d \in Data, NEW index \in 0 .. Cardinality(Addr), InsertAtIndex(index, d)
         PROVE  Done
    BY <2>14, InsertAtIndexDone
  <2> QED BY <1>1, <2>1, <2>2, <2>3, <2>4, <2>5, <2>6, <2>7, <2>8, <2>9, <2>10, <2>11, <2>12,
             <2>13, <2>14 DEF Call
<1>2. CASE UNCHANGED vars
  <2>1. UNCHANGED <<heap, objects>> /\ crashed' \in BOOLEAN /\ last' = last
    BY <1>2 DEF vars, Inv
  <2>2. /\ Inv' /\ Values(top)' = Values(top) /\ Values(front)' = Values(front)
        /\ Values(head)' = Values(head)
    BY <2>1, Unmoved
  <2> QED BY <2>1, <2>2 DEF Done, Promise!vars
<1> QED BY <1>1, <1>2 DEF Next, Crashed

(* The chains of stack, queue and list always divide the heap.             *)
THEOREM SpecInv == Spec => []Inv
<1>1. Init => Inv
  BY Empties
<1>2. Inv /\ [Next]_vars => Inv'
  BY StepDone DEF Done
<1> QED BY <1>1, <1>2, PTL DEF Spec

(* What the invariant says in the words of the property. *)
LEMMA InvPartitions ==
  ASSUME Inv
  PROVE  HeapPartitioned
<1>1. PICK s, q, l, vs, vq, vl : Start(s, q, l, vs, vq, vl)
  BY Starts
<1>2. /\ Sound(heap) /\ Linked(heap, top, s) /\ Linked(heap, front, q) /\ Linked(heap, head, l)
      /\ Len(l) \in Nat /\ length = Len(l)
      /\ ToSet(s) \cap ToSet(q) = {} /\ ToSet(s) \cap ToSet(l) = {} /\ ToSet(q) \cap ToSet(l) = {}
      /\ ToSet(s) \cup ToSet(q) \cup ToSet(l) = DOMAIN heap
      /\ crashed \in BOOLEAN
  BY <1>1, LinkedFacts DEF Start, Three
<1>3. TypeOK
  <2>1. top \in Pointer /\ front \in Pointer /\ head \in Pointer
    BY <1>2, PointerTo
  <2>2. rear \in Pointer
    <3>1. rear = (IF q = <<>> THEN Null ELSE q[Len(q)])
      BY <1>1 DEF Start
    <3>2. q # <<>> => q[Len(q)] \in DOMAIN heap
      <4>1. q # <<>> => Len(q) \in 1 .. Len(q)
        BY <1>2, LinkedFacts
      <4> QED BY <1>2, <4>1, LinkedFacts
    <3> QED BY <1>2, <3>1, <3>2 DEF Sound, Pointer
  <2>3. \A a \in DOMAIN heap : heap[a].data \in Data /\ heap[a].link \in Pointer
    BY <1>2, SoundNode
  <2> QED BY <1>2, <2>1, <2>2, <2>3 DEF TypeOK, Sound
<1>4. Objects = <<s, q, l>>
  BY <1>1 DEF Objects, Start
<1>5. Objects[1] = s /\ Objects[2] = q /\ Objects[3] = l
  BY <1>4
<1>6. \A i \in 1 .. 3 : i = 1 \/ i = 2 \/ i = 3
  OBVIOUS
<1>7. IsInjective(s) /\ IsInjective(q) /\ IsInjective(l)
  BY <1>2 DEF Linked, IsInjective
<1>8. \A i \in 1 .. 3 : IsInjective(Objects[i])
  BY <1>5, <1>6, <1>7
<1> DEFINE A == ToSet(s)
           B == ToSet(q)
           C == ToSet(l)
           at(i) == ToSet(Objects[i])
<1>9. at(1) = A /\ at(2) = B /\ at(3) = C
  BY <1>5
<1>10. A \cap B = {} /\ A \cap C = {} /\ B \cap C = {} /\ A \cup B \cup C = DOMAIN heap
  BY <1>2
<1> HIDE DEF A, B, C, at
<1>11. \A i, j \in 1 .. 3 : i # j => at(i) \cap at(j) = {}
  <2>1. B \cap A = {} /\ C \cap A = {} /\ C \cap B = {}
    BY <1>10
  <2> SUFFICES ASSUME NEW i \in 1 .. 3, NEW j \in 1 .. 3, i # j
               PROVE  at(i) \cap at(j) = {}
    OBVIOUS
  <2>2. CASE i = 1
    BY <1>6, <1>9, <1>10, <2>2
  <2>3. CASE i = 2
    BY <1>6, <1>9, <1>10, <2>1, <2>3
  <2>4. CASE i = 3
    BY <1>6, <1>9, <2>1, <2>4
  <2> QED BY <1>6, <2>2, <2>3, <2>4
<1>12. UNION {at(i) : i \in 1 .. 3} = DOMAIN heap
  <2>1. \A x \in UNION {at(i) : i \in 1 .. 3} : x \in A \cup B \cup C
    BY <1>6, <1>9
  <2>2. \A x \in A \cup B \cup C : x \in UNION {at(i) : i \in 1 .. 3}
    <3>1. 1 \in 1 .. 3 /\ 2 \in 1 .. 3 /\ 3 \in 1 .. 3
      OBVIOUS
    <3> QED BY <1>9, <3>1
  <2> QED BY <1>10, <2>1, <2>2
<1> QED BY <1>3, <1>8, <1>11, <1>12 DEF HeapPartitioned, at

(* The links of a stack, a queue and a list never run in a circle, never   *)
(* come to a deleted node or another object's, and lead to every node.     *)
THEOREM ObjectsDivideHeap == Spec => []HeapPartitioned
<1>1. Inv => HeapPartitioned
  BY InvPartitions
<1> QED BY <1>1, SpecInv, PTL

(* rear and length are always what the links say. *)
THEOREM RearAndLength == Spec => []EndsAndCounts
<1>1. Inv => EndsAndCounts
  <2> SUFFICES ASSUME Inv
               PROVE  EndsAndCounts
    OBVIOUS
  <2>1. PICK s, q, l, vs, vq, vl : Start(s, q, l, vs, vq, vl)
    BY Starts
  <2>2. front = Null <=> q = <<>>
    <3>1. Sound(heap) /\ Linked(heap, front, q)
      BY <2>1 DEF Start, Three
    <3> QED BY <3>1, PointerTo
  <2> QED BY <2>1, <2>2 DEF Start, EndsAndCounts, Last
<1> QED BY <1>1, SpecInv, PTL

(* Whatever the links do, the callers of a stack, a queue and a list see   *)
(* three sequences, each changed by its own calls only.                    *)
THEOREM ContainersImplementSequences == Spec => ImplementsPromise
<1>1. Init => Promise!Init
  BY Empties DEF Promise!Init
<1>2. Inv /\ [Next]_vars => [Promise!Next]_(Promise!vars)
  BY StepDone DEF Done
<1>3. Spec => Promise!Spec
  BY <1>1, <1>2, SpecInv, PTL DEF Spec, Promise!Spec
<1> QED BY <1>3 DEF ImplementsPromise
=============================================================================
