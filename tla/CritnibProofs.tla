---------------------------- MODULE CritnibProofs ----------------------------
(* What is proved of critnib for every number of keys, nodes, leaves and     *)
(* removals: nothing is lost, the tree always holds the entries, the grace   *)
(* period protects the readers, and what they answer was so during the call. *)
EXTENDS Critnib, FiniteSetTheorems, SequenceTheorems, WellFoundedInduction, TLAPS

(***************************************************************************)
(* What can be reached                                                     *)
(***************************************************************************)
LEMMA ReachStarts ==
  ASSUME NEW from, NEW links, NEW n \in from \cap DOMAIN links
  PROVE  n \in Reach(from, links)
BY DEF Reach

LEMMA ReachDomain ==
  ASSUME NEW from, NEW links
  PROVE  Reach(from, links) \subseteq DOMAIN links
BY DEF Reach

LEMMA ReachGoesOn ==
  ASSUME NEW from, NEW links, NEW m \in Reach(from, links),
         NEW n \in links[m] \cap DOMAIN links
  PROVE  n \in Reach(from, links)
<1> SUFFICES ASSUME NEW S \in SUBSET (DOMAIN links \ {n}), from \cap DOMAIN links \subseteq S,
                    \A o \in S : links[o] \cap DOMAIN links \subseteq S
             PROVE  FALSE
  BY DEF Reach
<1>1. m \notin S
  OBVIOUS
<1>2. S \in SUBSET (DOMAIN links \ {m})
  BY <1>1
<1> QED BY <1>2 DEF Reach

LEMMA ReachLeast ==
  ASSUME NEW from, NEW links, NEW S \in SUBSET DOMAIN links,
         from \cap DOMAIN links \subseteq S,
         \A n \in S : links[n] \cap DOMAIN links \subseteq S
  PROVE  Reach(from, links) \subseteq S
<1> SUFFICES ASSUME NEW n \in Reach(from, links), n \notin S
             PROVE  FALSE
  OBVIOUS
<1>1. S \in SUBSET (DOMAIN links \ {n})
  OBVIOUS
<1> QED BY <1>1 DEF Reach

(***************************************************************************)
(* The tree below a pointer, for given nodes                               *)
(***************************************************************************)
Pointers == Nodes \cup Leaves \cup {Null}

Kids(nd, n) == {nd[n].child[i] : i \in Slots} \ {Null}

Sub(nd, p) ==
  LET below == Reach({p}, [n \in Nodes |-> Kids(nd, n)])
  IN  ({p} \cup UNION {Kids(nd, n) : n \in below}) \ {Null}

(* Where a tree keeps its pointers, and the pointer kept there. *)
Ptr(nd, r, at) == IF at = RootPlace THEN r ELSE nd[at[1]].child[at[2]]
PlacesOf(S) == {RootPlace} \cup ((S \cap Nodes) \X Slots)

LEMMA UnderIsSub ==
  ASSUME NEW p
  PROVE  Under(p) = Sub(node, p)
BY DEF Under, Sub, Children, Kids

LEMMA NullApart == Null \notin Nodes /\ Null \notin Leaves /\ Nodes \cap Leaves = {}
BY CritnibAssumption DEF CritnibAssumption

LEMMA NotRootPlace ==
  ASSUME NEW n \in Nodes, NEW i
  PROVE  <<n, i>> # RootPlace
BY NullApart DEF RootPlace

LEMMA SubStarts ==
  ASSUME NEW nd, NEW p, p # Null
  PROVE  p \in Sub(nd, p)
BY DEF Sub

LEMMA SubNoNull ==
  ASSUME NEW nd, NEW p
  PROVE  Null \notin Sub(nd, p)
BY DEF Sub

LEMMA SubGoesOn ==
  ASSUME NEW nd, NEW p, NEW n \in Sub(nd, p) \cap Nodes, NEW i \in Slots,
         nd[n].child[i] # Null
  PROVE  nd[n].child[i] \in Sub(nd, p)
<1> DEFINE links == [m \in Nodes |-> Kids(nd, m)]
           below == Reach({p}, links)
<1>1. n \in below
  <2>1. CASE n = p
    BY <2>1, ReachStarts
  <2>2. CASE n # p
    <3>1. PICK m \in below : n \in Kids(nd, m)
      BY <2>2 DEF Sub
    <3>2. m \in Nodes
      BY ReachDomain
    <3> QED BY <3>1, <3>2, ReachGoesOn
  <2> QED BY <2>1, <2>2
<1>2. nd[n].child[i] \in Kids(nd, n)
  BY DEF Kids
<1> QED BY <1>1, <1>2 DEF Sub

LEMMA SubLeast ==
  ASSUME NEW nd, NEW p, NEW S, p = Null \/ p \in S,
         \A n \in S \cap Nodes : \A i \in Slots :
             nd[n].child[i] = Null \/ nd[n].child[i] \in S
  PROVE  Sub(nd, p) \subseteq S
<1> DEFINE links == [m \in Nodes |-> Kids(nd, m)]
           below == Reach({p}, links)
<1>1. below \subseteq S \cap Nodes
  <2>1. {p} \cap DOMAIN links \subseteq S \cap Nodes
    BY NullApart
  <2>2. \A n \in S \cap Nodes : links[n] \cap DOMAIN links \subseteq S \cap Nodes
    BY DEF Kids
  <2>3. DOMAIN links = Nodes
    OBVIOUS
  <2> HIDE DEF links
  <2> QED BY <2>1, <2>2, <2>3, ReachLeast
<1>2. \A n \in below : Kids(nd, n) \subseteq S
  BY <1>1 DEF Kids
<1> QED BY <1>2 DEF Sub

(* A tree holds the pointers it keeps, and is the least set that does. *)
LEMMA SubHolds ==
  ASSUME NEW nd, NEW r, NEW at \in PlacesOf(Sub(nd, r)), Ptr(nd, r, at) # Null
  PROVE  Ptr(nd, r, at) \in Sub(nd, r)
<1>1. CASE at = RootPlace
  BY <1>1, SubStarts DEF Ptr
<1>2. CASE at # RootPlace
  BY <1>2, SubGoesOn DEF Ptr, PlacesOf
<1> QED BY <1>1, <1>2

LEMMA SubLeastPlaces ==
  ASSUME NEW nd, NEW r, NEW S,
         \A at \in PlacesOf(S) : Ptr(nd, r, at) = Null \/ Ptr(nd, r, at) \in S
  PROVE  Sub(nd, r) \subseteq S
<1>1. r = Null \/ r \in S
  BY DEF Ptr, PlacesOf
<1>2. ASSUME NEW n \in S \cap Nodes, NEW i \in Slots
      PROVE  nd[n].child[i] = Null \/ nd[n].child[i] \in S
  <2>1. <<n, i>> \in PlacesOf(S) /\ <<n, i>> # RootPlace
    BY NotRootPlace DEF PlacesOf
  <2> QED BY <2>1 DEF Ptr
<1> QED BY <1>1, <1>2, SubLeast

LEMMA SubOfLeaf ==
  ASSUME NEW nd, NEW p, p \notin Nodes
  PROVE  Sub(nd, p) = {p} \ {Null}
<1>1. Sub(nd, p) \subseteq {p} \ {Null}
  <2> DEFINE S == {p} \ {Null}
  <2>1. S \cap Nodes = {}
    OBVIOUS
  <2> HIDE DEF S
  <2>2. Sub(nd, p) \subseteq S
    BY <2>1, SubLeast DEF S
  <2> QED BY <2>2 DEF S
<1> QED BY <1>1, SubStarts

LEMMA SubWithin ==
  ASSUME NEW nd, NEW p, NEW q \in Sub(nd, p)
  PROVE  Sub(nd, q) \subseteq Sub(nd, p)
<1> DEFINE S == Sub(nd, p)
<1>1. \A n \in S \cap Nodes : \A i \in Slots : nd[n].child[i] = Null \/ nd[n].child[i] \in S
  BY SubGoesOn
<1> HIDE DEF S
<1>2. q \in S
  BY DEF S
<1>3. Sub(nd, q) \subseteq S
  BY <1>1, <1>2, SubLeast
<1> QED BY <1>3 DEF S

(* What lies below a node and is not the node lies below one of its children. *)
LEMMA SubOfNode ==
  ASSUME NEW nd, NEW n \in Nodes, NEW x \in Sub(nd, n), x # n
  PROVE  \E i \in Slots : x \in Sub(nd, nd[n].child[i])
<1> DEFINE S == {n} \cup UNION {Sub(nd, nd[n].child[i]) : i \in Slots}
<1>1. ASSUME NEW m \in S \cap Nodes, NEW i \in Slots, nd[m].child[i] # Null
      PROVE  nd[m].child[i] \in S
  <2>1. CASE m = n
    BY <1>1, <2>1, SubStarts
  <2>2. CASE m # n
    <3>1. PICK j \in Slots : m \in Sub(nd, nd[n].child[j])
      BY <2>2
    <3>2. nd[m].child[i] \in Sub(nd, nd[n].child[j])
      BY <1>1, <3>1, SubGoesOn
    <3> QED BY <3>2
  <2> QED BY <2>1, <2>2
<1>2. n \in S
  OBVIOUS
<1> HIDE DEF S
<1>3. x \in S
  BY <1>1, <1>2, SubLeast
<1> QED BY <1>3 DEF S

LEMMA SubTyped ==
  ASSUME NEW nd, NEW p \in Pointers,
         \A n \in Nodes : \A i \in Slots : nd[n].child[i] \in Pointers
  PROVE  Sub(nd, p) \subseteq Nodes \cup Leaves
<1> DEFINE S == Nodes \cup Leaves
<1>1. \A n \in S \cap Nodes : \A i \in Slots : nd[n].child[i] = Null \/ nd[n].child[i] \in S
  BY DEF Pointers
<1>2. p = Null \/ p \in S
  BY DEF Pointers
<1> HIDE DEF S
<1>3. Sub(nd, p) \subseteq S
  BY <1>1, <1>2, SubLeast
<1> QED BY <1>3 DEF S

(***************************************************************************)
(* Chains of free nodes or leaves                                          *)
(***************************************************************************)
Chain(next, p) == Reach({p}, [n \in DOMAIN next |-> {next[n]}])

(* It ends in null, and no member comes after itself. *)
Ends(next, p) ==
  /\ p \in DOMAIN next \cup {Null}
  /\ \A n \in Chain(next, p) : /\ next[n] \in DOMAIN next \cup {Null}
                               /\ n \notin Chain(next, next[n])

LEMMA ChainEmpty ==
  ASSUME NEW next, NEW p, p \notin DOMAIN next
  PROVE  Chain(next, p) = {}
<1> DEFINE links == [n \in DOMAIN next |-> {next[n]}]
<1>1. DOMAIN links = DOMAIN next
  OBVIOUS
<1>2. {p} \cap DOMAIN links = {}
  OBVIOUS
<1> HIDE DEF links
<1>3. Reach({p}, links) \subseteq {}
  BY <1>1, <1>2, ReachLeast
<1> QED BY <1>3 DEF Chain, links

LEMMA ChainStarts ==
  ASSUME NEW next, NEW p \in DOMAIN next
  PROVE  p \in Chain(next, p)
BY ReachStarts DEF Chain

LEMMA ChainDomain ==
  ASSUME NEW next, NEW p
  PROVE  Chain(next, p) \subseteq DOMAIN next
BY ReachDomain DEF Chain

LEMMA ChainGoesOn ==
  ASSUME NEW next, NEW p, NEW n \in Chain(next, p), next[n] \in DOMAIN next
  PROVE  next[n] \in Chain(next, p)
<1> DEFINE links == [m \in DOMAIN next |-> {next[m]}]
<1>1. n \in DOMAIN next
  BY ChainDomain
<1>2. next[n] \in links[n] \cap DOMAIN links
  BY <1>1
<1>3. n \in Reach({p}, links)
  BY DEF Chain
<1> HIDE DEF links
<1>4. next[n] \in Reach({p}, links)
  BY <1>2, <1>3, ReachGoesOn
<1> QED BY <1>4 DEF Chain, links

LEMMA ChainLeast ==
  ASSUME NEW next, NEW p, NEW S, p \in DOMAIN next => p \in S,
         \A n \in S \cap DOMAIN next : next[n] \in DOMAIN next => next[n] \in S
  PROVE  Chain(next, p) \subseteq S
<1> DEFINE links == [n \in DOMAIN next |-> {next[n]}]
           R == S \cap DOMAIN next
<1>1. R \in SUBSET DOMAIN links
  OBVIOUS
<1>2. {p} \cap DOMAIN links \subseteq R
  OBVIOUS
<1>3. \A n \in R : links[n] \cap DOMAIN links \subseteq R
  OBVIOUS
<1> HIDE DEF links, R
<1>4. Reach({p}, links) \subseteq R
  BY <1>1, <1>2, <1>3, ReachLeast
<1> QED BY <1>4 DEF Chain, links, R

LEMMA ChainFrame ==
  ASSUME NEW next, NEW other, NEW p, DOMAIN other = DOMAIN next,
         \A n \in Chain(next, p) : other[n] = next[n]
  PROVE  Chain(other, p) = Chain(next, p)
<1> DEFINE A == Chain(next, p)
           B == Chain(other, p)
<1>1. A \subseteq DOMAIN next /\ B \subseteq DOMAIN next
  BY ChainDomain
<1>2. p \in DOMAIN next => p \in A \cap B
  BY ChainStarts
<1>3. \A n \in A \cap DOMAIN next : next[n] \in DOMAIN next => next[n] \in A
  BY ChainGoesOn
<1>4. \A n \in B \cap DOMAIN next : other[n] \in DOMAIN next => other[n] \in B
  BY ChainGoesOn
<1>5. \A n \in A : other[n] = next[n]
  OBVIOUS
<1>6. B \subseteq A
  <2> HIDE DEF A
  <2> QED BY <1>2, <1>3, <1>5, ChainLeast
<1>7. A \subseteq A \cap B
  <2> DEFINE C == A \cap B
  <2>1. \A n \in C \cap DOMAIN next : next[n] \in DOMAIN next => next[n] \in C
    BY <1>3, <1>4, <1>5
  <2>2. p \in DOMAIN next => p \in C
    BY <1>2
  <2> HIDE DEF C
  <2>3. Chain(next, p) \subseteq C
    BY <2>1, <2>2, ChainLeast
  <2> QED BY <2>3 DEF C
<1> QED BY <1>6, <1>7

LEMMA ChainUnfold ==
  ASSUME NEW next, NEW p \in DOMAIN next
  PROVE  Chain(next, p) = {p} \cup Chain(next, next[p])
<1> DEFINE A == Chain(next, p)
           B == {p} \cup Chain(next, next[p])
<1>1. A \subseteq B
  <2>1. \A n \in B \cap DOMAIN next : next[n] \in DOMAIN next => next[n] \in B
    BY ChainGoesOn, ChainStarts
  <2> HIDE DEF B
  <2> QED BY <2>1, ChainLeast DEF B
<1>2. B \subseteq A
  <2>1. \A n \in A \cap DOMAIN next : next[n] \in DOMAIN next => next[n] \in A
    BY ChainGoesOn
  <2>2. p \in A
    BY ChainStarts
  <2>3. next[p] \in DOMAIN next => next[p] \in A
    BY <2>2, ChainGoesOn
  <2> HIDE DEF A
  <2>4. Chain(next, next[p]) \subseteq A
    BY <2>1, <2>3, ChainLeast
  <2> QED BY <2>2, <2>4
<1> QED BY <1>1, <1>2

(* The first member is taken from a chain. *)
LEMMA ChainPop ==
  ASSUME NEW next, NEW p \in DOMAIN next, Ends(next, p)
  PROVE  /\ Chain(next, next[p]) = Chain(next, p) \ {p}
         /\ Ends(next, next[p])
<1>1. p \in Chain(next, p)
  BY ChainStarts
<1> QED BY <1>1, ChainUnfold DEF Ends

(* A chain keeps its members, and its end, when others change. *)
LEMMA ChainKept ==
  ASSUME NEW next, NEW other, NEW p, DOMAIN other = DOMAIN next, Ends(next, p),
         \A n \in Chain(next, p) : other[n] = next[n]
  PROVE  /\ Chain(other, p) = Chain(next, p)
         /\ Ends(other, p)
<1>1. Chain(other, p) = Chain(next, p)
  BY ChainFrame
<1>2. ASSUME NEW n \in Chain(next, p)
      PROVE  Chain(other, next[n]) = Chain(next, next[n])
  <2>1. \A m \in Chain(next, p) \cap DOMAIN next :
            next[m] \in DOMAIN next => next[m] \in Chain(next, p)
    BY ChainGoesOn
  <2>2. Chain(next, next[n]) \subseteq Chain(next, p)
    <3>1. next[n] \in DOMAIN next => next[n] \in Chain(next, p)
      BY ChainGoesOn
    <3> DEFINE S == Chain(next, p)
    <3>2. next[n] \in DOMAIN next => next[n] \in S
      BY <3>1
    <3>3. \A m \in S \cap DOMAIN next : next[m] \in DOMAIN next => next[m] \in S
      BY <2>1
    <3> HIDE DEF S
    <3>4. Chain(next, next[n]) \subseteq S
      BY <3>2, <3>3, ChainLeast
    <3> QED BY <3>4 DEF S
  <2> QED BY <2>2, ChainFrame
<1> QED BY <1>1, <1>2 DEF Ends

(* A new first member is put before a chain. *)
LEMMA ChainPush ==
  ASSUME NEW next, NEW other, NEW p, NEW x \in DOMAIN next, x \notin Chain(next, p),
         DOMAIN other = DOMAIN next, Ends(next, p), other[x] = p,
         \A n \in Chain(next, p) : other[n] = next[n]
  PROVE  /\ Chain(other, x) = {x} \cup Chain(next, p)
         /\ Ends(other, x)
<1>1. Chain(other, p) = Chain(next, p) /\ Ends(other, p)
  BY ChainKept
<1>2. Chain(other, x) = {x} \cup Chain(next, p)
  BY <1>1, ChainUnfold
<1> QED BY <1>1, <1>2 DEF Ends

(***************************************************************************)
(* One store in a tree                                                     *)
(***************************************************************************)
AllPlaces == PlacesOf(Nodes)

(* The place at, and no other, has got the pointer q. *)
Stored(nd, r, other, s, at, q) ==
  \A b \in AllPlaces : Ptr(other, s, b) = IF b = at THEN q ELSE Ptr(nd, r, b)

(* No two places of the tree keep the same pointer. *)
Unique(nd, r) ==
  \A a, b \in PlacesOf(Sub(nd, r)) :
      Ptr(nd, r, a) = Ptr(nd, r, b) /\ Ptr(nd, r, a) # Null => a = b

(* The only child of a node. *)
OneChild(nd, n, o) ==
  nd[n].child[o] # Null /\ \A h \in Slots \ {o} : nd[n].child[h] = Null

LEMMA PlacesAll ==
  ASSUME NEW S
  PROVE  PlacesOf(S) \subseteq AllPlaces
BY DEF PlacesOf, AllPlaces

LEMMA PlaceCases ==
  ASSUME NEW S, NEW b \in PlacesOf(S)
  PROVE  \/ b = RootPlace
         \/ /\ b # RootPlace /\ b[1] \in S \cap Nodes /\ b[2] \in Slots
            /\ b = <<b[1], b[2]>>
BY DEF PlacesOf

LEMMA PlaceOfNode ==
  ASSUME NEW S, NEW n \in S \cap Nodes, NEW i \in Slots
  PROVE  /\ <<n, i>> \in PlacesOf(S) /\ <<n, i>> # RootPlace
         /\ \A nd, r : Ptr(nd, r, <<n, i>>) = nd[n].child[i]
BY NotRootPlace DEF PlacesOf, Ptr

LEMMA StoredKeepsPlace ==
  ASSUME NEW nd, NEW r, NEW other, NEW s, NEW at, NEW q,
         Stored(nd, r, other, s, at, q), at \in PlacesOf(Sub(nd, r))
  PROVE  at \in PlacesOf(Sub(other, s))
<1> DEFINE U == Sub(other, s)
<1> SUFFICES ASSUME at \notin PlacesOf(U)
             PROVE  FALSE
  OBVIOUS
<1>1. ASSUME NEW b \in PlacesOf(U)
      PROVE  Ptr(nd, r, b) = Null \/ Ptr(nd, r, b) \in U
  <2>1. Ptr(other, s, b) = Ptr(nd, r, b)
    BY PlacesAll DEF Stored
  <2> QED BY <2>1, SubHolds
<1>2. Sub(nd, r) \subseteq U
  <2> HIDE DEF U
  <2> QED BY <1>1, SubLeastPlaces
<1> QED BY <1>2 DEF PlacesOf

(* A pointer to a leaf is put where there was none. *)
LEMMA StoreLeaf ==
  ASSUME NEW nd, NEW r, NEW other, NEW s, NEW at, NEW q,
         Stored(nd, r, other, s, at, q), at \in PlacesOf(Sub(nd, r)),
         Ptr(nd, r, at) = Null, q # Null, q \notin Nodes,
         q \notin Sub(nd, r), Unique(nd, r)
  PROVE  /\ Sub(other, s) = Sub(nd, r) \cup {q}
         /\ Unique(other, s)
<1> DEFINE T == Sub(nd, r)
           U == Sub(other, s)
<1>a. \A b \in PlacesOf(T) : Ptr(nd, r, b) = Null \/ Ptr(nd, r, b) \in T
  BY SubHolds
<1>b. \A b \in PlacesOf(U) : Ptr(other, s, b) = Null \/ Ptr(other, s, b) \in U
  BY SubHolds
<1>c. at \in PlacesOf(U)
  BY StoredKeepsPlace
<1>d. PlacesOf(T \cup {q}) = PlacesOf(T)
  BY DEF PlacesOf
<1>e. \A b \in PlacesOf(T) \cup PlacesOf(U) :
          Ptr(other, s, b) = IF b = at THEN q ELSE Ptr(nd, r, b)
  BY PlacesAll DEF Stored
<1>1. U \subseteq T \cup {q}
  <2> DEFINE S == T \cup {q}
  <2>1. \A b \in PlacesOf(S) : Ptr(other, s, b) = Null \/ Ptr(other, s, b) \in S
    BY <1>a, <1>d, <1>e
  <2> HIDE DEF S
  <2>2. U \subseteq S
    BY <2>1, SubLeastPlaces
  <2> QED BY <2>2 DEF S
<1>2. T \subseteq U
  <2>1. \A b \in PlacesOf(U) : Ptr(nd, r, b) = Null \/ Ptr(nd, r, b) \in U
    BY <1>b, <1>e
  <2> HIDE DEF U
  <2> QED BY <2>1, SubLeastPlaces
<1>3. q \in U
  BY <1>b, <1>c, <1>e
<1>4. U = T \cup {q}
  BY <1>1, <1>2, <1>3
<1>5. Unique(other, s)
  <2> SUFFICES ASSUME NEW a \in PlacesOf(U), NEW b \in PlacesOf(U),
                      Ptr(other, s, a) = Ptr(other, s, b), Ptr(other, s, a) # Null
               PROVE  a = b
    BY DEF Unique
  <2>1. a \in PlacesOf(T) /\ b \in PlacesOf(T)
    BY <1>4, <1>d
  <2> QED BY <2>1, <1>a, <1>e DEF Unique
<1> QED BY <1>4, <1>5

(* A node outside the tree is put before what the place keeps. *)
LEMMA StoreNode ==
  ASSUME NEW nd, NEW r, NEW other, NEW s, NEW at, NEW m \in Nodes, NEW k,
         Stored(nd, r, other, s, at, m), at \in PlacesOf(Sub(nd, r)),
         Ptr(nd, r, at) # Null, m \notin Sub(nd, r), Unique(nd, r),
         k # Null, k \notin Nodes, k \notin Sub(nd, r),
         NEW i \in Slots, NEW j \in Slots, i # j,
         nd[m].child[i] = k, nd[m].child[j] = Ptr(nd, r, at),
         \A h \in Slots \ {i, j} : nd[m].child[h] = Null
  PROVE  /\ Sub(other, s) = Sub(nd, r) \cup {m, k}
         /\ Unique(other, s)
<1> DEFINE T == Sub(nd, r)
           U == Sub(other, s)
           p == Ptr(nd, r, at)
<1>a. \A b \in PlacesOf(T) : Ptr(nd, r, b) = Null \/ Ptr(nd, r, b) \in T
  BY SubHolds
<1>b. \A b \in PlacesOf(U) : Ptr(other, s, b) = Null \/ Ptr(other, s, b) \in U
  BY SubHolds
<1>c. at \in PlacesOf(U)
  BY StoredKeepsPlace
<1>d. PlacesOf(T \cup {m, k}) = PlacesOf(T) \cup {<<m, h>> : h \in Slots}
  BY DEF PlacesOf
<1>e. \A b \in AllPlaces : Ptr(other, s, b) = IF b = at THEN m ELSE Ptr(nd, r, b)
  BY DEF Stored
<1>f. \A h \in Slots : <<m, h>> # at /\ <<m, h>> \notin PlacesOf(T) /\ <<m, h>> \in AllPlaces
                       /\ Ptr(nd, r, <<m, h>>) = nd[m].child[h]
  <2> SUFFICES ASSUME NEW h \in Slots
               PROVE  <<m, h>> # at /\ <<m, h>> \notin PlacesOf(T) /\ <<m, h>> \in AllPlaces
                       /\ Ptr(nd, r, <<m, h>>) = nd[m].child[h]
    OBVIOUS
  <2>1. <<m, h>> # RootPlace
    BY NotRootPlace
  <2>2. <<m, h>> \notin PlacesOf(T)
    BY <2>1 DEF PlacesOf
  <2> QED BY <2>1, <2>2 DEF AllPlaces, PlacesOf, Ptr
<1>g. \A h \in Slots : Ptr(other, s, <<m, h>>) = nd[m].child[h]
  BY <1>e, <1>f
<1>h. p \in T
  BY <1>a
<1>i. m # Null /\ m # k
  BY NullApart
<1>j. PlacesOf(T) \subseteq AllPlaces /\ PlacesOf(U) \subseteq AllPlaces
  BY PlacesAll
<1>1. U \subseteq T \cup {m, k}
  <2> DEFINE S == T \cup {m, k}
  <2>1. ASSUME NEW b \in PlacesOf(S)
        PROVE  Ptr(other, s, b) = Null \/ Ptr(other, s, b) \in S
    <3>1. CASE b \in PlacesOf(T)
      BY <3>1, <1>a, <1>e, <1>j
    <3>2. CASE b \notin PlacesOf(T)
      <4>1. PICK h \in Slots : b = <<m, h>>
        BY <3>2, <1>d
      <4> QED BY <4>1, <1>g, <1>h
    <3> QED BY <3>1, <3>2
  <2> HIDE DEF S
  <2>2. U \subseteq S
    BY <2>1, SubLeastPlaces
  <2> QED BY <2>2 DEF S
<1>2. m \in U
  BY <1>b, <1>c, <1>e, <1>i, <1>j
<1>3. \A h \in Slots : nd[m].child[h] # Null => nd[m].child[h] \in U
  <2>1. \A h \in Slots : <<m, h>> \in PlacesOf(U)
    BY <1>2 DEF PlacesOf
  <2> QED BY <2>1, <1>b, <1>g
<1>4. T \subseteq U
  <2>1. \A b \in PlacesOf(U) : Ptr(nd, r, b) = Null \/ Ptr(nd, r, b) \in U
    BY <1>b, <1>e, <1>3, <1>j
  <2> HIDE DEF U
  <2> QED BY <2>1, SubLeastPlaces
<1>5. U = T \cup {m, k}
  BY <1>1, <1>2, <1>3, <1>4
<1>6. Unique(other, s)
  <2> SUFFICES ASSUME NEW a \in PlacesOf(U), NEW b \in PlacesOf(U),
                      Ptr(other, s, a) = Ptr(other, s, b), Ptr(other, s, a) # Null
               PROVE  a = b
    BY DEF Unique
  <2>0. \A c \in PlacesOf(T) : Ptr(nd, r, c) = p => c = at
    BY DEF Unique
  <2>1. \A c \in PlacesOf(T) : /\ Ptr(other, s, c) = m \/ Ptr(other, s, c) = Null \/ Ptr(other, s, c) \in T \ {p}
                               /\ Ptr(other, s, c) = m <=> c = at
    <3> SUFFICES ASSUME NEW c \in PlacesOf(T)
                 PROVE  /\ Ptr(other, s, c) = m \/ Ptr(other, s, c) = Null \/ Ptr(other, s, c) \in T \ {p}
                        /\ Ptr(other, s, c) = m <=> c = at
      OBVIOUS
    <3>1. Ptr(other, s, c) = IF c = at THEN m ELSE Ptr(nd, r, c)
      BY <1>e, <1>j
    <3>2. Ptr(nd, r, c) = Null \/ Ptr(nd, r, c) \in T
      BY <1>a
    <3>3. m \notin T
      OBVIOUS
    <3>4. Ptr(nd, r, c) = p => c = at
      BY <2>0
    <3> QED BY <3>1, <3>2, <3>3, <3>4, <1>i
  <2>2. \A h \in Slots : /\ Ptr(other, s, <<m, h>>) \in {k, p, Null}
                         /\ Ptr(other, s, <<m, h>>) = k => h = i
                         /\ Ptr(other, s, <<m, h>>) = p => h = j
    BY <1>g, <1>h
  <2>3. \A c \in PlacesOf(U) : c \in PlacesOf(T) \/ \E h \in Slots : c = <<m, h>>
    BY <1>5, <1>d
  <2>4. CASE a \in PlacesOf(T) /\ b \in PlacesOf(T)
    BY <2>4, <2>1, <1>e, <1>j DEF Unique
  <2>5. CASE a \in PlacesOf(T) /\ b \notin PlacesOf(T)
    BY <2>5, <2>1, <2>2, <2>3, <1>h, <1>i
  <2>6. CASE a \notin PlacesOf(T) /\ b \in PlacesOf(T)
    BY <2>6, <2>1, <2>2, <2>3, <1>h, <1>i
  <2>7. CASE a \notin PlacesOf(T) /\ b \notin PlacesOf(T)
    BY <2>7, <2>2, <2>3
  <2> QED BY <2>4, <2>5, <2>6, <2>7
<1> QED BY <1>5, <1>6

(* A leaf is unlinked. *)
LEMMA StoreNull ==
  ASSUME NEW nd, NEW r, NEW other, NEW s, NEW at,
         Stored(nd, r, other, s, at, Null), at \in PlacesOf(Sub(nd, r)),
         Ptr(nd, r, at) # Null, Ptr(nd, r, at) \notin Nodes, Unique(nd, r)
  PROVE  /\ Sub(other, s) = Sub(nd, r) \ {Ptr(nd, r, at)}
         /\ Unique(other, s)
<1> DEFINE T == Sub(nd, r)
           U == Sub(other, s)
           x == Ptr(nd, r, at)
<1>a. \A b \in PlacesOf(T) : Ptr(nd, r, b) = Null \/ Ptr(nd, r, b) \in T
  BY SubHolds
<1>b. \A b \in PlacesOf(U) : Ptr(other, s, b) = Null \/ Ptr(other, s, b) \in U
  BY SubHolds
<1>c. \A S : PlacesOf(S \ {x}) = PlacesOf(S) /\ PlacesOf(S \cup {x}) = PlacesOf(S)
  BY DEF PlacesOf
<1>e. \A b \in PlacesOf(T) \cup PlacesOf(U) :
          Ptr(other, s, b) = IF b = at THEN Null ELSE Ptr(nd, r, b)
  BY PlacesAll DEF Stored
<1>1. U \subseteq T \ {x}
  <2> DEFINE S == T \ {x}
  <2>1. \A b \in PlacesOf(S) : Ptr(other, s, b) = Null \/ Ptr(other, s, b) \in S
    BY <1>a, <1>c, <1>e DEF Unique
  <2> HIDE DEF S
  <2>2. U \subseteq S
    BY <2>1, SubLeastPlaces
  <2> QED BY <2>2 DEF S
<1>2. T \subseteq U \cup {x}
  <2> DEFINE S == U \cup {x}
  <2>1. \A b \in PlacesOf(S) : Ptr(nd, r, b) = Null \/ Ptr(nd, r, b) \in S
    BY <1>b, <1>c, <1>e
  <2> HIDE DEF S
  <2>2. T \subseteq S
    BY <2>1, SubLeastPlaces
  <2> QED BY <2>2 DEF S
<1>3. U = T \ {x}
  BY <1>1, <1>2
<1>4. Unique(other, s)
  <2>1. PlacesOf(U) = PlacesOf(T)
    BY <1>3, <1>c
  <2> QED BY <2>1, <1>e DEF Unique
<1> QED BY <1>3, <1>4

(* A node with one child is passed by. *)
LEMMA StorePast ==
  ASSUME NEW nd, NEW r, NEW other, NEW s, NEW at, NEW c,
         Stored(nd, r, other, s, at, c), at \in PlacesOf(Sub(nd, r)),
         NEW n \in Nodes, Ptr(nd, r, at) = n, Unique(nd, r),
         NEW o \in Slots, nd[n].child[o] = c, OneChild(nd, n, o)
  PROVE  /\ Sub(other, s) = Sub(nd, r) \ {n}
         /\ Unique(other, s)
<1> DEFINE T == Sub(nd, r)
           U == Sub(other, s)
<1>0. c # Null /\ \A h \in Slots \ {o} : nd[n].child[h] = Null
  BY DEF OneChild
<1>a. \A b \in PlacesOf(T) : Ptr(nd, r, b) = Null \/ Ptr(nd, r, b) \in T
  BY SubHolds
<1>b. \A b \in PlacesOf(U) : Ptr(other, s, b) = Null \/ Ptr(other, s, b) \in U
  BY SubHolds
<1>c. at \in PlacesOf(U)
  BY StoredKeepsPlace
<1>d. \A S : /\ PlacesOf(S \cup {n}) = PlacesOf(S) \cup {<<n, h>> : h \in Slots}
             /\ PlacesOf(S \ {n}) = PlacesOf(S) \ {<<n, h>> : h \in Slots}
  <2> SUFFICES ASSUME NEW S
               PROVE  /\ PlacesOf(S \cup {n}) = PlacesOf(S) \cup {<<n, h>> : h \in Slots}
                      /\ PlacesOf(S \ {n}) = PlacesOf(S) \ {<<n, h>> : h \in Slots}
    OBVIOUS
  <2>1. PlacesOf(S \cup {n}) = PlacesOf(S) \cup {<<n, h>> : h \in Slots}
    BY DEF PlacesOf
  <2>2. \A h \in Slots : <<n, h>> # RootPlace
    BY NotRootPlace
  <2>3. PlacesOf(S \ {n}) = PlacesOf(S) \ {<<n, h>> : h \in Slots}
    BY <2>2 DEF PlacesOf
  <2> QED BY <2>1, <2>3
<1>e. \A b \in AllPlaces : Ptr(other, s, b) = IF b = at THEN c ELSE Ptr(nd, r, b)
  BY DEF Stored
<1>f. n # Null /\ n \in T
  BY <1>a, NullApart
<1>g. \A h \in Slots : <<n, h>> \in PlacesOf(T) /\ Ptr(nd, r, <<n, h>>) = nd[n].child[h]
  BY <1>f, PlaceOfNode
<1>h. c \in T
  BY <1>0, <1>a, <1>g
<1>i. \A b \in PlacesOf(T) : Ptr(nd, r, b) = n => b = at
  BY <1>f DEF Unique
<1>j. PlacesOf(T) \subseteq AllPlaces /\ PlacesOf(U) \subseteq AllPlaces
  BY PlacesAll
<1>k. c # n
  <2> SUFFICES ASSUME c = n
               PROVE  FALSE
    OBVIOUS
  <2> DEFINE S == T \ {n}
  <2>1. at = <<n, o>>
    BY <1>g, <1>i
  <2>2. ASSUME NEW b \in PlacesOf(S)
        PROVE  Ptr(nd, r, b) = Null \/ Ptr(nd, r, b) \in S
    <3>1. b \in PlacesOf(T) /\ b # at
      BY <2>1, <1>d
    <3> QED BY <3>1, <1>a, <1>i
  <2> HIDE DEF S
  <2>3. T \subseteq S
    BY <2>2, SubLeastPlaces
  <2> QED BY <2>3, <1>f DEF S
<1>1. U \subseteq T \ {n}
  <2> DEFINE S == T \ {n}
  <2>1. ASSUME NEW b \in PlacesOf(S)
        PROVE  Ptr(other, s, b) = Null \/ Ptr(other, s, b) \in S
    <3>1. b \in PlacesOf(T)
      BY <1>d
    <3> QED BY <3>1, <1>a, <1>e, <1>h, <1>i, <1>j, <1>k
  <2> HIDE DEF S
  <2>2. U \subseteq S
    BY <2>1, SubLeastPlaces
  <2> QED BY <2>2 DEF S
<1>2. c \in U
  BY <1>0, <1>b, <1>c, <1>e, <1>j
<1>3. T \subseteq U \cup {n}
  <2> DEFINE S == U \cup {n}
  <2>1. ASSUME NEW b \in PlacesOf(S)
        PROVE  Ptr(nd, r, b) = Null \/ Ptr(nd, r, b) \in S
    <3>1. CASE b \in PlacesOf(U)
      BY <3>1, <1>b, <1>e, <1>j
    <3>2. CASE b \notin PlacesOf(U)
      <4>1. PICK h \in Slots : b = <<n, h>>
        BY <3>2, <1>d
      <4> QED BY <4>1, <1>0, <1>g, <1>2
    <3> QED BY <3>1, <3>2
  <2> HIDE DEF S
  <2>2. T \subseteq S
    BY <2>1, SubLeastPlaces
  <2> QED BY <2>2 DEF S
<1>4. U = T \ {n}
  BY <1>1, <1>3
<1>5. Unique(other, s)
  <2> SUFFICES ASSUME NEW a \in PlacesOf(U), NEW b \in PlacesOf(U),
                      Ptr(other, s, a) = Ptr(other, s, b), Ptr(other, s, a) # Null
               PROVE  a = b
    BY DEF Unique
  <2>1. /\ a \in PlacesOf(T) /\ b \in PlacesOf(T) /\ <<n, o>> \in PlacesOf(T)
        /\ a # <<n, o>> /\ b # <<n, o>>
    BY <1>4, <1>d, <1>g
  <2>2. Ptr(nd, r, <<n, o>>) = c
    BY <1>g
  <2>3. \A d \in PlacesOf(T) : Ptr(nd, r, d) = c => d = <<n, o>>
    BY <1>0, <2>1, <2>2 DEF Unique
  <2> QED BY <2>1, <2>3, <1>e, <1>j DEF Unique
<1> QED BY <1>4, <1>5

(* What is not in the tree may change. *)
LEMMA SubFrame ==
  ASSUME NEW nd, NEW r, NEW other,
         \A n \in Sub(nd, r) \cap Nodes : \A i \in Slots : other[n].child[i] = nd[n].child[i]
  PROVE  Sub(other, r) = Sub(nd, r)
<1> DEFINE T == Sub(nd, r)
           U == Sub(other, r)
<1>1. \A n \in T \cap Nodes : \A i \in Slots : nd[n].child[i] = Null \/ nd[n].child[i] \in T
  BY SubGoesOn
<1>2. \A n \in U \cap Nodes : \A i \in Slots : other[n].child[i] = Null \/ other[n].child[i] \in U
  BY SubGoesOn
<1>3. r = Null \/ r \in T \cap U
  BY SubStarts
<1>4. \A n \in T \cap Nodes : \A i \in Slots : other[n].child[i] = nd[n].child[i]
  OBVIOUS
<1>5. U \subseteq T
  <2> HIDE DEF T
  <2> QED BY <1>1, <1>3, <1>4, SubLeast
<1>6. T \subseteq T \cap U
  <2> DEFINE S == T \cap U
  <2>1. \A n \in S \cap Nodes : \A i \in Slots : nd[n].child[i] = Null \/ nd[n].child[i] \in S
    BY <1>1, <1>2, <1>4
  <2>2. r = Null \/ r \in S
    BY <1>3
  <2> HIDE DEF S
  <2>3. T \subseteq S
    BY <2>1, <2>2, SubLeast
  <2> QED BY <2>3 DEF S
<1> QED BY <1>5, <1>6

LEMMA UniqueFrame ==
  ASSUME NEW nd, NEW r, NEW other, Unique(nd, r),
         \A n \in Sub(nd, r) \cap Nodes : \A i \in Slots : other[n].child[i] = nd[n].child[i]
  PROVE  Unique(other, r)
<1>1. Sub(other, r) = Sub(nd, r)
  BY SubFrame
<1>2. ASSUME NEW b \in PlacesOf(Sub(nd, r))
      PROVE  Ptr(other, r, b) = Ptr(nd, r, b)
  BY PlaceCases DEF Ptr
<1> QED BY <1>1, <1>2 DEF Unique

(***************************************************************************)
(* Keys, slices and paths                                                  *)
(***************************************************************************)
LEMMA Least ==
  ASSUME NEW S \in SUBSET Nat, S # {}
  PROVE  \E x \in S : \A y \in S : x <= y
<1>1. PICK x \in S : \A y \in S : ~ (<<y, x>> \in OpToRel(<, Nat))
  BY NatLessThanWellFounded, WFMin
<1>2. \A y \in S : ~ (y < x)
  BY <1>1 DEF OpToRel
<1> QED BY <1>2

LEMMA PowerNat ==
  ASSUME NEW n \in Nat
  PROVE  2 ^ n \in Nat \ {0}
<1> DEFINE S == 1 .. n
<1>1. IsFiniteSet(S) /\ Cardinality(S) = n
  BY FS_Interval
<1>2. IsFiniteSet(SUBSET S) /\ Cardinality(SUBSET S) = 2 ^ n
  BY <1>1, FS_SUBSET
<1>3. {} \in SUBSET S
  OBVIOUS
<1> HIDE DEF S
<1>4. Cardinality(SUBSET S) \in Nat
  BY <1>2, FS_CardinalityType
<1>5. Cardinality(SUBSET S) # 0
  BY <1>2, <1>3, FS_EmptySet
<1> QED BY <1>2, <1>4, <1>5

LEMMA PowerSum ==
  ASSUME NEW s \in Nat, NEW t \in Nat
  PROVE  2 ^ (s + t) = 2 ^ s * 2 ^ t
<1> DEFINE A == 1 .. s
           B == (s + 1) .. (s + t)
           C == 1 .. (s + t)
           f == [ab \in (SUBSET A) \X (SUBSET B) |-> ab[1] \cup ab[2]]
<1>1. IsFiniteSet(A) /\ Cardinality(A) = s
  BY FS_Interval
<1>2. IsFiniteSet(B) /\ Cardinality(B) = t
  BY FS_Interval
<1>3. IsFiniteSet(C) /\ Cardinality(C) = s + t
  <2>1. s + t \in Nat
    OBVIOUS
  <2> QED BY <2>1, FS_Interval
<1>4. A \cup B = C /\ A \cap B = {}
  OBVIOUS
<1> HIDE DEF A, B, C
<1>5. IsFiniteSet(SUBSET A) /\ Cardinality(SUBSET A) = 2 ^ s
  BY <1>1, FS_SUBSET
<1>6. IsFiniteSet(SUBSET B) /\ Cardinality(SUBSET B) = 2 ^ t
  BY <1>2, FS_SUBSET
<1>7. IsFiniteSet(SUBSET C) /\ Cardinality(SUBSET C) = 2 ^ (s + t)
  BY <1>3, FS_SUBSET
<1>8. /\ IsFiniteSet((SUBSET A) \X (SUBSET B))
      /\ Cardinality((SUBSET A) \X (SUBSET B)) = 2 ^ s * 2 ^ t
  BY <1>5, <1>6, FS_Product
<1>9. f \in Bijection((SUBSET A) \X (SUBSET B), SUBSET C)
  <2>1. f \in [(SUBSET A) \X (SUBSET B) -> SUBSET C]
    BY <1>4
  <2>2. ASSUME NEW x \in (SUBSET A) \X (SUBSET B), NEW y \in (SUBSET A) \X (SUBSET B), f[x] = f[y]
        PROVE  x = y
    <3>1. x[1] \cup x[2] = y[1] \cup y[2]
      BY <2>2
    <3>2. x[1] = (x[1] \cup x[2]) \cap A /\ y[1] = (y[1] \cup y[2]) \cap A
      BY <1>4
    <3>3. x[2] = (x[1] \cup x[2]) \cap B /\ y[2] = (y[1] \cup y[2]) \cap B
      BY <1>4
    <3>4. x[1] = y[1] /\ x[2] = y[2]
      BY <3>1, <3>2, <3>3
    <3> QED BY <3>4
  <2>3. ASSUME NEW c \in SUBSET C
        PROVE  \E x \in (SUBSET A) \X (SUBSET B) : f[x] = c
    <3>1. <<c \cap A, c \cap B>> \in (SUBSET A) \X (SUBSET B)
      OBVIOUS
    <3>2. f[<<c \cap A, c \cap B>>] = c
      BY <1>4, <3>1
    <3> QED BY <3>1, <3>2
  <2>4. f \in Injection((SUBSET A) \X (SUBSET B), SUBSET C)
    <3> HIDE DEF f
    <3> QED BY <2>1, <2>2 DEF Injection, IsInjective
  <2>5. f \in Surjection((SUBSET A) \X (SUBSET B), SUBSET C)
    <3> HIDE DEF f
    <3> QED BY <2>1, <2>3 DEF Surjection
  <2> QED BY <2>4, <2>5 DEF Bijection
<1>10. Cardinality((SUBSET A) \X (SUBSET B)) = Cardinality(SUBSET C)
  <2> HIDE DEF f
  <2>1. ExistsBijection((SUBSET A) \X (SUBSET B), SUBSET C)
    BY <1>9 DEF ExistsBijection
  <2> QED BY <1>8, <2>1, FS_Bijection
<1> QED BY <1>7, <1>8, <1>10

LEMMA DivProduct ==
  ASSUME NEW a \in Nat, NEW P \in Nat \ {0}, NEW Q \in Nat \ {0}
  PROVE  a \div (P * Q) = (a \div P) \div Q
OBVIOUS

LEMMA DivNat ==
  ASSUME NEW a \in Nat, NEW P \in Nat \ {0}
  PROVE  a \div P \in Nat /\ a % P \in 0 .. P - 1 /\ a = P * (a \div P) + (a % P)
OBVIOUS

LEMMA NibNat == Nib \in Nat /\ Nib + 1 = 2 ^ Slice /\ Slice \in Nat \ {0} /\ Width \in Nat
<1>1. Slice \in Nat \ {0} /\ Width \in Nat
  BY CritnibAssumption DEF CritnibAssumption
<1>2. 2 ^ Slice \in Nat \ {0}
  BY <1>1, PowerNat
<1> QED BY <1>1, <1>2 DEF Nib

LEMMA SliceInSlots ==
  ASSUME NEW a \in Nat, NEW sh \in Nat
  PROVE  SliceIndex(a, sh) \in Slots
<1>1. 2 ^ sh \in Nat \ {0}
  BY PowerNat
<1>2. a \div 2 ^ sh \in Nat
  BY <1>1, DivNat
<1>3. Nib + 1 \in Nat \ {0}
  BY NibNat
<1>4. (a \div 2 ^ sh) % (Nib + 1) \in 0 .. (Nib + 1) - 1
  BY <1>2, <1>3, DivNat
<1> QED BY <1>4, NibNat DEF SliceIndex, Slots

(* What is left of a key above a node's shift, and above its slice. *)
Above(a, s) == a \div 2 ^ s

LEMMA AboveNat ==
  ASSUME NEW a \in Nat, NEW s \in Nat
  PROVE  Above(a, s) \in Nat
BY PowerNat, DivNat DEF Above

LEMMA AboveSum ==
  ASSUME NEW a \in Nat, NEW s \in Nat, NEW t \in Nat
  PROVE  Above(a, s + t) = Above(a, s) \div 2 ^ t
<1>1. 2 ^ s \in Nat \ {0} /\ 2 ^ t \in Nat \ {0} /\ 2 ^ (s + t) = 2 ^ s * 2 ^ t
  BY PowerNat, PowerSum
<1>2. a \div (2 ^ s * 2 ^ t) = (a \div 2 ^ s) \div 2 ^ t
  BY <1>1, DivProduct
<1> QED BY <1>1, <1>2 DEF Above

(* Keys that agree above a bit agree above every higher bit. *)
LEMMA AgreeHigher ==
  ASSUME NEW a \in Nat, NEW b \in Nat, NEW s \in Nat, NEW t \in Nat, s <= t,
         Above(a, s) = Above(b, s)
  PROVE  Above(a, t) = Above(b, t)
<1>1. t = s + (t - s) /\ t - s \in Nat
  OBVIOUS
<1>2. Above(a, s + (t - s)) = Above(a, s) \div 2 ^ (t - s)
  BY <1>1, AboveSum
<1>3. Above(b, s + (t - s)) = Above(b, s) \div 2 ^ (t - s)
  BY <1>1, AboveSum
<1> QED BY <1>1, <1>2, <1>3

LEMMA AboveSlice ==
  ASSUME NEW a \in Nat, NEW s \in Nat
  PROVE  Above(a, s) = Above(a, s + Slice) * (Nib + 1) + SliceIndex(a, s)
<1>1. Above(a, s + Slice) = Above(a, s) \div (Nib + 1)
  BY NibNat, AboveSum
<1>2. Nib + 1 \in Nat \ {0}
  BY NibNat
<1>3. Above(a, s) \in Nat
  BY AboveNat
<1>4. SliceIndex(a, s) = Above(a, s) % (Nib + 1)
  BY DEF SliceIndex, Above
<1>5. Above(a, s) = (Nib + 1) * (Above(a, s) \div (Nib + 1)) + (Above(a, s) % (Nib + 1))
  BY <1>2, <1>3, DivNat
<1>6. Above(a, s) \div (Nib + 1) \in Nat
  BY <1>2, <1>3, DivNat
<1>7. (Nib + 1) * (Above(a, s) \div (Nib + 1)) = (Above(a, s) \div (Nib + 1)) * (Nib + 1)
  BY <1>2, <1>6
<1> QED BY <1>1, <1>3, <1>4, <1>5, <1>6, <1>7

(* They agree above a slice and in it if and only if they agree above its lowest bit. *)
LEMMA AgreeSlice ==
  ASSUME NEW a \in Nat, NEW b \in Nat, NEW s \in Nat
  PROVE  Above(a, s) = Above(b, s) <=>
             Above(a, s + Slice) = Above(b, s + Slice) /\ SliceIndex(a, s) = SliceIndex(b, s)
<1>1. Above(a, s) = Above(b, s) => Above(a, s + Slice) = Above(b, s + Slice)
  BY NibNat, AgreeHigher
<1>2. Above(a, s) = Above(b, s) => SliceIndex(a, s) = SliceIndex(b, s)
  BY DEF Above, SliceIndex
<1> QED BY <1>1, <1>2, AboveSlice

LEMMA PathIs ==
  ASSUME NEW a \in Nat, NEW s \in Nat
  PROVE  /\ PathOf(a, s) = 2 ^ (s + Slice) * Above(a, s + Slice)
         /\ PathOf(a, s) \in Nat /\ PathOf(a, s) <= a
         /\ Above(PathOf(a, s), s + Slice) = Above(a, s + Slice)
<1> DEFINE M == 2 ^ (s + Slice)
<1>1. M \in Nat \ {0}
  BY NibNat, PowerNat
<1>2. a \div M \in Nat /\ a % M \in 0 .. M - 1 /\ a = M * (a \div M) + (a % M)
  BY <1>1, DivNat
<1>3. PathOf(a, s) = a - (a % M) /\ Above(a, s + Slice) = a \div M
  BY DEF PathOf, Above
<1>4. PathOf(a, s) = M * (a \div M)
  <2>1. M * (a \div M) \in Nat
    BY <1>1, <1>2
  <2> HIDE DEF M
  <2> QED BY <1>2, <1>3, <2>1
<1>5. PathOf(a, s) \in Nat /\ PathOf(a, s) <= a
  <2> HIDE DEF M
  <2> QED BY <1>1, <1>2, <1>3
<1>6. (M * (a \div M)) \div M = a \div M
  <2> DEFINE c == a \div M
  <2> HIDE DEF M, c
  <2>1. c \in Nat
    BY <1>2 DEF c
  <2>2. (M * c) \div M = c
    BY <1>1, <2>1
  <2> QED BY <2>2 DEF c
<1>7. Above(PathOf(a, s), s + Slice) = PathOf(a, s) \div M
  BY DEF Above
<1> QED BY <1>3, <1>4, <1>5, <1>6, <1>7

(* Two keys have a path in common if and only if they agree above its slice. *)
LEMMA SamePath ==
  ASSUME NEW a \in Nat, NEW b \in Nat, NEW s \in Nat
  PROVE  PathOf(a, s) = PathOf(b, s) <=> Above(a, s + Slice) = Above(b, s + Slice)
<1>1. PathOf(a, s) = 2 ^ (s + Slice) * Above(a, s + Slice)
  BY PathIs
<1>2. PathOf(b, s) = 2 ^ (s + Slice) * Above(b, s + Slice)
  BY PathIs
<1>3. Above(PathOf(a, s), s + Slice) = Above(a, s + Slice)
  BY PathIs
<1>4. Above(PathOf(b, s), s + Slice) = Above(b, s + Slice)
  BY PathIs
<1> QED BY <1>1, <1>2, <1>3, <1>4

LEMMA PathOfPath ==
  ASSUME NEW a \in Nat, NEW s \in Nat
  PROVE  PathOf(PathOf(a, s), s) = PathOf(a, s)
BY PathIs, SamePath

(***************************************************************************)
(* The highest slice in which two keys differ                              *)
(***************************************************************************)
Words == 0 .. 2 ^ Width - 1
Shifts == {Slice * i : i \in 0 .. Width}

LEMMA WordsNat == Words \subseteq Nat /\ Keys \subseteq Words /\ 0 \in Words /\ Shifts \subseteq Nat
<1>1. 2 ^ Width \in Nat \ {0}
  BY NibNat, PowerNat
<1>2. Shifts \subseteq Nat
  BY NibNat DEF Shifts
<1> QED BY <1>1, <1>2, CritnibAssumption DEF Words, CritnibAssumption

LEMMA AboveZero ==
  ASSUME NEW a \in Nat
  PROVE  Above(a, 0) = a
<1>1. 2 ^ 0 = 1
  OBVIOUS
<1> QED BY <1>1 DEF Above

LEMMA AboveAll ==
  ASSUME NEW a \in Words
  PROVE  Above(a, Slice * Width) = 0
<1>1. 2 ^ Width \in Nat \ {0} /\ Width \in Nat
  BY NibNat, PowerNat
<1>2. Above(a, Width) = 0
  BY <1>1 DEF Above, Words
<1>3. Above(0, Width) = 0
  BY <1>1 DEF Above
<1>4. Slice * Width \in Nat /\ Width <= Slice * Width
  BY NibNat
<1>5. Above(a, Slice * Width) = Above(0, Slice * Width)
  BY <1>1, <1>2, <1>3, <1>4, WordsNat, AgreeHigher
<1>6. Above(0, Slice * Width) = 0
  BY <1>4, PowerNat DEF Above
<1> QED BY <1>5, <1>6

LEMMA FirstDifferenceIs ==
  ASSUME NEW a \in Words, NEW b \in Words, a # b
  PROVE  /\ FirstDifference(a, b) \in Shifts
         /\ Above(a, FirstDifference(a, b)) # Above(b, FirstDifference(a, b))
         /\ Above(a, FirstDifference(a, b) + Slice) = Above(b, FirstDifference(a, b) + Slice)
<1> DEFINE Same(i) == Above(a, Slice * i) = Above(b, Slice * i)
           S == {i \in Nat : Same(i)}
<1>1. Width \in S
  BY NibNat, AboveAll
<1>2. 0 \notin S
  BY WordsNat, AboveZero, NibNat
<1>3. PICK j \in S : \A i \in S : j <= i
  <2>1. S \in SUBSET Nat /\ S # {}
    BY <1>1
  <2> HIDE DEF S
  <2> QED BY <2>1, Least
<1>4. j \in Nat \ {0} /\ j <= Width
  BY <1>1, <1>2, <1>3
<1>5. j - 1 \in 0 .. Width /\ ~ Same(j - 1)
  BY <1>3, <1>4, NibNat
<1>6. Slice * (j - 1) + Slice = Slice * j
  BY <1>4, NibNat
<1>7. Same(j)
  OBVIOUS
<1> DEFINE P(s) == /\ a \div 2 ^ s # b \div 2 ^ s
                   /\ a \div 2 ^ (s + Slice) = b \div 2 ^ (s + Slice)
<1>8. Slice * (j - 1) \in Shifts /\ P(Slice * (j - 1))
  BY <1>5, <1>6, <1>7 DEF Above, Shifts
<1>9. FirstDifference(a, b) = CHOOSE s \in Shifts : P(s)
  BY DEF FirstDifference, Shifts
<1>10. FirstDifference(a, b) \in Shifts /\ P(FirstDifference(a, b))
  <2> HIDE DEF P
  <2> QED BY <1>8, <1>9
<1> QED BY <1>10 DEF Above

(* There the slices differ, and both keys are on the node's path. *)
LEMMA FirstDifferenceTells ==
  ASSUME NEW a \in Words, NEW b \in Words, a # b
  PROVE  LET sh == FirstDifference(a, b) IN
         /\ sh \in Shifts /\ sh \in Nat
         /\ SliceIndex(a, sh) # SliceIndex(b, sh)
         /\ PathOf(a, sh) = PathOf(b, sh)
<1> DEFINE sh == FirstDifference(a, b)
<1>1. /\ sh \in Shifts
      /\ Above(a, sh) # Above(b, sh)
      /\ Above(a, sh + Slice) = Above(b, sh + Slice)
  BY FirstDifferenceIs
<1> HIDE DEF sh
<1>2. sh \in Nat /\ a \in Nat /\ b \in Nat
  BY <1>1, WordsNat
<1> QED BY <1>1, <1>2, AgreeSlice, SamePath DEF sh

(* Of two shifts the lower is lower by a slice at least. *)
LEMMA ShiftsApart ==
  ASSUME NEW s \in Shifts, NEW t \in Shifts, s < t
  PROVE  s + Slice <= t
<1>1. PICK i \in 0 .. Width : s = Slice * i
  BY DEF Shifts
<1>2. PICK j \in 0 .. Width : t = Slice * j
  BY DEF Shifts
<1>3. i \in Nat /\ j \in Nat /\ Slice \in Nat \ {0}
  BY NibNat
<1>4. i < j
  <2> SUFFICES ASSUME j <= i
               PROVE  FALSE
    BY <1>3
  <2>1. Slice * j <= Slice * i
    BY <1>3
  <2> QED BY <2>1, <1>1, <1>2, <1>3
<1>5. i + 1 <= j
  BY <1>3, <1>4
<1>6. Slice * (i + 1) <= Slice * j
  BY <1>3, <1>5
<1>7. Slice * (i + 1) = Slice * i + Slice
  BY <1>3
<1> QED BY <1>1, <1>2, <1>6, <1>7

(***************************************************************************)
(* What is where                                                           *)
(***************************************************************************)
Links == (UNION {ValuesOf[k] : k \in Keys}) \cup Leaves \cup {Null}

(* A node's path has no bits in the node's slice or below it. *)
NodesTyped ==
  /\ node \in [Nodes -> [child : [Slots -> Pointers], path : Words, shift : Shifts]]
  /\ \A n \in Nodes : Inside(node[n].path, n)

WriterTyped ==
  \/ writer = Idle
  \/ writer \in [pc : {"place"}, leaf : Leaves]
  \/ writer \in [pc : {"link"}, leaf : Leaves, node : Nodes, parent : AllPlaces]
  \/ writer \in [pc : {"reclaim", "unlink"}, key : Keys, del : Ages]
  \/ writer \in [pc : {"collapse"}, del : Ages, leaf : Leaves, node : Nodes,
                 parent : AllPlaces]

Typed ==
  /\ root \in Pointers
  /\ NodesTyped
  /\ leaf \in [Leaves -> [key : Words, value : Links]]
  /\ pendingNodes \in [Ages -> Nodes \cup {Null}]
  /\ pendingLeaves \in [Ages -> Leaves \cup {Null}]
  /\ removeCount \in 0 .. MaxRemoves
  /\ WriterTyped

Tree == Sub(node, root)

NextNode == [n \in Nodes |-> node[n].child[0]]
NextLeaf == [k \in Leaves |-> leaf[k].value]

FreeNodes == Chain(NextNode, deletedNode)
FreeLeaves == Chain(NextLeaf, deletedLeaf)

Rests(x, d) == pendingNodes[d] = x \/ pendingLeaves[d] = x
Resting == {x \in Nodes \cup Leaves : \E d \in Ages : Rests(x, d)}

(* Everything malloc gave is in one place. *)
OwnedOnce ==
  /\ taken = Tree \cup InHand \cup FreeNodes \cup FreeLeaves \cup Resting
  /\ Tree \cap (InHand \cup FreeNodes \cup FreeLeaves \cup Resting) = {}
  /\ InHand \cap (FreeNodes \cup FreeLeaves \cup Resting) = {}
  /\ Resting \cap (FreeNodes \cup FreeLeaves) = {}
  /\ \A d, e \in Ages : /\ pendingNodes[d] = pendingNodes[e] /\ pendingNodes[d] # Null => d = e
                        /\ pendingLeaves[d] = pendingLeaves[e] /\ pendingLeaves[d] # Null => d = e

PoolsEnd == Ends(NextNode, deletedNode) /\ Ends(NextLeaf, deletedLeaf)

(* The new node stands before what the place keeps; the old one has one child. *)
LinkReady ==
  writer.pc = "link" =>
    /\ writer.parent \in PlacesOf(Tree)
    /\ Pointer(writer.parent) # Null
    /\ \E i, j \in Slots :
          /\ i # j
          /\ node[writer.node].child[i] = writer.leaf
          /\ node[writer.node].child[j] = Pointer(writer.parent)
          /\ \A h \in Slots \ {i, j} : node[writer.node].child[h] = Null

CollapseReady ==
  writer.pc = "collapse" =>
    /\ writer.parent \in PlacesOf(Tree)
    /\ Pointer(writer.parent) = writer.node
    /\ \E o \in Slots :
          /\ node[writer.node].child[o] # Null
          /\ \A h \in Slots \ {o} : node[writer.node].child[h] = Null

SlotFree ==
  writer.pc \in {"unlink", "collapse"} =>
    pendingNodes[writer.del] = Null /\ pendingLeaves[writer.del] = Null

HandReady == LinkReady /\ CollapseReady /\ SlotFree

Core == Typed /\ OwnedOnce /\ PoolsEnd /\ Unique(node, root) /\ HandReady

LEMMA LinksHold ==
  /\ Leaves \subseteq Links /\ Null \in Links
  /\ \A key \in Keys : ValuesOf[key] \subseteq Links
<1> DEFINE V == UNION {ValuesOf[k] : k \in Keys}
<1>1. \A key \in Keys : ValuesOf[key] \subseteq V
  OBVIOUS
<1>2. Links = V \cup Leaves \cup {Null}
  BY DEF Links
<1> HIDE DEF V
<1> QED BY <1>1, <1>2

LEMMA PoolsAre ==
  /\ NodePool(deletedNode) = FreeNodes
  /\ LeafPool(deletedLeaf) = FreeLeaves
  /\ \A n \in Nodes : NodePool(node[n].child[0]) = Chain(NextNode, NextNode[n])
  /\ \A k \in Leaves : LeafPool(leaf[k].value) = Chain(NextLeaf, NextLeaf[k])
<1>1. \A p : NodePool(p) = Chain(NextNode, p)
  BY DEF NodePool, Chain, NextNode
<1>2. \A p : LeafPool(p) = Chain(NextLeaf, p)
  BY DEF LeafPool, Chain, NextLeaf
<1> QED BY <1>1, <1>2 DEF FreeNodes, FreeLeaves, NextNode, NextLeaf

LEMMA PointerIs ==
  ASSUME NEW at
  PROVE  Pointer(at) = Ptr(node, root, at)
BY DEF Pointer, Ptr

LEMMA FreeAre ==
  FreeNodes \subseteq Nodes /\ FreeLeaves \subseteq Leaves
BY ChainDomain DEF FreeNodes, FreeLeaves, NextNode, NextLeaf

LEMMA TreeIn ==
  ASSUME Typed
  PROVE  Tree \subseteq Nodes \cup Leaves
<1>1. \A n \in Nodes : \A i \in Slots : node[n].child[i] \in Pointers
  BY DEF Typed, NodesTyped
<1> QED BY <1>1, SubTyped DEF Tree, Typed

LEMMA InTree ==
  ASSUME NEW at \in PlacesOf(Tree), Pointer(at) # Null
  PROVE  Pointer(at) \in Tree
BY PointerIs, SubHolds DEF Tree

LEMMA ZeroInSlots == 0 \in Slots
BY NibNat DEF Slots

LEMMA NodeTyped ==
  ASSUME Typed, NEW n \in Nodes
  PROVE  /\ node[n] \in [child : [Slots -> Pointers], path : Words, shift : Shifts]
         /\ node[n].path \in Nat /\ node[n].shift \in Nat
         /\ node[n].path \in Words /\ node[n].shift \in Shifts
         /\ Inside(node[n].path, n)
         /\ \A i \in Slots : node[n].child[i] \in Pointers
         /\ node[n].child[0] \in Pointers
<1>1. /\ node[n] \in [child : [Slots -> Pointers], path : Words, shift : Shifts]
      /\ Inside(node[n].path, n)
  BY DEF Typed, NodesTyped
<1> QED BY <1>1, WordsNat, ZeroInSlots

LEMMA LeafTyped ==
  ASSUME Typed, NEW k \in Leaves
  PROVE  leaf[k].key \in Words /\ leaf[k].key \in Nat /\ leaf[k].value \in Links
BY WordsNat DEF Typed

LEMMA WriterCases ==
  ASSUME Typed
  PROVE  /\ writer.pc \in {"idle", "place", "link", "reclaim", "unlink", "collapse"}
         /\ writer.pc = "idle" => writer = Idle
         /\ writer.pc = "place" => writer \in [pc : {"place"}, leaf : Leaves]
         /\ writer.pc = "link" =>
              writer \in [pc : {"link"}, leaf : Leaves, node : Nodes, parent : AllPlaces]
         /\ writer.pc \in {"reclaim", "unlink"} =>
              writer \in [pc : {"reclaim", "unlink"}, key : Keys, del : Ages]
         /\ writer.pc = "collapse" =>
              writer \in [pc : {"collapse"}, del : Ages, leaf : Leaves, node : Nodes,
                          parent : AllPlaces]
<1>1. CASE writer = Idle
  BY <1>1 DEF Idle
<1>2. CASE writer \in [pc : {"place"}, leaf : Leaves]
  BY <1>2
<1>3. CASE writer \in [pc : {"link"}, leaf : Leaves, node : Nodes, parent : AllPlaces]
  BY <1>3
<1>4. CASE writer \in [pc : {"reclaim", "unlink"}, key : Keys, del : Ages]
  BY <1>4
<1>5. CASE writer \in [pc : {"collapse"}, del : Ages, leaf : Leaves, node : Nodes,
                       parent : AllPlaces]
  BY <1>5
<1> QED BY <1>1, <1>2, <1>3, <1>4, <1>5 DEF Typed, WriterTyped

LEMMA HandIs ==
  ASSUME Typed
  PROVE  /\ writer.pc \in {"place", "collapse"} => writer.leaf \in Leaves /\ InHand = {writer.leaf}
         /\ writer.pc = "link" => /\ writer.leaf \in Leaves /\ writer.node \in Nodes
                                  /\ InHand = {writer.leaf, writer.node}
         /\ writer.pc \in {"idle", "reclaim", "unlink"} => InHand = {}
BY WriterCases DEF InHand

(* A writer walks down the tree, and stops at one of its places. *)
LEMMA WayInTree ==
  ASSUME Typed, NEW key \in Nat, NEW S \in SUBSET Nodes, NEW at \in Way(key, S)
  PROVE  /\ at \in PlacesOf(Tree)
         /\ at \in AllPlaces
         /\ at # RootPlace => at[1] \in S \cap Tree /\ at = On(key, at[1]) /\ at[2] \in Slots
<1> DEFINE links == [n \in S |-> {Pointer(On(key, n))}]
           R == Tree \cap S
<1>0. \A n \in S : SliceIndex(key, node[n].shift) \in Slots
  BY NodeTyped, SliceInSlots
<1>1. {root} \cap DOMAIN links \subseteq R
  BY NullApart, SubStarts DEF Tree
<1>2. ASSUME NEW n \in R
      PROVE  links[n] \cap DOMAIN links \subseteq R
  <2>1. Pointer(On(key, n)) = node[n].child[SliceIndex(key, node[n].shift)]
    BY NotRootPlace DEF Pointer, On
  <2>2. Pointer(On(key, n)) \in S => Pointer(On(key, n)) \in Tree
    BY <1>0, <2>1, NullApart, SubGoesOn DEF Tree
  <2> QED BY <2>2
<1>3. Reach({root}, links) \subseteq R
  <2>1. DOMAIN links = S /\ R \in SUBSET S
    OBVIOUS
  <2> HIDE DEF links, R
  <2> QED BY <1>1, <1>2, <2>1, ReachLeast
<1>4. CASE at = RootPlace
  BY <1>4 DEF PlacesOf, AllPlaces
<1>5. CASE at # RootPlace
  <2>1. PICK n \in Reach({root}, links) : at = On(key, n)
    BY <1>5 DEF Way
  <2>2. n \in Tree /\ n \in S /\ n \in Nodes
    BY <1>3
  <2>3. at = <<n, SliceIndex(key, node[n].shift)>> /\ SliceIndex(key, node[n].shift) \in Slots
    BY <1>0, <2>1, <2>2 DEF On
  <2>4. at[1] = n /\ at[2] \in Slots
    BY <2>3
  <2>5. at \in PlacesOf(Tree) /\ at \in AllPlaces
    BY <2>2, <2>3, PlaceOfNode DEF AllPlaces
  <2> QED BY <2>1, <2>2, <2>4, <2>5
<1> QED BY <1>4, <1>5

LEMMA SharedNodes ==
  ASSUME NEW key
  PROVE  Shared(key) \in SUBSET Nodes
BY DEF Shared

LEMMA StopInTree ==
  ASSUME Typed, NEW key \in Nat, NEW S \in SUBSET Nodes, NEW at \in Stops(key, S)
  PROVE  /\ at \in Way(key, S) /\ at \in PlacesOf(Tree) /\ at \in AllPlaces
         /\ at # RootPlace => at[1] \in S \cap Tree /\ at = On(key, at[1]) /\ at[2] \in Slots
         /\ Pointer(at) \notin S
         /\ Pointer(at) \in Pointers
         /\ Pointer(at) # Null => Pointer(at) \in Tree
<1>1. at \in Way(key, S) /\ Pointer(at) \notin S
  BY DEF Stops
<1>2. /\ at \in PlacesOf(Tree) /\ at \in AllPlaces
      /\ at # RootPlace => at[1] \in S \cap Tree /\ at = On(key, at[1]) /\ at[2] \in Slots
  BY <1>1, WayInTree
<1>3. Pointer(at) \in Pointers
  BY <1>2, NodeTyped DEF Pointer, Typed
<1> QED BY <1>1, <1>2, <1>3, InTree

LEMMA StoreIsStored ==
  ASSUME NodesTyped, root \in Pointers, NEW at \in AllPlaces, NEW q \in Pointers,
         Store(at, q)
  PROVE  /\ Stored(node, root, node', root', at, q)
         /\ NodesTyped'
         /\ root' \in Pointers
         /\ \A n \in Nodes : node'[n].path = node[n].path /\ node'[n].shift = node[n].shift
<1>1. CASE at = RootPlace
  <2>1. root' = q /\ node' = node
    BY <1>1 DEF Store
  <2> QED BY <1>1, <2>1 DEF Stored, Ptr, NodesTyped, Inside
<1>2. CASE at # RootPlace
  <2>1. at[1] \in Nodes /\ at[2] \in Slots /\ at = <<at[1], at[2]>>
    BY <1>2, PlaceCases DEF AllPlaces
  <2>2. root' = root /\ node' = [node EXCEPT ![at[1]].child[at[2]] = q]
    BY <1>2 DEF Store
  <2>3. \A n \in Nodes : \A i \in Slots :
            node'[n].child[i] = IF n = at[1] /\ i = at[2] THEN q ELSE node[n].child[i]
    BY <2>1, <2>2 DEF NodesTyped
  <2>5. \A n \in Nodes : node'[n].path = node[n].path /\ node'[n].shift = node[n].shift
    BY <2>1, <2>2 DEF NodesTyped
  <2>4. NodesTyped'
    <3>1. node' \in [Nodes -> [child : [Slots -> Pointers], path : Words, shift : Shifts]]
      BY <2>1, <2>2 DEF NodesTyped
    <3> QED BY <3>1, <2>5 DEF NodesTyped, Inside
  <2>6. ASSUME NEW b \in AllPlaces
        PROVE  Ptr(node', root', b) = IF b = at THEN q ELSE Ptr(node, root, b)
    <3>1. CASE b = RootPlace
      BY <3>1, <1>2, <2>2 DEF Ptr
    <3>2. CASE b # RootPlace
      <4>1. b[1] \in Nodes /\ b[2] \in Slots /\ b = <<b[1], b[2]>>
        BY <3>2, PlaceCases DEF AllPlaces
      <4>2. b = at <=> b[1] = at[1] /\ b[2] = at[2]
        BY <4>1, <2>1
      <4> QED BY <3>2, <4>1, <4>2, <2>3 DEF Ptr
    <3> QED BY <3>1, <3>2
  <2> QED BY <2>2, <2>4, <2>5, <2>6 DEF Stored
<1> QED BY <1>1, <1>2


(* A store in the tree changes no pool. *)
LEMMA StoreKeepsPool ==
  ASSUME Core, NEW at \in PlacesOf(Tree), NEW q \in Pointers, Store(at, q),
         deletedNode' = deletedNode
  PROVE  FreeNodes' = FreeNodes /\ Ends(NextNode, deletedNode)'
<1>0. at \in AllPlaces
  BY PlacesAll
<1>1. Stored(node, root, node', root', at, q)
  BY <1>0, StoreIsStored DEF Core, Typed
<1>2. ASSUME NEW n \in FreeNodes
      PROVE  NextNode'[n] = NextNode[n]
  <2>1. n \in Nodes /\ n \notin Tree
    BY FreeAre DEF Core, OwnedOnce
  <2>2. <<n, 0>> # at
    BY <2>1, PlaceCases, NotRootPlace
  <2>3. <<n, 0>> \in AllPlaces /\ \A nd, r : Ptr(nd, r, <<n, 0>>) = nd[n].child[0]
    BY <2>1, ZeroInSlots, PlaceOfNode DEF AllPlaces
  <2>4. node'[n].child[0] = node[n].child[0]
    BY <1>1, <2>2, <2>3 DEF Stored
  <2> QED BY <2>1, <2>4 DEF NextNode
<1>3. DOMAIN NextNode = Nodes /\ DOMAIN NextNode' = Nodes
  BY DEF NextNode
<1>4. Ends(NextNode, deletedNode)
  BY DEF Core, PoolsEnd
<1>5. Chain(NextNode', deletedNode) = Chain(NextNode, deletedNode) /\ Ends(NextNode', deletedNode)
  BY <1>2, <1>3, <1>4, ChainKept DEF FreeNodes
<1> QED BY <1>5 DEF FreeNodes

(***************************************************************************)
(* One step of a writer                                                    *)
(***************************************************************************)
LEMMA NextDomains ==
  /\ DOMAIN NextNode = Nodes /\ DOMAIN NextLeaf = Leaves
  /\ \A n \in Nodes : NextNode[n] = node[n].child[0]
  /\ \A k \in Leaves : NextLeaf[k] = leaf[k].value
BY DEF NextNode, NextLeaf

LEMMA NextDomainsLater ==
  /\ DOMAIN NextNode' = Nodes /\ DOMAIN NextLeaf' = Leaves
  /\ \A n \in Nodes : NextNode'[n] = node'[n].child[0]
  /\ \A k \in Leaves : NextLeaf'[k] = leaf'[k].value
BY DEF NextNode, NextLeaf

(* Leaves outside a pool change. *)
LEMMA LeavesChange ==
  ASSUME NEW p, Ends(NextLeaf, p),
         \A k \in Chain(NextLeaf, p) : leaf'[k].value = leaf[k].value
  PROVE  Chain(NextLeaf', p) = Chain(NextLeaf, p) /\ Ends(NextLeaf', p)
<1>1. \A k \in Chain(NextLeaf, p) : NextLeaf'[k] = NextLeaf[k]
  BY ChainDomain, NextDomains, NextDomainsLater
<1> QED BY <1>1, ChainKept, NextDomains, NextDomainsLater

LEMMA NodesChange ==
  ASSUME NEW p, Ends(NextNode, p),
         \A n \in Chain(NextNode, p) : node'[n].child[0] = node[n].child[0]
  PROVE  Chain(NextNode', p) = Chain(NextNode, p) /\ Ends(NextNode', p)
<1>1. \A n \in Chain(NextNode, p) : NextNode'[n] = NextNode[n]
  BY ChainDomain, NextDomains, NextDomainsLater
<1> QED BY <1>1, ChainKept, NextDomains, NextDomainsLater

(* A leaf is put into the pool. *)
LEMMA LeafPushed ==
  ASSUME PoolsEnd, NEW x \in Leaves, x \notin FreeLeaves, leaf'[x].value = deletedLeaf,
         \A k \in FreeLeaves : leaf'[k].value = leaf[k].value, deletedLeaf' = x
  PROVE  FreeLeaves' = {x} \cup FreeLeaves /\ Ends(NextLeaf, deletedLeaf)'
<1>1. \A k \in Chain(NextLeaf, deletedLeaf) : NextLeaf'[k] = NextLeaf[k]
  BY ChainDomain, NextDomains, NextDomainsLater DEF FreeLeaves
<1>2. NextLeaf'[x] = deletedLeaf
  BY NextDomainsLater
<1>3. Chain(NextLeaf', x) = {x} \cup Chain(NextLeaf, deletedLeaf) /\ Ends(NextLeaf', x)
  BY <1>1, <1>2, ChainPush, NextDomains, NextDomainsLater DEF FreeLeaves, PoolsEnd
<1> QED BY <1>3 DEF FreeLeaves

LEMMA NodePushed ==
  ASSUME PoolsEnd, NEW x \in Nodes, x \notin FreeNodes, node'[x].child[0] = deletedNode,
         \A n \in FreeNodes : node'[n].child[0] = node[n].child[0], deletedNode' = x
  PROVE  FreeNodes' = {x} \cup FreeNodes /\ Ends(NextNode, deletedNode)'
<1>1. \A n \in Chain(NextNode, deletedNode) : NextNode'[n] = NextNode[n]
  BY ChainDomain, NextDomains, NextDomainsLater DEF FreeNodes
<1>2. NextNode'[x] = deletedNode
  BY NextDomainsLater
<1>3. Chain(NextNode', x) = {x} \cup Chain(NextNode, deletedNode) /\ Ends(NextNode', x)
  BY <1>1, <1>2, ChainPush, NextDomains, NextDomainsLater DEF FreeNodes, PoolsEnd
<1> QED BY <1>3 DEF FreeNodes

(* A leaf is taken from the pool, or from malloc. *)
LEMMA LeafTaken ==
  ASSUME Core, NEW x \in Leaves,
         IF deletedLeaf # Null
         THEN x = deletedLeaf /\ deletedLeaf' = leaf[x].value /\ UNCHANGED taken
         ELSE x \notin taken /\ taken' = taken \cup {x} /\ UNCHANGED deletedLeaf,
         \A k \in Leaves \ {x} : leaf'[k].value = leaf[k].value
  PROVE  /\ taken' = taken \cup {x}
         /\ FreeLeaves' = FreeLeaves \ {x}
         /\ Ends(NextLeaf, deletedLeaf)'
         /\ x \notin Tree \cup InHand \cup FreeNodes \cup Resting
<1>0. Ends(NextLeaf, deletedLeaf) /\ FreeLeaves \subseteq Leaves
  BY FreeAre DEF Core, PoolsEnd
<1>1. CASE deletedLeaf # Null
  <2>1. x = deletedLeaf /\ deletedLeaf' = NextLeaf[x] /\ taken' = taken
    BY <1>1, NextDomains
  <2>2. x \in DOMAIN NextLeaf
    BY NextDomains
  <2>3. x \in FreeLeaves
    BY <2>1, <2>2, ChainStarts DEF FreeLeaves
  <2>4. Chain(NextLeaf, NextLeaf[x]) = FreeLeaves \ {x} /\ Ends(NextLeaf, NextLeaf[x])
    BY <1>0, <2>1, <2>2, ChainPop DEF FreeLeaves
  <2>5. \A k \in Chain(NextLeaf, NextLeaf[x]) : leaf'[k].value = leaf[k].value
    BY <1>0, <2>4
  <2>6. Chain(NextLeaf', NextLeaf[x]) = FreeLeaves \ {x} /\ Ends(NextLeaf', NextLeaf[x])
    BY <2>4, <2>5, LeavesChange
  <2>7. x \in taken /\ x \notin Tree \cup InHand \cup FreeNodes \cup Resting
    BY <2>3, FreeAre, NullApart DEF Core, OwnedOnce
  <2> QED BY <2>1, <2>6, <2>7 DEF FreeLeaves
<1>2. CASE deletedLeaf = Null
  <2>1. x \notin taken /\ taken' = taken \cup {x} /\ deletedLeaf' = deletedLeaf
    BY <1>2
  <2>2. x \notin FreeLeaves /\ x \notin Tree \cup InHand \cup FreeNodes \cup Resting
    BY <2>1 DEF Core, OwnedOnce
  <2>3. \A k \in Chain(NextLeaf, deletedLeaf) : leaf'[k].value = leaf[k].value
    BY <1>0, <2>2 DEF FreeLeaves
  <2>4. Chain(NextLeaf', deletedLeaf) = FreeLeaves /\ Ends(NextLeaf', deletedLeaf)
    BY <1>0, <2>3, LeavesChange DEF FreeLeaves
  <2> QED BY <2>1, <2>2, <2>4 DEF FreeLeaves
<1> QED BY <1>1, <1>2

LEMMA NodeTaken ==
  ASSUME Core, NEW x \in Nodes,
         IF deletedNode # Null
         THEN x = deletedNode /\ deletedNode' = node[x].child[0] /\ UNCHANGED taken
         ELSE x \notin taken /\ taken' = taken \cup {x} /\ UNCHANGED deletedNode,
         \A n \in Nodes \ {x} : node'[n] = node[n]
  PROVE  /\ taken' = taken \cup {x}
         /\ FreeNodes' = FreeNodes \ {x}
         /\ Ends(NextNode, deletedNode)'
         /\ x \notin Tree \cup InHand \cup FreeLeaves \cup Resting
<1>0. Ends(NextNode, deletedNode) /\ FreeNodes \subseteq Nodes
  BY FreeAre DEF Core, PoolsEnd
<1>1. CASE deletedNode # Null
  <2>1. x = deletedNode /\ deletedNode' = NextNode[x] /\ taken' = taken
    BY <1>1, NextDomains
  <2>2. x \in DOMAIN NextNode
    BY NextDomains
  <2>3. x \in FreeNodes
    BY <2>1, <2>2, ChainStarts DEF FreeNodes
  <2>4. Chain(NextNode, NextNode[x]) = FreeNodes \ {x} /\ Ends(NextNode, NextNode[x])
    BY <1>0, <2>1, <2>2, ChainPop DEF FreeNodes
  <2>5. \A n \in Chain(NextNode, NextNode[x]) : node'[n].child[0] = node[n].child[0]
    BY <1>0, <2>4
  <2>6. Chain(NextNode', NextNode[x]) = FreeNodes \ {x} /\ Ends(NextNode', NextNode[x])
    BY <2>4, <2>5, NodesChange
  <2>7. x \in taken /\ x \notin Tree \cup InHand \cup FreeLeaves \cup Resting
    BY <2>3, FreeAre, NullApart DEF Core, OwnedOnce
  <2> QED BY <2>1, <2>6, <2>7 DEF FreeNodes
<1>2. CASE deletedNode = Null
  <2>1. x \notin taken /\ taken' = taken \cup {x} /\ deletedNode' = deletedNode
    BY <1>2
  <2>2. x \notin FreeNodes /\ x \notin Tree \cup InHand \cup FreeLeaves \cup Resting
    BY <2>1 DEF Core, OwnedOnce
  <2>3. \A n \in Chain(NextNode, deletedNode) : node'[n].child[0] = node[n].child[0]
    BY <1>0, <2>2 DEF FreeNodes
  <2>4. Chain(NextNode', deletedNode) = FreeNodes /\ Ends(NextNode', deletedNode)
    BY <1>0, <2>3, NodesChange DEF FreeNodes
  <2> QED BY <2>1, <2>2, <2>4 DEF FreeNodes
<1> QED BY <1>1, <1>2

(* Steps that leave the nodes, or the leaves, and the pool as they are. *)
LEMMA NodesStay ==
  ASSUME Core, UNCHANGED <<root, node, deletedNode>>
  PROVE  /\ Tree' = Tree /\ FreeNodes' = FreeNodes
         /\ Ends(NextNode, deletedNode)' /\ Unique(node, root)'
         /\ \A at : Pointer(at)' = Pointer(at)
         /\ NodesTyped' /\ root' \in Pointers
BY DEF Core, Tree, FreeNodes, NextNode, PoolsEnd, Pointer, Typed, NodesTyped, Inside

LEMMA LeavesStay ==
  ASSUME Core, UNCHANGED <<leaf, deletedLeaf>>
  PROVE  /\ FreeLeaves' = FreeLeaves
         /\ Ends(NextLeaf, deletedLeaf)'
         /\ leaf' \in [Leaves -> [key : Words, value : Links]]
BY DEF Core, FreeLeaves, NextLeaf, PoolsEnd, Typed

LEMMA PendingStays ==
  ASSUME Typed, UNCHANGED <<pendingNodes, pendingLeaves>>
  PROVE  /\ Resting' = Resting
         /\ pendingNodes' \in [Ages -> Nodes \cup {Null}]
         /\ pendingLeaves' \in [Ages -> Leaves \cup {Null}]
BY DEF Typed, Resting, Rests

LEMMA InsertBeginCore ==
  ASSUME Core, NEW key \in Keys, NEW value \in ValuesOf[key], InsertBegin(key, value)
  PROVE  Core' /\ Tree' = Tree
<1>1. PICK k \in Leaves :
        /\ IF deletedLeaf # Null
           THEN k = deletedLeaf /\ deletedLeaf' = leaf[k].value /\ UNCHANGED taken
           ELSE k \notin taken /\ taken' = taken \cup {k} /\ UNCHANGED deletedLeaf
        /\ leaf' = [leaf EXCEPT ![k] = [key |-> key, value |-> value]]
        /\ writer' = [pc |-> "place", leaf |-> k]
  BY DEF InsertBegin
<1>2. UNCHANGED <<root, node, deletedNode, pendingNodes, pendingLeaves, removeCount>>
  BY DEF InsertBegin, tree
<1>3. InHand = {} /\ InHand' = {k}
  BY <1>1, HandIs DEF InsertBegin, Idle, InHand, Core
<1>4. \A j \in Leaves \ {k} : leaf'[j].value = leaf[j].value
  BY <1>1 DEF Core, Typed
<1>5. /\ taken' = taken \cup {k}
      /\ FreeLeaves' = FreeLeaves \ {k}
      /\ Ends(NextLeaf, deletedLeaf)'
      /\ k \notin Tree \cup InHand \cup FreeNodes \cup Resting
  BY <1>1, <1>4, LeafTaken
<1>6. /\ Tree' = Tree /\ FreeNodes' = FreeNodes
      /\ Ends(NextNode, deletedNode)' /\ Unique(node, root)'
      /\ NodesTyped' /\ root' \in Pointers
  BY <1>2, NodesStay
<1>7. /\ Resting' = Resting
      /\ pendingNodes' \in [Ages -> Nodes \cup {Null}]
      /\ pendingLeaves' \in [Ages -> Leaves \cup {Null}]
  BY <1>2, PendingStays DEF Core
<1>8. Typed'
  <2>1. leaf' \in [Leaves -> [key : Words, value : Links]]
    BY <1>1, WordsNat DEF Core, Typed, Links
  <2>2. WriterTyped'
    BY <1>1 DEF WriterTyped
  <2> QED BY <1>2, <1>6, <1>7, <2>1, <2>2 DEF Core, Typed
<1>9. OwnedOnce'
  BY <1>2, <1>3, <1>5, <1>6, <1>7 DEF Core, OwnedOnce
<1>10. HandReady'
  BY <1>1 DEF HandReady, LinkReady, CollapseReady, SlotFree
<1> QED BY <1>5, <1>6, <1>8, <1>9, <1>10 DEF Core, PoolsEnd

LEMMA InsertLeafCore ==
  ASSUME Core, InsertLeaf
  PROVE  Core' /\ Tree' = Tree \cup {writer.leaf}
<1>1. PICK at \in Stops(newKey, Shared(newKey)) :
        Pointer(at) = Null /\ Store(at, writer.leaf)
  BY DEF InsertLeaf
<1>2. /\ UNCHANGED <<leaf, deletedNode, deletedLeaf, pendingNodes, pendingLeaves, taken, removeCount>>
      /\ writer.pc = "place" /\ writer' = Idle
  BY DEF InsertLeaf, pools
<1> DEFINE k == writer.leaf
<1>3. k \in Leaves /\ InHand = {k} /\ InHand' = {}
  BY <1>2, HandIs DEF Core, Idle, InHand
<1>4. newKey \in Nat
  BY <1>3, LeafTyped DEF Core, newKey
<1>5. at \in PlacesOf(Tree) /\ at \in AllPlaces
  BY <1>4, SharedNodes, StopInTree DEF Core
<1>6. k \in Pointers /\ k # Null /\ k \notin Nodes /\ k \notin Tree
  BY <1>3, NullApart DEF Pointers, Core, OwnedOnce
<1>7. /\ Stored(node, root, node', root', at, k) /\ NodesTyped' /\ root' \in Pointers
  BY <1>1, <1>5, <1>6, StoreIsStored DEF Core, Typed
<1>8. Tree' = Tree \cup {k} /\ Unique(node, root)'
  BY <1>1, <1>5, <1>6, <1>7, StoreLeaf, PointerIs DEF Core, Tree
<1>9. FreeNodes' = FreeNodes /\ Ends(NextNode, deletedNode)'
  BY <1>1, <1>2, <1>5, <1>6, StoreKeepsPool
<1>10. /\ FreeLeaves' = FreeLeaves /\ Ends(NextLeaf, deletedLeaf)'
       /\ leaf' \in [Leaves -> [key : Words, value : Links]]
  BY <1>2, LeavesStay
<1>11. /\ Resting' = Resting
       /\ pendingNodes' \in [Ages -> Nodes \cup {Null}]
       /\ pendingLeaves' \in [Ages -> Leaves \cup {Null}]
  BY <1>2, PendingStays DEF Core
<1>12. Typed'
  BY <1>2, <1>7, <1>10, <1>11 DEF Core, Typed, WriterTyped
<1>13. OwnedOnce'
  BY <1>2, <1>3, <1>8, <1>9, <1>10, <1>11 DEF Core, OwnedOnce
<1>14. HandReady'
  BY <1>2 DEF HandReady, LinkReady, CollapseReady, SlotFree, Idle
<1> QED BY <1>8, <1>9, <1>10, <1>12, <1>13, <1>14 DEF Core, PoolsEnd

LEMMA InsertExistsCore ==
  ASSUME Core, NEW update \in BOOLEAN, InsertExists(update)
  PROVE  Core' /\ Tree' = Tree
<1>1. PICK at \in Stops(newKey, Shared(newKey)) :
        /\ Found(newKey, Pointer(at))
        /\ leaf' = [leaf EXCEPT
                       ![writer.leaf].value = deletedLeaf,
                       ![Pointer(at)].value = IF update THEN newValue ELSE @]
  BY DEF InsertExists
<1>2. /\ UNCHANGED <<root, node, deletedNode, pendingNodes, pendingLeaves, taken, removeCount>>
      /\ writer.pc = "place" /\ writer' = Idle /\ deletedLeaf' = writer.leaf
  BY DEF InsertExists, tree
<1> DEFINE k == writer.leaf
           p == Pointer(at)
<1>3. k \in Leaves /\ InHand = {k} /\ InHand' = {}
  BY <1>2, HandIs DEF Core, Idle, InHand
<1>4. newKey \in Nat /\ newValue \in Links
  BY <1>3, LeafTyped DEF Core, newKey, newValue
<1>5. p \in Leaves /\ p \in Tree
  BY <1>1, <1>4, SharedNodes, StopInTree, NullApart DEF Core, Found
<1>6. p # k /\ k \notin FreeLeaves /\ p \notin FreeLeaves
  BY <1>3, <1>5 DEF Core, OwnedOnce
<1>7. deletedLeaf \in Leaves \cup {Null}
  BY NextDomains DEF Core, PoolsEnd, Ends
<1>8. /\ leaf' \in [Leaves -> [key : Words, value : Links]]
      /\ leaf'[k].value = deletedLeaf
      /\ \A j \in Leaves \ {k, p} : leaf'[j] = leaf[j]
  <2>1. deletedLeaf \in Links
    BY <1>7, LinksHold
  <2> QED BY <1>1, <1>3, <1>4, <1>5, <1>6, <2>1 DEF Core, Typed
<1>9. FreeLeaves' = {k} \cup FreeLeaves /\ Ends(NextLeaf, deletedLeaf)'
  BY <1>2, <1>3, <1>6, <1>8, FreeAre, LeafPushed DEF Core
<1>10. /\ Tree' = Tree /\ FreeNodes' = FreeNodes
       /\ Ends(NextNode, deletedNode)' /\ Unique(node, root)'
       /\ NodesTyped' /\ root' \in Pointers
  BY <1>2, NodesStay
<1>11. /\ Resting' = Resting
       /\ pendingNodes' \in [Ages -> Nodes \cup {Null}]
       /\ pendingLeaves' \in [Ages -> Leaves \cup {Null}]
  BY <1>2, PendingStays DEF Core
<1>12. Typed'
  BY <1>2, <1>8, <1>10, <1>11 DEF Core, Typed, WriterTyped
<1>13. OwnedOnce'
  BY <1>2, <1>3, <1>9, <1>10, <1>11, NullApart DEF Core, OwnedOnce
<1>14. HandReady'
  BY <1>2 DEF HandReady, LinkReady, CollapseReady, SlotFree, Idle
<1> QED BY <1>9, <1>10, <1>12, <1>13, <1>14 DEF Core, PoolsEnd

(* The key that tells where a new node must branch. *)
PathFrom(p) == IF p \in Leaves THEN leaf[p].key ELSE node[p].path

LEMMA PartsIs ==
  ASSUME Typed, writer.pc \in {"place", "link"},
         NEW at \in Stops(newKey, Shared(newKey)), Parts(newKey, Pointer(at))
  PROVE  /\ newKey \in Words /\ newKey \in Nat
         /\ at \in PlacesOf(Tree) /\ at \in AllPlaces
         /\ Pointer(at) \in Tree /\ Pointer(at) # Null
         /\ PathFrom(Pointer(at)) \in Words /\ PathFrom(Pointer(at)) \in Nat
         /\ PathFrom(Pointer(at)) # newKey
         /\ Pointer(at) \in Nodes =>
              Above(newKey, node[Pointer(at)].shift + Slice)
                # Above(node[Pointer(at)].path, node[Pointer(at)].shift + Slice)
<1> DEFINE p == Pointer(at)
<1>1. newKey \in Words /\ newKey \in Nat
  BY HandIs, LeafTyped DEF newKey
<1>2. at \in PlacesOf(Tree) /\ at \in AllPlaces /\ p \notin Shared(newKey) /\ (p # Null => p \in Tree)
  BY <1>1, SharedNodes, StopInTree
<1>3. p \in Nodes \cup Leaves
  BY DEF Parts
<1>4. p # Null /\ p \in Tree
  BY <1>2, <1>3, NullApart
<1>5. CASE p \in Leaves
  BY <1>1, <1>2, <1>4, <1>5, LeafTyped, NullApart DEF PathFrom, Parts
<1>6. CASE p \in Nodes
  <2>1. ~ Inside(newKey, p)
    BY <1>2, <1>6 DEF Shared
  <2>2. Inside(node[p].path, p) /\ node[p].path \in Words /\ node[p].path \in Nat /\ node[p].shift \in Nat
    BY <1>6, NodeTyped
  <2>3. PathOf(newKey, node[p].shift) # PathOf(node[p].path, node[p].shift)
    BY <2>1, <2>2 DEF Inside
  <2>4. PathFrom(p) = node[p].path
    BY <1>6, NullApart DEF PathFrom
  <2>5. Above(newKey, node[p].shift + Slice) # Above(node[p].path, node[p].shift + Slice)
    BY <1>1, <2>2, <2>3, SamePath
  <2> QED BY <1>1, <1>2, <1>4, <2>1, <2>2, <2>4, <2>5
<1> QED BY <1>3, <1>5, <1>6

LEMMA NewNodeIs ==
  ASSUME NEW key \in Words, NEW kn \in Leaves, NEW p \in Nodes \cup Leaves,
         PathFrom(p) \in Words, PathFrom(p) # key
  PROVE  LET nd == NewNode(key, kn, p)
             sh == FirstDifference(PathFrom(p), key) IN
         /\ sh \in Shifts /\ sh \in Nat
         /\ nd.shift = sh /\ nd.path = PathOf(key, sh) /\ nd.path \in Words
         /\ PathOf(nd.path, sh) = nd.path
         /\ nd \in [child : [Slots -> Pointers], path : Words, shift : Shifts]
         /\ SliceIndex(key, sh) \in Slots /\ SliceIndex(PathFrom(p), sh) \in Slots
         /\ SliceIndex(key, sh) # SliceIndex(PathFrom(p), sh)
         /\ nd.child[SliceIndex(key, sh)] = kn
         /\ nd.child[SliceIndex(PathFrom(p), sh)] = p
         /\ \A h \in Slots \ {SliceIndex(key, sh), SliceIndex(PathFrom(p), sh)} : nd.child[h] = Null
<1> DEFINE a == PathFrom(p)
           sh == FirstDifference(a, key)
           nd == NewNode(key, kn, p)
<1>1. sh \in Shifts /\ sh \in Nat /\ SliceIndex(a, sh) # SliceIndex(key, sh)
  BY FirstDifferenceTells
<1>2. key \in Nat /\ a \in Nat
  BY WordsNat
<1>3. PathOf(key, sh) \in Nat /\ PathOf(key, sh) <= key
  BY <1>1, <1>2, PathIs
<1>4. PathOf(key, sh) \in Words
  <2>1. 2 ^ Width \in Nat
    BY NibNat, PowerNat
  <2> QED BY <1>2, <1>3, <2>1 DEF Words
<1>5. PathOf(PathOf(key, sh), sh) = PathOf(key, sh)
  BY <1>1, <1>2, PathOfPath
<1>6. SliceIndex(key, sh) \in Slots /\ SliceIndex(a, sh) \in Slots
  BY <1>1, <1>2, SliceInSlots
<1>7. nd = [child |-> [i \in Slots |-> IF i = SliceIndex(key, sh) THEN kn
                                       ELSE IF i = SliceIndex(a, sh) THEN p ELSE Null],
            shift |-> sh, path |-> PathOf(key, sh)]
  BY DEF NewNode, PathFrom
<1> HIDE DEF nd, sh, a
<1>8. nd \in [child : [Slots -> Pointers], path : Words, shift : Shifts]
  BY <1>1, <1>4, <1>7 DEF Pointers
<1>9. /\ nd.shift = sh /\ nd.path = PathOf(key, sh)
      /\ nd.child[SliceIndex(key, sh)] = kn
      /\ nd.child[SliceIndex(a, sh)] = p
      /\ \A h \in Slots \ {SliceIndex(key, sh), SliceIndex(a, sh)} : nd.child[h] = Null
  BY <1>1, <1>6, <1>7
<1> QED BY <1>1, <1>4, <1>5, <1>6, <1>8, <1>9 DEF nd, sh, a

LEMMA InsertNodeCore ==
  ASSUME Core, InsertNode
  PROVE  /\ Core' /\ Tree' = Tree
         /\ \E at \in Stops(newKey, Shared(newKey)), m \in Nodes :
              /\ Parts(newKey, Pointer(at))
              /\ m \notin Tree \cup InHand \cup Resting
              /\ node' = [node EXCEPT ![m] = NewNode(newKey, writer.leaf, Pointer(at))]
              /\ writer' = [pc |-> "link", leaf |-> writer.leaf, node |-> m, parent |-> at]
<1>1. PICK at \in Stops(newKey, Shared(newKey)) : \E m \in Nodes :
        /\ Parts(newKey, Pointer(at))
        /\ IF deletedNode # Null
           THEN m = deletedNode /\ deletedNode' = node[m].child[0] /\ UNCHANGED taken
           ELSE m \notin taken /\ taken' = taken \cup {m} /\ UNCHANGED deletedNode
        /\ node' = [node EXCEPT ![m] = NewNode(newKey, writer.leaf, Pointer(at))]
        /\ writer' = [pc |-> "link", leaf |-> writer.leaf, node |-> m, parent |-> at]
  BY DEF InsertNode
<1>2. PICK m \in Nodes :
        /\ Parts(newKey, Pointer(at))
        /\ IF deletedNode # Null
           THEN m = deletedNode /\ deletedNode' = node[m].child[0] /\ UNCHANGED taken
           ELSE m \notin taken /\ taken' = taken \cup {m} /\ UNCHANGED deletedNode
        /\ node' = [node EXCEPT ![m] = NewNode(newKey, writer.leaf, Pointer(at))]
        /\ writer' = [pc |-> "link", leaf |-> writer.leaf, node |-> m, parent |-> at]
  BY <1>1
<1>3. /\ UNCHANGED <<root, leaf, deletedLeaf, pendingNodes, pendingLeaves, removeCount>>
      /\ writer.pc = "place"
  BY DEF InsertNode
<1> DEFINE k == writer.leaf
           p == Pointer(at)
           nd == NewNode(newKey, k, p)
<1>4. Typed
  BY DEF Core
<1>5. k \in Leaves /\ InHand = {k} /\ InHand' = {k, m}
  BY <1>2, <1>3, <1>4, HandIs DEF InHand
<1>6. /\ newKey \in Words /\ at \in PlacesOf(Tree) /\ at \in AllPlaces
      /\ p \in Tree /\ p # Null /\ PathFrom(p) \in Words /\ PathFrom(p) # newKey
  BY <1>2, <1>3, <1>4, PartsIs
<1>7. p \in Nodes \cup Leaves
  BY <1>4, <1>6, TreeIn
<1> DEFINE i == SliceIndex(newKey, nd.shift)
           j == SliceIndex(PathFrom(p), nd.shift)
<1>8. /\ nd \in [child : [Slots -> Pointers], path : Words, shift : Shifts]
      /\ PathOf(nd.path, nd.shift) = nd.path
      /\ i \in Slots /\ j \in Slots /\ i # j
      /\ nd.child[i] = k /\ nd.child[j] = p
      /\ \A h \in Slots \ {i, j} : nd.child[h] = Null
  BY <1>5, <1>6, <1>7, NewNodeIs
<1>9. node' = [node EXCEPT ![m] = nd]
  BY <1>2
<1> HIDE DEF nd, i, j
<1>10. node'[m] = nd /\ \A n \in Nodes \ {m} : node'[n] = node[n]
  BY <1>4, <1>9 DEF Typed, NodesTyped
<1>11. /\ taken' = taken \cup {m}
       /\ FreeNodes' = FreeNodes \ {m}
       /\ Ends(NextNode, deletedNode)'
       /\ m \notin Tree \cup InHand \cup FreeLeaves \cup Resting
  BY <1>2, <1>10, NodeTaken
<1>12. \A n \in Tree \cap Nodes : node'[n] = node[n]
  BY <1>10, <1>11
<1>13. Tree' = Tree /\ Unique(node, root)'
  <2>1. \A n \in Sub(node, root) \cap Nodes : \A h \in Slots : node'[n].child[h] = node[n].child[h]
    BY <1>12 DEF Tree
  <2> QED BY <1>3, <2>1, SubFrame, UniqueFrame DEF Tree, Core
<1>14. NodesTyped'
  <2>1. node' \in [Nodes -> [child : [Slots -> Pointers], path : Words, shift : Shifts]]
    BY <1>4, <1>8, <1>9 DEF Typed, NodesTyped
  <2>2. \A n \in Nodes : Inside(node[n].path, n)'
    BY <1>4, <1>8, <1>10 DEF Typed, NodesTyped, Inside
  <2> QED BY <2>1, <2>2 DEF NodesTyped
<1>15. /\ FreeLeaves' = FreeLeaves /\ Ends(NextLeaf, deletedLeaf)'
       /\ leaf' \in [Leaves -> [key : Words, value : Links]]
  BY <1>3, LeavesStay
<1>16. /\ Resting' = Resting
       /\ pendingNodes' \in [Ages -> Nodes \cup {Null}]
       /\ pendingLeaves' \in [Ages -> Leaves \cup {Null}]
  BY <1>3, <1>4, PendingStays
<1>17. Typed'
  <2>1. WriterTyped'
    BY <1>2, <1>5, <1>6 DEF WriterTyped
  <2> QED BY <1>3, <1>4, <1>14, <1>15, <1>16, <2>1 DEF Typed
<1>18. OwnedOnce'
  BY <1>3, <1>5, <1>11, <1>13, <1>15, <1>16, FreeAre, NullApart DEF Core, OwnedOnce
<1>19. HandReady'
  <2>1. writer'.pc = "link" /\ writer'.leaf = k /\ writer'.node = m /\ writer'.parent = at
    BY <1>2
  <2>2. Ptr(node', root', at) = p
    BY <1>3, <1>6, <1>12, PlaceCases, PointerIs DEF Ptr
  <2>3. Pointer(at)' = p
    BY <2>2 DEF Pointer, Ptr
  <2>4. LinkReady'
    BY <1>6, <1>8, <1>10, <1>13, <2>1, <2>3 DEF LinkReady, Pointer
  <2> QED BY <2>1, <2>4 DEF HandReady, CollapseReady, SlotFree
<1>20. Core'
  BY <1>11, <1>13, <1>15, <1>17, <1>18, <1>19 DEF Core, PoolsEnd
<1> QED BY <1>2, <1>11, <1>13, <1>20

LEMMA InsertNoNodeCore ==
  ASSUME Core, InsertNoNode
  PROVE  Core' /\ Tree' = Tree
<1>1. /\ UNCHANGED <<root, node, deletedNode, pendingNodes, pendingLeaves, taken, removeCount>>
      /\ writer.pc = "place" /\ writer' = Idle /\ deletedLeaf' = writer.leaf
      /\ leaf' = [leaf EXCEPT ![writer.leaf].value = deletedLeaf]
  BY DEF InsertNoNode, tree
<1> DEFINE k == writer.leaf
<1>2. k \in Leaves /\ InHand = {k} /\ InHand' = {}
  BY <1>1, HandIs DEF Core, Idle, InHand
<1>3. k \notin FreeLeaves
  BY <1>2 DEF Core, OwnedOnce
<1>4. deletedLeaf \in Leaves \cup {Null}
  BY NextDomains DEF Core, PoolsEnd, Ends
<1>5. /\ leaf' \in [Leaves -> [key : Words, value : Links]]
      /\ leaf'[k].value = deletedLeaf
      /\ \A j \in Leaves \ {k} : leaf'[j] = leaf[j]
  BY <1>1, <1>2, <1>4, LinksHold DEF Core, Typed
<1>6. FreeLeaves' = {k} \cup FreeLeaves /\ Ends(NextLeaf, deletedLeaf)'
  BY <1>1, <1>2, <1>3, <1>5, FreeAre, LeafPushed DEF Core
<1>7. /\ Tree' = Tree /\ FreeNodes' = FreeNodes
      /\ Ends(NextNode, deletedNode)' /\ Unique(node, root)'
      /\ NodesTyped' /\ root' \in Pointers
  BY <1>1, NodesStay
<1>8. /\ Resting' = Resting
      /\ pendingNodes' \in [Ages -> Nodes \cup {Null}]
      /\ pendingLeaves' \in [Ages -> Leaves \cup {Null}]
  BY <1>1, PendingStays DEF Core
<1>9. Typed'
  BY <1>1, <1>5, <1>7, <1>8 DEF Core, Typed, WriterTyped
<1>10. OwnedOnce'
  BY <1>1, <1>2, <1>6, <1>7, <1>8, NullApart DEF Core, OwnedOnce
<1>11. HandReady'
  BY <1>1 DEF HandReady, LinkReady, CollapseReady, SlotFree, Idle
<1> QED BY <1>6, <1>7, <1>9, <1>10, <1>11 DEF Core, PoolsEnd

LEMMA InsertLinkCore ==
  ASSUME Core, InsertLink
  PROVE  Core' /\ Tree' = Tree \cup {writer.leaf, writer.node}
<1>1. /\ UNCHANGED <<leaf, deletedNode, deletedLeaf, pendingNodes, pendingLeaves, taken, removeCount>>
      /\ writer.pc = "link" /\ writer' = Idle /\ Store(writer.parent, writer.node)
  BY DEF InsertLink, pools
<1> DEFINE k == writer.leaf
           m == writer.node
           at == writer.parent
<1>2. /\ k \in Leaves /\ m \in Nodes /\ InHand = {k, m} /\ InHand' = {}
  BY <1>1, HandIs DEF Core, Idle, InHand
<1>3. PICK i \in Slots : \E j \in Slots :
        /\ at \in PlacesOf(Tree) /\ Pointer(at) # Null
        /\ i # j /\ node[m].child[i] = k /\ node[m].child[j] = Pointer(at)
        /\ \A h \in Slots \ {i, j} : node[m].child[h] = Null
  BY <1>1 DEF Core, HandReady, LinkReady
<1>4. PICK j \in Slots :
        /\ at \in PlacesOf(Tree) /\ Pointer(at) # Null
        /\ i # j /\ node[m].child[i] = k /\ node[m].child[j] = Pointer(at)
        /\ \A h \in Slots \ {i, j} : node[m].child[h] = Null
  BY <1>3
<1>5. /\ m \in Pointers /\ k # Null /\ k \notin Nodes /\ k \notin Tree /\ m \notin Tree
      /\ at \in AllPlaces
  BY <1>2, <1>4, NullApart, PlacesAll DEF Pointers, Core, OwnedOnce
<1>6. /\ Stored(node, root, node', root', at, m) /\ NodesTyped' /\ root' \in Pointers
  BY <1>1, <1>5, StoreIsStored DEF Core, Typed
<1>7. Tree' = Tree \cup {k, m} /\ Unique(node, root)'
  <2> DEFINE p == Pointer(at)
  <2>1. p = Ptr(node, root, at)
    BY PointerIs
  <2>2. Unique(node, root) /\ at \in PlacesOf(Sub(node, root))
    BY <1>4 DEF Core, Tree
  <2>3. k \notin Sub(node, root) /\ m \notin Sub(node, root)
    BY <1>5 DEF Tree
  <2> HIDE DEF k, m, at, p
  <2>4. /\ Sub(node', root') = Sub(node, root) \cup {m, k}
        /\ Unique(node', root')
    BY <1>2, <1>4, <1>5, <1>6, <2>1, <2>2, <2>3, StoreNode DEF p
  <2> QED BY <2>4 DEF Tree
<1>8. FreeNodes' = FreeNodes /\ Ends(NextNode, deletedNode)'
  BY <1>1, <1>4, <1>5, StoreKeepsPool
<1>9. /\ FreeLeaves' = FreeLeaves /\ Ends(NextLeaf, deletedLeaf)'
      /\ leaf' \in [Leaves -> [key : Words, value : Links]]
  BY <1>1, LeavesStay
<1>10. /\ Resting' = Resting
       /\ pendingNodes' \in [Ages -> Nodes \cup {Null}]
       /\ pendingLeaves' \in [Ages -> Leaves \cup {Null}]
  BY <1>1, PendingStays DEF Core
<1>11. Typed'
  BY <1>1, <1>6, <1>9, <1>10 DEF Core, Typed, WriterTyped
<1>12. OwnedOnce'
  BY <1>1, <1>2, <1>7, <1>8, <1>9, <1>10 DEF Core, OwnedOnce
<1>13. HandReady'
  BY <1>1 DEF HandReady, LinkReady, CollapseReady, SlotFree, Idle
<1> QED BY <1>7, <1>8, <1>9, <1>11, <1>12, <1>13 DEF Core, PoolsEnd

LEMMA RemoveBeginCore ==
  ASSUME Core, NEW key \in Keys, RemoveBegin(key)
  PROVE  Core' /\ Tree' = Tree
<1>1. /\ UNCHANGED <<root, node, leaf, deletedNode, deletedLeaf, pendingNodes, pendingLeaves, taken>>
      /\ writer = Idle /\ removeCount < MaxRemoves /\ removeCount' = removeCount + 1
      /\ writer' = [pc |-> "reclaim", key |-> key, del |-> removeCount % DeletedLife]
  BY DEF RemoveBegin, tree, pools
<1>2. InHand = {} /\ InHand' = {}
  BY <1>1 DEF Idle, InHand
<1>3. /\ Tree' = Tree /\ FreeNodes' = FreeNodes
      /\ Ends(NextNode, deletedNode)' /\ Unique(node, root)'
      /\ NodesTyped' /\ root' \in Pointers
  BY <1>1, NodesStay
<1>4. /\ FreeLeaves' = FreeLeaves /\ Ends(NextLeaf, deletedLeaf)'
      /\ leaf' \in [Leaves -> [key : Words, value : Links]]
  BY <1>1, LeavesStay
<1>5. /\ Resting' = Resting
      /\ pendingNodes' \in [Ages -> Nodes \cup {Null}]
      /\ pendingLeaves' \in [Ages -> Leaves \cup {Null}]
  BY <1>1, PendingStays DEF Core
<1>6. DeletedLife \in Nat \ {0} /\ MaxRemoves \in Nat
  BY CritnibAssumption DEF CritnibAssumption
<1>7. removeCount \in 0 .. MaxRemoves
  BY DEF Core, Typed
<1>8. Typed'
  <2>1. removeCount' \in 0 .. MaxRemoves
    BY <1>1, <1>6, <1>7
  <2>2. removeCount % DeletedLife \in Ages
    BY <1>6, <1>7, DivNat DEF Ages
  <2>3. WriterTyped'
    BY <1>1, <2>2 DEF WriterTyped
  <2> QED BY <1>3, <1>4, <1>5, <2>1, <2>3 DEF Core, Typed
<1>9. OwnedOnce'
  BY <1>1, <1>2, <1>3, <1>4, <1>5 DEF Core, OwnedOnce
<1>10. HandReady'
  BY <1>1 DEF HandReady, LinkReady, CollapseReady, SlotFree
<1> QED BY <1>3, <1>4, <1>8, <1>9, <1>10 DEF Core, PoolsEnd

LEMMA RemoveReclaimCore ==
  ASSUME Core, RemoveReclaim
  PROVE  /\ Core' /\ Tree' = Tree
         /\ FreeNodes' = FreeNodes \cup ({pendingNodes[writer.del]} \ {Null})
         /\ FreeLeaves' = FreeLeaves \cup ({pendingLeaves[writer.del]} \ {Null})
         /\ \A n \in Nodes : n # pendingNodes[writer.del] => node'[n] = node[n]
         /\ \A k \in Leaves : k # pendingLeaves[writer.del] => leaf'[k] = leaf[k]
<1> DEFINE d == writer.del
           n == pendingNodes[d]
           k == pendingLeaves[d]
<1>1. /\ writer.pc = "reclaim"
      /\ IF n = Null THEN UNCHANGED <<node, deletedNode>>
         ELSE /\ node' = [node EXCEPT ![n].child[0] = deletedNode]
              /\ deletedNode' = n
      /\ IF k = Null THEN UNCHANGED <<leaf, deletedLeaf>>
         ELSE /\ leaf' = [leaf EXCEPT ![k].value = deletedLeaf]
              /\ deletedLeaf' = k
      /\ pendingNodes' = [pendingNodes EXCEPT ![d] = Null]
      /\ pendingLeaves' = [pendingLeaves EXCEPT ![d] = Null]
      /\ writer' = [writer EXCEPT !.pc = "unlink"]
      /\ UNCHANGED <<root, taken, removeCount>>
  BY DEF RemoveReclaim
<1>2. Typed
  BY DEF Core
<1>3. writer \in [pc : {"reclaim", "unlink"}, key : Keys, del : Ages]
  BY <1>1, <1>2, WriterCases
<1>4. d \in Ages /\ InHand = {} /\ writer'.pc = "unlink" /\ writer'.del = d
  BY <1>1, <1>2, <1>3, HandIs
<1>5. InHand' = {}
  BY <1>4 DEF InHand
<1>6. n \in Nodes \cup {Null} /\ k \in Leaves \cup {Null}
  BY <1>2, <1>4 DEF Typed
<1>7. (n # Null => n \in Resting) /\ (k # Null => k \in Resting)
  BY <1>4, <1>6 DEF Resting, Rests
<1>8. Resting' = Resting \ {n, k}
  <2>1. \A x, e : x # Null => (Rests(x, e)' <=> e \in Ages /\ e # d /\ Rests(x, e)) \/ e \notin Ages
    BY <1>1, <1>2, <1>4 DEF Rests, Typed
  <2>2. ASSUME NEW x \in Nodes \cup Leaves
        PROVE  x \in Resting' <=> x \in Resting /\ x # n /\ x # k
    <3>1. x # Null
      BY NullApart
    <3>2. x \in Resting' <=> \E e \in Ages : e # d /\ Rests(x, e)
      BY <2>1, <3>1 DEF Resting
    <3>3. \A e \in Ages : Rests(x, e) /\ (x = n \/ x = k) => e = d
      BY <1>2, <1>4, <1>6, <3>1, NullApart DEF Rests, Core, OwnedOnce, Typed
    <3>4. Rests(x, d) <=> x = n \/ x = k
      BY DEF Rests
    <3> QED BY <1>4, <3>2, <3>3, <3>4 DEF Resting
  <2> QED BY <2>2 DEF Resting
<1>9. /\ FreeNodes' = FreeNodes \cup ({n} \ {Null})
      /\ Ends(NextNode, deletedNode)'
      /\ Tree' = Tree /\ Unique(node, root)' /\ NodesTyped'
      /\ \A m \in Nodes : m # n => node'[m] = node[m]
  <2>1. CASE n = Null
    BY <1>1, <2>1, NodesStay
  <2>2. CASE n # Null
    <3>1. n \in Nodes /\ n \notin Tree /\ n \notin FreeNodes
      BY <1>6, <1>7, <2>2 DEF Core, OwnedOnce
    <3>2. deletedNode \in Nodes \cup {Null}
      BY NextDomains DEF Core, PoolsEnd, Ends
    <3>3. /\ node'[n].child[0] = deletedNode
          /\ \A m \in Nodes \ {n} : node'[m] = node[m]
      BY <1>1, <1>2, <2>2, <3>1, ZeroInSlots DEF Typed, NodesTyped
    <3>4. NodesTyped'
      <4>1. node' \in [Nodes -> [child : [Slots -> Pointers], path : Words, shift : Shifts]]
        <5>1. node' = [node EXCEPT ![n].child[0] = deletedNode]
          BY <1>1, <2>2
        <5>2. deletedNode \in Pointers
          BY <3>2 DEF Pointers
        <5> HIDE DEF n
        <5> QED BY <1>2, <3>1, <5>1, <5>2, ZeroInSlots DEF Typed, NodesTyped
      <4>2. \A m \in Nodes : node'[m].path = node[m].path /\ node'[m].shift = node[m].shift
        BY <1>1, <1>2, <2>2, <3>1, <3>3 DEF Typed, NodesTyped
      <4> QED BY <1>2, <4>1, <4>2 DEF NodesTyped, Inside, Typed
    <3>5. FreeNodes' = {n} \cup FreeNodes /\ Ends(NextNode, deletedNode)'
      BY <1>1, <2>2, <3>1, <3>3, FreeAre, NodePushed DEF Core
    <3>6. Tree' = Tree /\ Unique(node, root)'
      <4>1. \A m \in Sub(node, root) \cap Nodes : \A h \in Slots : node'[m].child[h] = node[m].child[h]
        BY <3>1, <3>3 DEF Tree
      <4> QED BY <1>1, <4>1, SubFrame, UniqueFrame DEF Tree, Core
    <3> QED BY <2>2, <3>3, <3>4, <3>5, <3>6
  <2> QED BY <2>1, <2>2
<1>10. /\ FreeLeaves' = FreeLeaves \cup ({k} \ {Null})
       /\ Ends(NextLeaf, deletedLeaf)'
       /\ leaf' \in [Leaves -> [key : Words, value : Links]]
       /\ \A j \in Leaves : j # k => leaf'[j] = leaf[j]
  <2>1. CASE k = Null
    BY <1>1, <2>1, LeavesStay
  <2>2. CASE k # Null
    <3>1. k \in Leaves /\ k \notin FreeLeaves
      BY <1>6, <1>7, <2>2 DEF Core, OwnedOnce
    <3>2. deletedLeaf \in Leaves \cup {Null}
      BY NextDomains DEF Core, PoolsEnd, Ends
    <3>3. /\ leaf' \in [Leaves -> [key : Words, value : Links]]
          /\ leaf'[k].value = deletedLeaf
          /\ \A j \in Leaves \ {k} : leaf'[j] = leaf[j]
      BY <1>1, <1>2, <2>2, <3>1, <3>2, LinksHold DEF Typed
    <3>4. FreeLeaves' = {k} \cup FreeLeaves /\ Ends(NextLeaf, deletedLeaf)'
      BY <1>1, <2>2, <3>1, <3>3, FreeAre, LeafPushed DEF Core
    <3> QED BY <2>2, <3>3, <3>4
  <2> QED BY <2>1, <2>2
<1>11. Typed'
  <2>1. WriterTyped'
    BY <1>1, <1>3 DEF WriterTyped
  <2>2. /\ pendingNodes' \in [Ages -> Nodes \cup {Null}]
        /\ pendingLeaves' \in [Ages -> Leaves \cup {Null}]
    BY <1>1, <1>2 DEF Typed
  <2> QED BY <1>1, <1>2, <1>9, <1>10, <2>1, <2>2 DEF Typed
<1>12. OwnedOnce'
  <2>1. \A e, f \in Ages : /\ pendingNodes'[e] = pendingNodes'[f] /\ pendingNodes'[e] # Null => e = f
                           /\ pendingLeaves'[e] = pendingLeaves'[f] /\ pendingLeaves'[e] # Null => e = f
    BY <1>1, <1>2 DEF Typed, Core, OwnedOnce
  <2>2. FreeNodes \subseteq Nodes /\ FreeLeaves \subseteq Leaves /\ Nodes \cap Leaves = {}
    BY FreeAre, NullApart
  <2>3. (n # Null => n \in Nodes) /\ (k # Null => k \in Leaves)
    BY <1>6
  <2> HIDE DEF n, k, d
  <2>4. taken' = Tree' \cup InHand' \cup FreeNodes' \cup FreeLeaves' \cup Resting'
    <3>1. taken = Tree \cup InHand \cup FreeNodes \cup FreeLeaves \cup Resting
      BY DEF Core, OwnedOnce
    <3>2. Null \notin Resting
      BY NullApart DEF Resting
    <3>3. taken' = taken
      BY <1>1
    <3> QED BY <1>4, <1>5, <1>7, <1>8, <1>9, <1>10, <3>1, <3>2, <3>3
  <2>5. /\ Tree' \cap (InHand' \cup FreeNodes' \cup FreeLeaves' \cup Resting') = {}
        /\ InHand' \cap (FreeNodes' \cup FreeLeaves' \cup Resting') = {}
    BY <1>4, <1>5, <1>7, <1>8, <1>9, <1>10 DEF Core, OwnedOnce
  <2>6. Resting' \cap (FreeNodes' \cup FreeLeaves') = {}
    BY <1>8, <1>9, <1>10 DEF Core, OwnedOnce
  <2> QED BY <2>1, <2>4, <2>5, <2>6 DEF OwnedOnce
<1>13. HandReady'
  BY <1>1, <1>2, <1>4 DEF HandReady, LinkReady, CollapseReady, SlotFree, Typed
<1> QED BY <1>9, <1>10, <1>11, <1>12, <1>13 DEF Core, PoolsEnd

LEMMA RemoveMissCore ==
  ASSUME Core, RemoveMiss
  PROVE  Core' /\ Tree' = Tree
<1>1. /\ UNCHANGED <<root, node, leaf, deletedNode, deletedLeaf, pendingNodes, pendingLeaves, taken,
                     removeCount>>
      /\ writer.pc = "unlink" /\ writer' = Idle
  BY DEF RemoveMiss, tree, pools
<1>2. InHand = {} /\ InHand' = {}
  BY <1>1, HandIs DEF Idle, InHand, Core
<1>3. /\ Tree' = Tree /\ FreeNodes' = FreeNodes
      /\ Ends(NextNode, deletedNode)' /\ Unique(node, root)'
      /\ NodesTyped' /\ root' \in Pointers
  BY <1>1, NodesStay
<1>4. /\ FreeLeaves' = FreeLeaves /\ Ends(NextLeaf, deletedLeaf)'
      /\ leaf' \in [Leaves -> [key : Words, value : Links]]
  BY <1>1, LeavesStay
<1>5. /\ Resting' = Resting
      /\ pendingNodes' \in [Ages -> Nodes \cup {Null}]
      /\ pendingLeaves' \in [Ages -> Leaves \cup {Null}]
  BY <1>1, PendingStays DEF Core
<1>8. Typed'
  BY <1>1, <1>3, <1>4, <1>5 DEF Core, Typed, WriterTyped
<1>9. OwnedOnce'
  BY <1>1, <1>2, <1>3, <1>4, <1>5 DEF Core, OwnedOnce
<1>10. HandReady'
  BY <1>1 DEF HandReady, LinkReady, CollapseReady, SlotFree, Idle
<1> QED BY <1>3, <1>4, <1>8, <1>9, <1>10 DEF Core, PoolsEnd

LEMMA RemoveUnlinkCore ==
  ASSUME Core, RemoveUnlink
  PROVE  /\ Core'
         /\ \E at \in Stops(writer.key, Nodes) :
              /\ Found(writer.key, Pointer(at)) /\ Store(at, Null)
              /\ Pointer(at) \in Tree \cap Leaves
              /\ Tree' = Tree \ {Pointer(at)}
              /\ \/ /\ writer' = Idle
                    /\ pendingLeaves' = [pendingLeaves EXCEPT ![writer.del] = Pointer(at)]
                 \/ /\ writer'.pc = "collapse" /\ writer'.leaf = Pointer(at)
                    /\ writer'.node = at[1] /\ writer'.del = writer.del
                    /\ UNCHANGED pendingLeaves
<1>1. PICK at \in Stops(writer.key, Nodes) :
        /\ Found(writer.key, Pointer(at))
        /\ Store(at, Null)
        /\ IF LeavesOne(at)
           THEN /\ \E up \in Way(writer.key, Nodes) :
                    /\ Pointer(up) = at[1]
                    /\ writer' = [pc |-> "collapse", del |-> writer.del,
                                  leaf |-> Pointer(at), node |-> at[1], parent |-> up]
                /\ UNCHANGED pendingLeaves
           ELSE /\ writer' = Idle
                /\ pendingLeaves' = [pendingLeaves EXCEPT ![writer.del] = Pointer(at)]
  BY DEF RemoveUnlink
<1>2. /\ UNCHANGED <<leaf, deletedNode, deletedLeaf, pendingNodes, taken, removeCount>>
      /\ writer.pc = "unlink"
  BY DEF RemoveUnlink
<1> DEFINE x == Pointer(at)
           d == writer.del
<1>3. Typed
  BY DEF Core
<1>4. writer \in [pc : {"reclaim", "unlink"}, key : Keys, del : Ages]
  BY <1>2, <1>3, WriterCases
<1>5. writer.key \in Nat /\ d \in Ages /\ InHand = {}
  BY <1>2, <1>3, <1>4, HandIs, WordsNat
<1>6. /\ at \in PlacesOf(Tree) /\ at \in AllPlaces
      /\ at # RootPlace => at[1] \in Nodes \cap Tree /\ at[2] \in Slots
      /\ x \in Leaves /\ x \in Tree /\ x # Null /\ x \notin Nodes
  BY <1>1, <1>3, <1>5, StopInTree, NullApart DEF Found
<1>7. Null \in Pointers
  BY DEF Pointers
<1>8. /\ Stored(node, root, node', root', at, Null) /\ NodesTyped' /\ root' \in Pointers
  BY <1>1, <1>3, <1>6, <1>7, StoreIsStored DEF Typed
<1>9. Tree' = Tree \ {x} /\ Unique(node, root)'
  BY <1>6, <1>8, StoreNull, PointerIs DEF Core, Tree
<1>10. FreeNodes' = FreeNodes /\ Ends(NextNode, deletedNode)'
  BY <1>1, <1>2, <1>6, <1>7, StoreKeepsPool
<1>11. /\ FreeLeaves' = FreeLeaves /\ Ends(NextLeaf, deletedLeaf)'
       /\ leaf' \in [Leaves -> [key : Words, value : Links]]
  BY <1>2, LeavesStay
<1>12. pendingNodes[d] = Null /\ pendingLeaves[d] = Null
  BY <1>2 DEF Core, HandReady, SlotFree
<1>13. x \notin Resting /\ x \notin FreeLeaves /\ x \notin FreeNodes
  BY <1>6 DEF Core, OwnedOnce
<1>14. CASE LeavesOne(at)
  <2>1. PICK up \in Way(writer.key, Nodes) :
          /\ Pointer(up) = at[1]
          /\ writer' = [pc |-> "collapse", del |-> d, leaf |-> x, node |-> at[1], parent |-> up]
    BY <1>1, <1>14
  <2>2. pendingLeaves' = pendingLeaves
    BY <1>1, <1>14
  <2>3. up \in PlacesOf(Tree) /\ up \in AllPlaces
    BY <1>3, <1>5, WayInTree
  <2>4. at # RootPlace /\ at[1] \in Nodes /\ at[2] \in Slots
    BY <1>6, <1>14 DEF LeavesOne
  <2>5. InHand' = {x}
    BY <2>1 DEF InHand
  <2>6. Resting' = Resting
    BY <1>2, <2>2 DEF Resting, Rests
  <2>7. Typed'
    <3>1. WriterTyped'
      BY <1>5, <1>6, <2>1, <2>3, <2>4 DEF WriterTyped
    <3> QED BY <1>2, <1>3, <1>8, <1>11, <2>2, <3>1 DEF Typed
  <2>8. OwnedOnce'
    BY <1>2, <1>5, <1>6, <1>9, <1>10, <1>11, <1>13, <2>2, <2>5, <2>6 DEF Core, OwnedOnce
  <2>9. up # at /\ up \in PlacesOf(Tree')
    <3>1. PlacesOf(Tree') = PlacesOf(Tree)
      BY <1>6, <1>9 DEF PlacesOf
    <3> QED BY <1>6, <2>1, <2>3, <2>4, <3>1
  <2>10. Pointer(up)' = at[1]
    <3>1. Ptr(node', root', up) = Ptr(node, root, up)
      BY <1>8, <2>3, <2>9 DEF Stored
    <3> QED BY <2>1, <3>1 DEF Pointer, Ptr
  <2>11. PICK o \in Slots \ {at[2]} : {i \in Slots \ {at[2]} : node[at[1]].child[i] # Null} = {o}
    <3> DEFINE W == {i \in Slots \ {at[2]} : node[at[1]].child[i] # Null}
    <3>1. Cardinality(W) = 1
      BY <1>14 DEF LeavesOne
    <3>2. IsFiniteSet(W)
      <4>1. IsFiniteSet(Slots)
        BY NibNat, FS_Interval DEF Slots
      <4>2. W \subseteq Slots
        OBVIOUS
      <4> QED BY <4>1, <4>2, FS_Subset
    <3>3. \E o \in W : W = {o}
      <4> HIDE DEF W
      <4> QED BY <3>1, <3>2, FS_Singleton
    <3> QED BY <3>3
  <2>12. /\ node'[at[1]].child[o] # Null
         /\ \A h \in Slots \ {o} : node'[at[1]].child[h] = Null
    <3>1. \A h \in Slots : /\ <<at[1], h>> \in AllPlaces
                           /\ \A nn, rr : Ptr(nn, rr, <<at[1], h>>) = nn[at[1]].child[h]
      BY <2>4, PlaceOfNode DEF AllPlaces
    <3>2. at = <<at[1], at[2]>>
      BY <1>6, <2>4, PlaceCases
    <3>3. \A h \in Slots : node'[at[1]].child[h] = IF h = at[2] THEN Null ELSE node[at[1]].child[h]
      <4> SUFFICES ASSUME NEW h \in Slots
                   PROVE  node'[at[1]].child[h] = IF h = at[2] THEN Null ELSE node[at[1]].child[h]
        OBVIOUS
      <4>1. <<at[1], h>> = at <=> h = at[2]
        BY <3>2
      <4>2. Ptr(node', root', <<at[1], h>>) = IF <<at[1], h>> = at THEN Null ELSE Ptr(node, root, <<at[1], h>>)
        BY <1>8, <3>1 DEF Stored
      <4> QED BY <3>1, <4>1, <4>2
    <3> QED BY <2>11, <3>3
  <2>13. CollapseReady'
    <3>1. writer'.pc = "collapse" /\ writer'.parent = up /\ writer'.node = at[1]
      BY <2>1
    <3>2. Pointer(writer.parent)' = writer'.node
      BY <2>10, <3>1 DEF Pointer
    <3> QED BY <2>9, <2>12, <3>1, <3>2 DEF CollapseReady
  <2>14. HandReady'
    <3>1. writer'.pc = "collapse" /\ writer'.del = d
      BY <2>1
    <3> QED BY <1>2, <1>12, <2>2, <2>13, <3>1 DEF HandReady, LinkReady, SlotFree
  <2>15. Core'
    BY <1>9, <1>10, <1>11, <2>7, <2>8, <2>14 DEF Core, PoolsEnd
  <2> QED BY <1>1, <1>6, <1>9, <2>1, <2>2, <2>15
<1>15. CASE ~ LeavesOne(at)
  <2>1. writer' = Idle /\ pendingLeaves' = [pendingLeaves EXCEPT ![d] = x]
    BY <1>1, <1>15
  <2>2. InHand' = {}
    BY <2>1 DEF InHand, Idle
  <2>3. \A e \in Ages : pendingLeaves'[e] = IF e = d THEN x ELSE pendingLeaves[e]
    BY <1>3, <1>5, <2>1 DEF Typed
  <2>4. Resting' = Resting \cup {x}
    <3>1. \A y \in Nodes \cup Leaves : y \in Resting' <=> y \in Resting \/ y = x
      <4> SUFFICES ASSUME NEW y \in Nodes \cup Leaves
                   PROVE  y \in Resting' <=> y \in Resting \/ y = x
        OBVIOUS
      <4>1. y # Null
        BY NullApart
      <4>2. y \in Resting' <=> \E e \in Ages : pendingNodes[e] = y \/ (IF e = d THEN x ELSE pendingLeaves[e]) = y
        BY <1>2, <2>3 DEF Resting, Rests
      <4> QED BY <1>5, <1>12, <4>1, <4>2 DEF Resting, Rests
    <3>2. x \in Nodes \cup Leaves
      BY <1>6
    <3> QED BY <3>1, <3>2 DEF Resting
  <2>5. Typed'
    <3>1. pendingLeaves' \in [Ages -> Leaves \cup {Null}]
      BY <1>3, <1>6, <2>1 DEF Typed
    <3>2. WriterTyped'
      BY <2>1 DEF WriterTyped
    <3> QED BY <1>2, <1>3, <1>8, <1>11, <3>1, <3>2 DEF Typed
  <2>6. OwnedOnce'
    <3>1. \A e \in Ages : pendingLeaves[e] # x
      BY <1>6, <1>13 DEF Resting, Rests
    <3>2. \A e, f \in Ages : /\ pendingNodes'[e] = pendingNodes'[f] /\ pendingNodes'[e] # Null => e = f
                             /\ pendingLeaves'[e] = pendingLeaves'[f] /\ pendingLeaves'[e] # Null => e = f
      BY <1>2, <2>3, <3>1 DEF Core, OwnedOnce
    <3> QED BY <1>2, <1>5, <1>6, <1>9, <1>10, <1>11, <1>13, <2>2, <2>4, <3>2 DEF Core, OwnedOnce
  <2>7. HandReady'
    BY <2>1 DEF HandReady, LinkReady, CollapseReady, SlotFree, Idle
  <2>8. Core'
    BY <1>9, <1>10, <1>11, <2>5, <2>6, <2>7 DEF Core, PoolsEnd
  <2> QED BY <1>1, <1>6, <1>9, <2>1, <2>8
<1> QED BY <1>14, <1>15

LEMMA RemoveCollapseCore ==
  ASSUME Core, RemoveCollapse
  PROVE  /\ Core' /\ Tree' = Tree \ {writer.node}
         /\ writer.node \in Tree
         /\ \E o \in Slots : /\ node[writer.node].child[o] # Null
                             /\ \A h \in Slots \ {o} : node[writer.node].child[h] = Null
                             /\ Store(writer.parent, node[writer.node].child[o])
<1>1. PICK ochild \in Slots :
        /\ node[writer.node].child[ochild] # Null
        /\ Store(writer.parent, node[writer.node].child[ochild])
  BY DEF RemoveCollapse
<1>2. /\ UNCHANGED <<leaf, deletedNode, deletedLeaf, taken, removeCount>>
      /\ writer.pc = "collapse" /\ writer' = Idle
      /\ pendingNodes' = [pendingNodes EXCEPT ![writer.del] = writer.node]
      /\ pendingLeaves' = [pendingLeaves EXCEPT ![writer.del] = writer.leaf]
  BY DEF RemoveCollapse
<1> DEFINE n == writer.node
           k == writer.leaf
           at == writer.parent
           d == writer.del
           c == node[n].child[ochild]
<1>3. Typed
  BY DEF Core
<1>4. /\ k \in Leaves /\ n \in Nodes /\ d \in Ages /\ InHand = {k} /\ InHand' = {}
  BY <1>2, <1>3, WriterCases, HandIs DEF Idle, InHand
<1>5. /\ at \in PlacesOf(Tree) /\ Pointer(at) = n
      /\ \E o \in Slots : /\ node[n].child[o] # Null
                          /\ \A h \in Slots \ {o} : node[n].child[h] = Null
      /\ pendingNodes[d] = Null /\ pendingLeaves[d] = Null
  BY <1>2 DEF Core, HandReady, CollapseReady, SlotFree
<1>6. \A h \in Slots \ {ochild} : node[n].child[h] = Null
  BY <1>1, <1>5
<1>7. c \in Pointers /\ at \in AllPlaces /\ n # Null /\ n \in Tree
  BY <1>3, <1>4, <1>5, NodeTyped, PlacesAll, NullApart, InTree
<1>8. /\ Stored(node, root, node', root', at, c) /\ NodesTyped' /\ root' \in Pointers
  BY <1>1, <1>3, <1>7, StoreIsStored DEF Typed
<1>9. Tree' = Tree \ {n} /\ Unique(node, root)'
  <2>1. Ptr(node, root, at) = n /\ n \in Nodes /\ ochild \in Slots
    BY <1>1, <1>4, <1>5, PointerIs
  <2>2. Unique(node, root) /\ at \in PlacesOf(Sub(node, root))
    BY <1>5 DEF Core, Tree
  <2>3. /\ Stored(node, root, node', root', at, c)
        /\ node[n].child[ochild] = c /\ OneChild(node, n, ochild)
    BY <1>1, <1>6, <1>8 DEF OneChild
  <2> HIDE DEF n, at, c
  <2>4. /\ Sub(node', root') = Sub(node, root) \ {n}
        /\ Unique(node', root')
    BY <2>1, <2>2, <2>3, StorePast
  <2> QED BY <2>4 DEF Tree
<1>10. FreeNodes' = FreeNodes /\ Ends(NextNode, deletedNode)'
  BY <1>1, <1>2, <1>5, <1>7, StoreKeepsPool
<1>11. /\ FreeLeaves' = FreeLeaves /\ Ends(NextLeaf, deletedLeaf)'
       /\ leaf' \in [Leaves -> [key : Words, value : Links]]
  BY <1>2, LeavesStay
<1>12. /\ \A e \in Ages : pendingLeaves'[e] = IF e = d THEN k ELSE pendingLeaves[e]
       /\ \A e \in Ages : pendingNodes'[e] = IF e = d THEN n ELSE pendingNodes[e]
  BY <1>2, <1>3, <1>4 DEF Typed
<1>13. k \notin Resting /\ n \notin Resting /\ k \notin FreeLeaves /\ n \notin FreeNodes
       /\ k \notin FreeNodes /\ n \notin FreeLeaves /\ k \notin Tree /\ k # n
  BY <1>4, <1>7 DEF Core, OwnedOnce
<1>14. Resting' = Resting \cup {k, n}
  <2>1. ASSUME NEW y \in Nodes \cup Leaves
        PROVE  y \in Resting' <=> y \in Resting \/ y = k \/ y = n
    <3>1. y # Null
      BY NullApart
    <3>2. y \in Resting' <=> \E e \in Ages : \/ (IF e = d THEN n ELSE pendingNodes[e]) = y
                                             \/ (IF e = d THEN k ELSE pendingLeaves[e]) = y
      BY <1>12 DEF Resting, Rests
    <3> QED BY <1>4, <1>5, <3>1, <3>2 DEF Resting, Rests
  <2>2. k \in Nodes \cup Leaves /\ n \in Nodes \cup Leaves
    BY <1>4
  <2> QED BY <2>1, <2>2 DEF Resting
<1>15. Typed'
  <2>1. /\ pendingNodes' \in [Ages -> Nodes \cup {Null}]
        /\ pendingLeaves' \in [Ages -> Leaves \cup {Null}]
    BY <1>2, <1>3, <1>4 DEF Typed
  <2>2. WriterTyped'
    BY <1>2 DEF WriterTyped
  <2> QED BY <1>2, <1>3, <1>8, <1>11, <2>1, <2>2 DEF Typed
<1>16. OwnedOnce'
  <2>1. \A e \in Ages : pendingLeaves[e] # k /\ pendingNodes[e] # n
    BY <1>4, <1>13 DEF Resting, Rests
  <2>2. \A e, f \in Ages : /\ pendingNodes'[e] = pendingNodes'[f] /\ pendingNodes'[e] # Null => e = f
                           /\ pendingLeaves'[e] = pendingLeaves'[f] /\ pendingLeaves'[e] # Null => e = f
    BY <1>12, <2>1 DEF Core, OwnedOnce
  <2> HIDE DEF n, k, d
  <2> QED BY <1>2, <1>4, <1>7, <1>9, <1>10, <1>11, <1>13, <1>14, <2>2 DEF Core, OwnedOnce
<1>17. HandReady'
  BY <1>2 DEF HandReady, LinkReady, CollapseReady, SlotFree, Idle
<1>18. Core'
  BY <1>9, <1>10, <1>11, <1>15, <1>16, <1>17 DEF Core, PoolsEnd
<1> QED BY <1>1, <1>6, <1>7, <1>9, <1>18

LEMMA InitCore ==
  ASSUME Init
  PROVE  Core /\ Tree = {}
<1>1. /\ root = Null /\ deletedNode = Null /\ deletedLeaf = Null
      /\ node = [n \in Nodes |-> [child |-> [i \in Slots |-> Null], path |-> 0, shift |-> 0]]
      /\ leaf = [k \in Leaves |-> [key |-> 0, value |-> Null]]
      /\ pendingNodes = [d \in Ages |-> Null] /\ pendingLeaves = [d \in Ages |-> Null]
      /\ removeCount = 0 /\ taken = {} /\ writer = Idle
  BY DEF Init
<1>2. Tree = {}
  BY <1>1, SubOfLeaf, NullApart DEF Tree
<1>3. FreeNodes = {} /\ FreeLeaves = {}
  BY <1>1, ChainEmpty, NextDomains, NullApart DEF FreeNodes, FreeLeaves
<1>4. PoolsEnd
  BY <1>1, <1>3, NextDomains DEF PoolsEnd, Ends, FreeNodes, FreeLeaves
<1>5. InHand = {}
  BY <1>1 DEF InHand, Idle
<1>6. Resting = {}
  BY <1>1, NullApart DEF Resting, Rests
<1>7. Typed
  <2>1. 0 \in Shifts
    BY NibNat DEF Shifts
  <2>2. 0 \in Words
    BY WordsNat
  <2>3. PathOf(0, 0) = 0
    <3>1. PathOf(0, 0) \in Nat /\ PathOf(0, 0) <= 0
      BY PathIs
    <3> QED BY <3>1
  <2>4. NodesTyped
    <3>1. node \in [Nodes -> [child : [Slots -> Pointers], path : Words, shift : Shifts]]
      BY <1>1, <2>1, <2>2 DEF Pointers
    <3>2. \A n \in Nodes : node[n].path = 0 /\ node[n].shift = 0
      BY <1>1
    <3> QED BY <2>3, <3>1, <3>2 DEF NodesTyped, Inside
  <2>5. MaxRemoves \in Nat
    BY CritnibAssumption DEF CritnibAssumption
  <2> QED BY <1>1, <2>2, <2>4, <2>5, LinksHold DEF Typed, Pointers, WriterTyped
<1>8. OwnedOnce
  BY <1>1, <1>2, <1>3, <1>5, <1>6 DEF OwnedOnce
<1>9. Unique(node, root)
  <2>1. PlacesOf(Sub(node, root)) = {RootPlace}
    BY <1>2 DEF PlacesOf, Tree
  <2> QED BY <2>1 DEF Unique
<1>10. HandReady
  BY <1>1 DEF HandReady, LinkReady, CollapseReady, SlotFree, Idle
<1> QED BY <1>2, <1>4, <1>7, <1>8, <1>9, <1>10 DEF Core

LEMMA UnreadCore ==
  ASSUME Core, UNCHANGED unread
  PROVE  Core' /\ Tree' = Tree
<1>1. UNCHANGED <<root, node, leaf, deletedNode, deletedLeaf, pendingNodes, pendingLeaves,
                  removeCount, taken, writer>>
  BY DEF unread, tree, pools
<1>2. /\ Tree' = Tree /\ FreeNodes' = FreeNodes
      /\ Ends(NextNode, deletedNode)' /\ Unique(node, root)'
      /\ NodesTyped' /\ root' \in Pointers
  BY <1>1, NodesStay
<1>3. /\ FreeLeaves' = FreeLeaves /\ Ends(NextLeaf, deletedLeaf)'
      /\ leaf' \in [Leaves -> [key : Words, value : Links]]
  BY <1>1, LeavesStay
<1>4. /\ Resting' = Resting
      /\ pendingNodes' \in [Ages -> Nodes \cup {Null}]
      /\ pendingLeaves' \in [Ages -> Leaves \cup {Null}]
  BY <1>1, PendingStays DEF Core
<1>5. InHand' = InHand
  BY <1>1 DEF InHand
<1>6. Typed'
  BY <1>1, <1>2, <1>3, <1>4 DEF Core, Typed, WriterTyped
<1>7. OwnedOnce'
  BY <1>1, <1>2, <1>3, <1>4, <1>5 DEF Core, OwnedOnce
<1>8. HandReady'
  BY <1>1, <1>2 DEF Core, HandReady, LinkReady, CollapseReady, SlotFree, Pointer
<1> QED BY <1>2, <1>3, <1>6, <1>7, <1>8 DEF Core, PoolsEnd

(* A reader, and a thread that begins or ends a call, write nothing of this. *)
Reads == UNCHANGED unread

LEMMA NextCases ==
  ASSUME [Next]_vars
  PROVE  \/ \E key \in Keys : \E value \in ValuesOf[key] : InsertBegin(key, value)
         \/ InsertLeaf
         \/ \E update \in BOOLEAN : InsertExists(update)
         \/ InsertNode \/ InsertNoNode \/ InsertLink
         \/ \E key \in Keys : RemoveBegin(key)
         \/ RemoveReclaim \/ RemoveMiss \/ RemoveUnlink \/ RemoveCollapse
         \/ Reads
<1>1. CASE UNCHANGED vars
  BY <1>1 DEF Reads, vars, unread, ghosts
<1>2. CASE Insert
  BY <1>2 DEF Insert
<1>3. CASE Remove
  BY <1>3 DEF Remove
<1>4. CASE \E query \in Queries : Ask(query)
  BY <1>4 DEF Ask, Reads
<1>5. CASE Walk
  BY <1>5 DEF Walk, CountAgain, LoadRoot, Descend, CompareKey, NearLeaf, NearOutside, NearInside,
              Aside, EdgeScan, EdgeAgain, LoadValue, Restart, Return, Reads
<1>6. CASE Leave
  BY <1>6 DEF Leave, Reads
<1> QED BY <1>1, <1>2, <1>3, <1>4, <1>5, <1>6 DEF Next

LEMMA NextCore ==
  ASSUME Core, [Next]_vars
  PROVE  Core'
BY NextCases, InsertBeginCore, InsertLeafCore, InsertExistsCore, InsertNodeCore,
   InsertNoNodeCore, InsertLinkCore, RemoveBeginCore, RemoveReclaimCore, RemoveMissCore,
   RemoveUnlinkCore, RemoveCollapseCore, UnreadCore DEF Reads

LEMMA DisjointUnion ==
  ASSUME NEW S, NEW T, IsFiniteSet(S), IsFiniteSet(T), S \cap T = {}
  PROVE  IsFiniteSet(S \cup T) /\ Cardinality(S \cup T) = Cardinality(S) + Cardinality(T)
<1>1. Cardinality(S \cap T) = 0
  BY FS_EmptySet
<1>2. Cardinality(S) \in Nat /\ Cardinality(T) \in Nat
  BY FS_CardinalityType
<1>3. /\ IsFiniteSet(S \cup T)
      /\ Cardinality(S \cup T) = Cardinality(S) + Cardinality(T) - Cardinality(S \cap T)
  BY FS_Union
<1> QED BY <1>1, <1>2, <1>3

(* As many rest in the slots as there are slots taken. *)
LEMMA SlotsCount ==
  ASSUME NEW slots, \A d, e \in Ages : slots[d] = slots[e] /\ slots[d] # Null => d = e
  PROVE  /\ IsFiniteSet({slots[d] : d \in Pending(slots)})
         /\ Cardinality({slots[d] : d \in Pending(slots)}) = Cardinality(Pending(slots))
<1> DEFINE S == Pending(slots)
           T == {slots[d] : d \in S}
           f == [d \in S |-> slots[d]]
<1>1. IsFiniteSet(S)
  <2>1. DeletedLife \in Nat
    BY CritnibAssumption DEF CritnibAssumption
  <2>2. IsFiniteSet(Ages)
    BY <2>1, FS_Interval DEF Ages
  <2> QED BY <2>2, FS_Subset DEF Pending
<1>2. f \in Bijection(S, T)
  <2>1. f \in [S -> T]
    OBVIOUS
  <2>2. \A d, e \in S : f[d] = f[e] => d = e
    BY DEF Pending
  <2>3. \A x \in T : \E d \in S : f[d] = x
    OBVIOUS
  <2> HIDE DEF f, S, T
  <2>4. f \in Injection(S, T)
    BY <2>1, <2>2 DEF Injection, IsInjective
  <2>5. f \in Surjection(S, T)
    BY <2>1, <2>3 DEF Surjection
  <2> QED BY <2>4, <2>5 DEF Bijection
<1> HIDE DEF f, S, T
<1>3. ExistsBijection(S, T)
  BY <1>2 DEF ExistsBijection
<1>4. IsFiniteSet(T) /\ Cardinality(T) = Cardinality(S)
  BY <1>1, <1>3, FS_Bijection
<1> QED BY <1>4 DEF S, T

LEMMA CoreType ==
  ASSUME Core
  PROVE  TypeOK
<1>1. /\ root \in Pointers /\ \A n \in Nodes : \A i \in Slots : node[n].child[i] \in Pointers
  BY NodeTyped DEF Core, Typed
<1>2. deletedNode \in Nodes \cup {Null} /\ deletedLeaf \in Leaves \cup {Null}
  BY NextDomains DEF Core, PoolsEnd, Ends
<1>3. taken \subseteq Nodes \cup Leaves
  <2>1. InHand \subseteq Nodes \cup Leaves
    BY WriterCases, HandIs DEF Core
  <2> QED BY <2>1, TreeIn, FreeAre DEF Core, OwnedOnce, Resting
<1> QED BY <1>1, <1>2, <1>3 DEF TypeOK, Core, Typed, Pointers

LEMMA CoreNothingLost ==
  ASSUME Core
  PROVE  NothingLost
<1> DEFINE RN == {pendingNodes[d] : d \in Pending(pendingNodes)}
           RL == {pendingLeaves[d] : d \in Pending(pendingLeaves)}
<1>1. Under(root) = Tree /\ NodePool(deletedNode) = FreeNodes /\ LeafPool(deletedLeaf) = FreeLeaves
  BY UnderIsSub, PoolsAre DEF Tree
<1>2. TypeOK
  BY CoreType
<1>3. /\ pendingNodes \in [Ages -> Nodes \cup {Null}]
      /\ pendingLeaves \in [Ages -> Leaves \cup {Null}]
  BY DEF Core, Typed
<1>4. RN \subseteq Nodes /\ RL \subseteq Leaves
  BY <1>3 DEF Pending
<1>5. Resting = RN \cup RL
  <2>1. \A x \in Nodes \cup Leaves : x \in Resting => x \in RN \cup RL
    BY NullApart DEF Resting, Rests, Pending
  <2>2. \A x \in Nodes \cup Leaves : x \in RN \cup RL => x \in Resting
    BY DEF Resting, Rests, Pending
  <2>3. Resting \subseteq Nodes \cup Leaves
    BY DEF Resting
  <2> QED BY <1>4, <2>1, <2>2, <2>3
<1>6. taken = Tree \cup InHand \cup FreeNodes \cup FreeLeaves \cup (RN \cup RL)
  BY <1>5 DEF Core, OwnedOnce
<1>7. /\ IsFiniteSet(RN) /\ Cardinality(RN) = Cardinality(Pending(pendingNodes))
      /\ IsFiniteSet(RL) /\ Cardinality(RL) = Cardinality(Pending(pendingLeaves))
  BY SlotsCount DEF Core, OwnedOnce
<1>8. IsFiniteSet(taken)
  <2>1. IsFiniteSet(Nodes \cup Leaves)
    BY FS_Union, CritnibAssumption DEF CritnibAssumption
  <2> QED BY <1>2, <2>1, FS_Subset DEF TypeOK
<1>9. /\ IsFiniteSet(Tree) /\ IsFiniteSet(InHand)
      /\ IsFiniteSet(FreeNodes) /\ IsFiniteSet(FreeLeaves)
  BY <1>6, <1>8, FS_Subset
<1>10. /\ RN \cap RL = {} /\ FreeNodes \cap FreeLeaves = {}
       /\ Tree \cap InHand = {}
       /\ (Tree \cup InHand) \cap FreeNodes = {}
       /\ (Tree \cup InHand \cup FreeNodes) \cap FreeLeaves = {}
       /\ (Tree \cup InHand \cup FreeNodes \cup FreeLeaves) \cap (RN \cup RL) = {}
  BY <1>4, <1>5, FreeAre, NullApart DEF Core, OwnedOnce
<1> HIDE DEF RN, RL
<1>11. Cardinality(taken) =
          Cardinality(Tree) + Cardinality(InHand) + Cardinality(FreeNodes)
          + Cardinality(FreeLeaves) + Cardinality(RN) + Cardinality(RL)
  <2>1. IsFiniteSet(RN \cup RL) /\ Cardinality(RN \cup RL) = Cardinality(RN) + Cardinality(RL)
    BY <1>7, <1>10, DisjointUnion
  <2>2. /\ IsFiniteSet(Tree \cup InHand)
        /\ Cardinality(Tree \cup InHand) = Cardinality(Tree) + Cardinality(InHand)
    BY <1>9, <1>10, DisjointUnion
  <2>3. /\ IsFiniteSet(Tree \cup InHand \cup FreeNodes)
        /\ Cardinality(Tree \cup InHand \cup FreeNodes)
             = Cardinality(Tree \cup InHand) + Cardinality(FreeNodes)
    BY <1>9, <1>10, <2>2, DisjointUnion
  <2>4. /\ IsFiniteSet(Tree \cup InHand \cup FreeNodes \cup FreeLeaves)
        /\ Cardinality(Tree \cup InHand \cup FreeNodes \cup FreeLeaves)
             = Cardinality(Tree \cup InHand \cup FreeNodes) + Cardinality(FreeLeaves)
    BY <1>9, <1>10, <2>3, DisjointUnion
  <2>5. Cardinality(taken)
          = Cardinality(Tree \cup InHand \cup FreeNodes \cup FreeLeaves) + Cardinality(RN \cup RL)
    BY <1>6, <1>10, <2>1, <2>4, DisjointUnion
  <2>6. /\ Cardinality(Tree) \in Nat /\ Cardinality(InHand) \in Nat
        /\ Cardinality(FreeNodes) \in Nat /\ Cardinality(FreeLeaves) \in Nat
        /\ Cardinality(RN) \in Nat /\ Cardinality(RL) \in Nat
    BY <1>7, <1>9, FS_CardinalityType
  <2> QED BY <2>1, <2>2, <2>3, <2>4, <2>5, <2>6
<1>12. /\ \A n \in FreeNodes : n \notin NodePool(node[n].child[0])
       /\ \A k \in FreeLeaves : k \notin LeafPool(leaf[k].value)
  BY FreeAre, PoolsAre DEF Core, PoolsEnd, Ends, FreeNodes, FreeLeaves
<1> QED BY <1>1, <1>2, <1>6, <1>7, <1>11, <1>12 DEF NothingLost, RN, RL

(* Whatever malloc gave is in exactly one of the tree, the two pools, the    *)
(* slots of the removed and the writer's hands, after every step of every    *)
(* insertion and removal, and the pools end (critnib.c: alloc_node,          *)
(* free_node, alloc_leaf, free_leaf, and all the ways out of critnib_insert  *)
(* and critnib_remove).                                                      *)
THEOREM CritnibNothingLost == Spec => []NothingLost
<1>1. Init => Core
  BY InitCore
<1>2. Core /\ [Next]_vars => Core'
  BY NextCore
<1>3. Core => NothingLost
  BY CoreNothingLost
<1> QED BY <1>1, <1>2, <1>3, PTL DEF Spec

(***************************************************************************)
(* The age of what rests                                                   *)
(***************************************************************************)
(* How many removals ago a slot was filled, and the number, shifted by       *)
(* DELETED_LIFE, of the removal that filled it.                              *)
Age(d) ==
  IF writer.pc = "reclaim" /\ d = writer.del THEN DeletedLife
  ELSE (removeCount + DeletedLife - 1 - d) % DeletedLife

Stamp(d) == removeCount + DeletedLife - Age(d)

(* A removal puts what it removes into the slot of its number. *)
CountOwn ==
  writer.pc \in {"reclaim", "unlink", "collapse"} =>
    removeCount > 0 /\ writer.del = (removeCount - 1) % DeletedLife

(* A leaf that is unlinked and not yet at rest. *)
Unlinked(x) == writer.pc = "collapse" /\ x = writer.leaf

(* Not to be reclaimed before what was removed with number w is. *)
Safe(x, w) ==
  \/ x \in Tree
  \/ Unlinked(x)
  \/ \E d \in Ages : x # Null /\ Rests(x, d) /\ Stamp(d) >= w

(* What a node at rest links to is not reclaimed before it. *)
RestsInOrder ==
  \A d \in Ages : pendingNodes[d] # Null =>
      \A c \in Kids(node, pendingNodes[d]) : Safe(c, Stamp(d))

Grace == Core /\ CountOwn /\ RestsInOrder

LEMMA ModOf ==
  ASSUME NEW L \in Nat \ {0}, NEW q \in Nat, NEW y \in 0 .. L - 1
  PROVE  (L * q + y) % L = y
OBVIOUS

LEMMA ModNext ==
  ASSUME NEW L \in Nat \ {0}, NEW c \in Nat, NEW d \in 0 .. L - 1
  PROVE  /\ d = c % L => (c + L - 1 - d) % L = L - 1
         /\ d # c % L => (c + 1 + L - 1 - d) % L = ((c + L - 1 - d) % L) + 1
<1> DEFINE q == c \div L
           r == c % L
<1>1. q \in Nat /\ r \in 0 .. L - 1 /\ c = L * q + r
  BY DivNat
<1> HIDE DEF q, r
<1>2. CASE d = r
  <2>1. c + L - 1 - d = L * q + (L - 1)
    BY <1>1, <1>2
  <2>2. L - 1 \in 0 .. L - 1
    OBVIOUS
  <2>3. (L * q + (L - 1)) % L = L - 1
    BY <1>1, <2>2, ModOf
  <2> QED BY <1>2, <2>1, <2>3 DEF r
<1>3. CASE d < r
  <2>1. r - 1 - d \in 0 .. L - 1 /\ r - d \in 0 .. L - 1 /\ q + 1 \in Nat
    BY <1>1, <1>3
  <2>2. /\ c + L - 1 - d = L * (q + 1) + (r - 1 - d)
        /\ c + 1 + L - 1 - d = L * (q + 1) + (r - d)
    BY <1>1
  <2>3. /\ (L * (q + 1) + (r - 1 - d)) % L = r - 1 - d
        /\ (L * (q + 1) + (r - d)) % L = r - d
    BY <2>1, ModOf
  <2>4. r - d = (r - 1 - d) + 1
    BY <1>1
  <2> QED BY <1>1, <1>3, <2>2, <2>3, <2>4 DEF r
<1>4. CASE d > r
  <2>1. r + L - 1 - d \in 0 .. L - 1 /\ r + L - d \in 0 .. L - 1
    BY <1>1, <1>4
  <2>2. /\ c + L - 1 - d = L * q + (r + L - 1 - d)
        /\ c + 1 + L - 1 - d = L * q + (r + L - d)
    BY <1>1
  <2>3. /\ (L * q + (r + L - 1 - d)) % L = r + L - 1 - d
        /\ (L * q + (r + L - d)) % L = r + L - d
    BY <1>1, <2>1, ModOf
  <2>4. r + L - d = (r + L - 1 - d) + 1
    BY <1>1
  <2>5. (c + L - 1 - d) % L = r + L - 1 - d /\ (c + 1 + L - 1 - d) % L = r + L - d
    BY <2>2, <2>3
  <2>6. d # c % L
    BY <1>1, <1>4 DEF r
  <2> QED BY <2>4, <2>5, <2>6
<1> QED BY <1>1, <1>2, <1>3, <1>4

LEMMA LifeNat == DeletedLife \in Nat \ {0} /\ MaxRemoves \in Nat /\ Ages = 0 .. DeletedLife - 1
BY CritnibAssumption DEF CritnibAssumption, Ages

LEMMA StampIs ==
  ASSUME Typed, NEW d \in Ages
  PROVE  /\ Stamp(d) \in Nat /\ removeCount \in Nat
         /\ removeCount <= Stamp(d) /\ Stamp(d) <= removeCount + DeletedLife
         /\ ~ (writer.pc = "reclaim" /\ d = writer.del) => removeCount < Stamp(d)
         /\ writer.pc = "reclaim" /\ d = writer.del => Stamp(d) = removeCount
<1>1. removeCount \in Nat
  BY LifeNat DEF Typed
<1> DEFINE x == removeCount + DeletedLife - 1 - d
<1>2. x \in Nat /\ DeletedLife \in Nat \ {0}
  BY <1>1, LifeNat
<1>3. x % DeletedLife \in 0 .. DeletedLife - 1
  BY <1>2, DivNat
<1>4. Age(d) = IF writer.pc = "reclaim" /\ d = writer.del THEN DeletedLife ELSE x % DeletedLife
  BY DEF Age
<1> QED BY <1>1, <1>2, <1>3, <1>4 DEF Stamp

LEMMA StampNow ==
  ASSUME Core, CountOwn, writer.pc \in {"unlink", "collapse"}
  PROVE  writer.del \in Ages /\ Stamp(writer.del) = removeCount + DeletedLife
<1> DEFINE c == removeCount - 1
           d == writer.del
<1>1. removeCount \in Nat /\ removeCount > 0 /\ d = c % DeletedLife
  BY LifeNat DEF Core, Typed, CountOwn
<1>0. c \in Nat
  BY <1>1
<1>2. c \in Nat /\ d \in 0 .. DeletedLife - 1 /\ c = DeletedLife * (c \div DeletedLife) + d /\ c \div DeletedLife \in Nat
  <2> HIDE DEF c, d
  <2> QED BY <1>0, <1>1, LifeNat, DivNat
<1>3. removeCount + DeletedLife - 1 - d = DeletedLife * (c \div DeletedLife + 1) + 0
  BY <1>1, <1>2, LifeNat
<1>4. (DeletedLife * (c \div DeletedLife + 1) + 0) % DeletedLife = 0
  <2>1. c \div DeletedLife + 1 \in Nat /\ 0 \in 0 .. DeletedLife - 1
    <3> HIDE DEF c
    <3> QED BY <1>2, LifeNat
  <2> HIDE DEF c
  <2> QED BY <2>1, LifeNat, ModOf
<1>5. Age(d) = 0
  BY <1>3, <1>4 DEF Age
<1> QED BY <1>1, <1>2, <1>5, LifeNat DEF Stamp

(* The stamps stay, but that of the slot that is emptied. *)
LEMMA StampStays ==
  ASSUME UNCHANGED removeCount, writer.pc # "reclaim", writer'.pc # "reclaim", NEW d
  PROVE  Stamp(d)' = Stamp(d)
BY DEF Stamp, Age

LEMMA StampBegin ==
  ASSUME Typed, NEW key, RemoveBegin(key), NEW d \in Ages
  PROVE  Stamp(d)' = Stamp(d)
<1>1. /\ writer = Idle /\ removeCount' = removeCount + 1
      /\ writer' = [pc |-> "reclaim", key |-> key, del |-> removeCount % DeletedLife]
  BY DEF RemoveBegin
<1>2. removeCount \in Nat /\ DeletedLife \in Nat \ {0} /\ d \in 0 .. DeletedLife - 1
  BY LifeNat DEF Typed
<1>3. Age(d) = (removeCount + DeletedLife - 1 - d) % DeletedLife
  BY <1>1 DEF Age, Idle
<1>4. Age(d)' = IF d = removeCount % DeletedLife THEN DeletedLife
                ELSE (removeCount + 1 + DeletedLife - 1 - d) % DeletedLife
  BY <1>1 DEF Age
<1>5. /\ d = removeCount % DeletedLife => (removeCount + DeletedLife - 1 - d) % DeletedLife = DeletedLife - 1
      /\ d # removeCount % DeletedLife =>
             (removeCount + 1 + DeletedLife - 1 - d) % DeletedLife
               = ((removeCount + DeletedLife - 1 - d) % DeletedLife) + 1
  BY <1>2, ModNext
<1>6. Age(d)' = Age(d) + 1
  BY <1>2, <1>3, <1>4, <1>5
<1>7. Age(d) \in Nat
  <2>1. removeCount + DeletedLife - 1 - d \in Nat
    BY <1>2
  <2> QED BY <1>2, <1>3, <2>1, DivNat
<1> QED BY <1>1, <1>2, <1>6, <1>7 DEF Stamp

(* What is safe stays so, but for what a removal reclaims. *)
KeepsSafe ==
  \A x \in Nodes \cup Leaves, w \in Nat :
     Safe(x, w) /\ w <= removeCount + DeletedLife /\ (writer.pc = "reclaim" => removeCount < w)
       => Safe(x, w)'

LEMMA KidsIn ==
  ASSUME Typed, NEW n \in Nodes
  PROVE  Kids(node, n) \subseteq Nodes \cup Leaves
BY NodeTyped DEF Kids, Pointers

LEMMA StoreKeepsOthers ==
  ASSUME Typed, NEW at \in PlacesOf(Tree), NEW q \in Pointers, Store(at, q),
         NEW n \in Nodes, n \notin Tree, NEW i \in Slots
  PROVE  node'[n].child[i] = node[n].child[i]
<1>1. at \in AllPlaces
  BY PlacesAll
<1>2. Stored(node, root, node', root', at, q)
  BY <1>1, StoreIsStored DEF Typed
<1>3. <<n, i>> # at
  BY PlaceCases, NotRootPlace
<1>4. <<n, i>> \in AllPlaces /\ \A nd, r : Ptr(nd, r, <<n, i>>) = nd[n].child[i]
  BY PlaceOfNode DEF AllPlaces
<1> QED BY <1>2, <1>3, <1>4 DEF Stored

LEMMA PlainSafe ==
  ASSUME Tree \subseteq Tree', UNCHANGED <<pendingNodes, pendingLeaves>>,
         \A d \in Ages : Stamp(d)' = Stamp(d),
         writer.pc = "collapse" => UNCHANGED writer
  PROVE  KeepsSafe
<1> SUFFICES ASSUME NEW x \in Nodes \cup Leaves, NEW w \in Nat, Safe(x, w)
             PROVE  Safe(x, w)'
  BY DEF KeepsSafe
<1>1. CASE x \in Tree
  BY <1>1 DEF Safe
<1>2. CASE Unlinked(x)
  BY <1>2 DEF Safe, Unlinked
<1>3. CASE \E d \in Ages : x # Null /\ Rests(x, d) /\ Stamp(d) >= w
  <2>1. PICK d \in Ages : x # Null /\ Rests(x, d) /\ Stamp(d) >= w
    BY <1>3
  <2>2. Rests(x, d)' /\ Stamp(d)' >= w
    BY <2>1 DEF Rests
  <2> QED BY <2>1, <2>2 DEF Safe
<1> QED BY <1>1, <1>2, <1>3 DEF Safe

(* What rested in a slot still rests in order there. *)
LEMMA RestKept ==
  ASSUME Grace, KeepsSafe, NEW d \in Ages, pendingNodes[d] # Null,
         pendingNodes'[d] = pendingNodes[d], Stamp(d)' = Stamp(d),
         writer.pc = "reclaim" => d # writer.del,
         \A i \in Slots : node'[pendingNodes[d]].child[i] = node[pendingNodes[d]].child[i],
         NEW c \in Kids(node', pendingNodes'[d])
  PROVE  Safe(c, Stamp(d))'
<1> DEFINE n == pendingNodes[d]
           w == Stamp(d)
<1>1. n \in Nodes /\ Typed
  BY DEF Grace, Core, Typed
<1>2. Kids(node', n) = Kids(node, n)
  BY <1>1 DEF Kids
<1>3. c \in Kids(node, n) /\ c \in Nodes \cup Leaves
  BY <1>1, <1>2, KidsIn
<1>4. Safe(c, w)
  BY <1>3 DEF Grace, RestsInOrder
<1>5. /\ w \in Nat /\ w <= removeCount + DeletedLife
      /\ writer.pc = "reclaim" => removeCount < w
  BY <1>1, StampIs
<1>6. \A v \in Nat : v = w => Safe(c, v)'
  BY <1>3, <1>4, <1>5 DEF KeepsSafe
<1>7. Stamp(d)' \in Nat
  BY <1>5
<1> QED BY <1>6, <1>7 DEF Safe

LEMMA RestingIs ==
  ASSUME Core, NEW d \in Ages, pendingNodes[d] # Null
  PROVE  pendingNodes[d] \in Nodes /\ pendingNodes[d] \in Resting /\ pendingNodes[d] \notin Tree
BY DEF Core, Typed, Resting, Rests, OwnedOnce

(* Steps that put nothing to rest and reclaim nothing. *)
LEMMA PlainGrace ==
  ASSUME Grace, Core', CountOwn', Tree \subseteq Tree',
         UNCHANGED <<pendingNodes, pendingLeaves>>,
         \A d \in Ages : Stamp(d)' = Stamp(d),
         writer.pc \notin {"reclaim", "collapse"},
         \A n \in Resting \cap Nodes : \A i \in Slots : node'[n].child[i] = node[n].child[i]
  PROVE  Grace' /\ KeepsSafe
<1>1. KeepsSafe
  BY PlainSafe
<1>2. RestsInOrder'
  <2> SUFFICES ASSUME NEW d \in Ages, pendingNodes'[d] # Null,
                      NEW c \in Kids(node', pendingNodes'[d])
               PROVE  Safe(c, Stamp(d))'
    BY DEF RestsInOrder
  <2>1. pendingNodes[d] = pendingNodes'[d]
    OBVIOUS
  <2>2. pendingNodes[d] \in Nodes /\ pendingNodes[d] \in Resting
    BY <2>1, RestingIs DEF Grace
  <2> QED BY <1>1, <2>1, <2>2, RestKept
<1> QED BY <1>1, <1>2 DEF Grace

LEMMA InsertGrace ==
  ASSUME Grace, \/ \E key \in Keys : \E value \in ValuesOf[key] : InsertBegin(key, value)
                \/ InsertLeaf
                \/ \E update \in BOOLEAN : InsertExists(update)
                \/ InsertNode \/ InsertNoNode \/ InsertLink
  PROVE  Grace' /\ KeepsSafe
<1>1. Core /\ Typed
  BY DEF Grace, Core
<1>2. /\ UNCHANGED <<pendingNodes, pendingLeaves, removeCount>>
      /\ writer.pc \in {"idle", "place", "link"} /\ writer'.pc \in {"idle", "place", "link"}
  BY DEF InsertBegin, InsertLeaf, InsertExists, InsertNode, InsertNoNode, InsertLink, pools, Idle
<1>3. CountOwn' /\ \A d \in Ages : Stamp(d)' = Stamp(d)
  BY <1>2, StampStays DEF CountOwn
<1>4. Core' /\ Tree \subseteq Tree'
  BY <1>1, InsertBeginCore, InsertLeafCore, InsertExistsCore, InsertNodeCore, InsertNoNodeCore,
     InsertLinkCore
<1>5. ASSUME NEW n \in Resting \cap Nodes, NEW i \in Slots
      PROVE  node'[n].child[i] = node[n].child[i]
  <2>0. n \in Nodes /\ n \notin Tree
    BY <1>1 DEF Core, OwnedOnce
  <2>1. CASE UNCHANGED node
    BY <2>1
  <2>2. CASE InsertLeaf
    <3>1. PICK at \in Stops(newKey, Shared(newKey)) : Store(at, writer.leaf)
      BY <2>2 DEF InsertLeaf
    <3>2. writer.leaf \in Leaves /\ newKey \in Nat
      BY <1>1, <2>2, HandIs, LeafTyped DEF InsertLeaf, newKey
    <3>3. at \in PlacesOf(Tree)
      BY <1>1, <3>2, SharedNodes, StopInTree
    <3>4. writer.leaf \in Pointers
      BY <3>2 DEF Pointers
    <3> QED BY <1>1, <2>0, <3>1, <3>3, <3>4, StoreKeepsOthers
  <2>3. CASE InsertNode
    <3>1. PICK at \in Stops(newKey, Shared(newKey)), m \in Nodes :
            /\ m \notin Tree \cup InHand \cup Resting
            /\ node' = [node EXCEPT ![m] = NewNode(newKey, writer.leaf, Pointer(at))]
      BY <1>1, <2>3, InsertNodeCore
    <3>2. node'[n] = node[n]
      BY <1>1, <3>1 DEF Typed, NodesTyped
    <3> QED BY <3>2
  <2>4. CASE InsertLink
    <3>1. /\ Store(writer.parent, writer.node) /\ writer.pc = "link"
      BY <2>4 DEF InsertLink
    <3>2. writer.parent \in PlacesOf(Tree) /\ writer.node \in Pointers
      BY <1>1, <3>1, HandIs DEF Core, HandReady, LinkReady, Pointers
    <3> QED BY <1>1, <2>0, <3>1, <3>2, StoreKeepsOthers
  <2> QED BY <2>1, <2>2, <2>3, <2>4 DEF InsertBegin, InsertExists, InsertNoNode, tree
<1> QED BY <1>2, <1>3, <1>4, <1>5, PlainGrace

LEMMA RemoveBeginGrace ==
  ASSUME Grace, NEW key \in Keys, RemoveBegin(key)
  PROVE  Grace' /\ KeepsSafe
<1>1. Core /\ Typed
  BY DEF Grace, Core
<1>2. /\ UNCHANGED <<pendingNodes, pendingLeaves, node>> /\ writer = Idle /\ writer.pc = "idle"
      /\ removeCount' = removeCount + 1
      /\ writer' = [pc |-> "reclaim", key |-> key, del |-> removeCount % DeletedLife]
  BY DEF RemoveBegin, pools, tree, Idle
<1>3. Core' /\ Tree' = Tree
  BY <1>1, RemoveBeginCore
<1>4. \A d \in Ages : Stamp(d)' = Stamp(d)
  BY <1>1, StampBegin
<1>5. CountOwn'
  <2>1. removeCount \in Nat
    BY <1>1, LifeNat DEF Typed
  <2> QED BY <1>2, <2>1 DEF CountOwn
<1> QED BY <1>2, <1>3, <1>4, <1>5, PlainGrace

LEMMA RemoveMissGrace ==
  ASSUME Grace, RemoveMiss
  PROVE  Grace' /\ KeepsSafe
<1>1. Core /\ Typed
  BY DEF Grace, Core
<1>2. /\ UNCHANGED <<pendingNodes, pendingLeaves, node, removeCount>>
      /\ writer.pc = "unlink" /\ writer'.pc = "idle"
  BY DEF RemoveMiss, pools, tree, Idle
<1>3. Core' /\ Tree' = Tree
  BY <1>1, RemoveMissCore
<1>4. CountOwn' /\ \A d \in Ages : Stamp(d)' = Stamp(d)
  BY <1>2, StampStays DEF CountOwn
<1> QED BY <1>2, <1>3, <1>4, PlainGrace

LEMMA ReadsGrace ==
  ASSUME Grace, UNCHANGED unread
  PROVE  Grace' /\ KeepsSafe
<1>1. UNCHANGED <<root, node, pendingNodes, pendingLeaves, removeCount, writer>>
  BY DEF unread, tree, pools
<1>2. /\ Core' /\ Tree' = Tree
  BY UnreadCore DEF Grace
<1>3. \A d : Stamp(d)' = Stamp(d)
  BY <1>1 DEF Stamp, Age
<1>4. \A x, w : Safe(x, w)' <=> Safe(x, w)
  BY <1>1, <1>2, <1>3 DEF Safe, Unlinked, Rests
<1>5. \A n : Kids(node', n) = Kids(node, n)
  BY <1>1 DEF Kids
<1>6. CountOwn'
  BY <1>1 DEF Grace, CountOwn
<1>7. KeepsSafe
  BY <1>4 DEF KeepsSafe
<1>8. RestsInOrder'
  <2> SUFFICES ASSUME NEW d \in Ages, pendingNodes'[d] # Null,
                      NEW c \in Kids(node', pendingNodes'[d])
               PROVE  Safe(c, Stamp(d))'
    BY DEF RestsInOrder
  <2>1. Safe(c, Stamp(d))
    BY <1>1, <1>5 DEF Grace, RestsInOrder
  <2>2. c \in Tree \/ Unlinked(c) \/ \E e \in Ages : c # Null /\ Rests(c, e) /\ Stamp(e) >= Stamp(d)
    BY <2>1 DEF Safe
  <2>3. c \in Tree' \/ Unlinked(c)' \/ \E e \in Ages : c # Null /\ Rests(c, e)' /\ Stamp(e)' >= Stamp(d)'
    BY <1>1, <1>2, <1>3, <2>2 DEF Unlinked, Rests
  <2> QED BY <2>3 DEF Safe
<1> QED BY <1>2, <1>6, <1>7, <1>8 DEF Grace

LEMMA RemoveReclaimGrace ==
  ASSUME Grace, RemoveReclaim
  PROVE  Grace' /\ KeepsSafe
<1> DEFINE d == writer.del
<1>1. Core /\ Typed /\ CountOwn
  BY DEF Grace, Core
<1>2. /\ writer.pc = "reclaim" /\ UNCHANGED removeCount
      /\ pendingNodes' = [pendingNodes EXCEPT ![d] = Null]
      /\ pendingLeaves' = [pendingLeaves EXCEPT ![d] = Null]
      /\ writer' = [writer EXCEPT !.pc = "unlink"]
  BY DEF RemoveReclaim
<1>3. /\ Core' /\ Tree' = Tree
      /\ \A n \in Nodes : n # pendingNodes[d] => node'[n] = node[n]
  BY <1>1, RemoveReclaimCore
<1>4. writer'.pc = "unlink" /\ writer'.del = d /\ d \in Ages
  BY <1>1, <1>2, WriterCases
<1>5. CountOwn'
  BY <1>1, <1>2, <1>4 DEF CountOwn
<1>6. \A e \in Ages : e # d => /\ Stamp(e)' = Stamp(e)
                              /\ pendingNodes'[e] = pendingNodes[e]
                              /\ pendingLeaves'[e] = pendingLeaves[e]
  BY <1>1, <1>2, <1>4 DEF Stamp, Age, Typed
<1>7. KeepsSafe
  <2> SUFFICES ASSUME NEW x \in Nodes \cup Leaves, NEW w \in Nat, Safe(x, w), removeCount < w
               PROVE  Safe(x, w)'
    BY <1>2 DEF KeepsSafe
  <2>1. CASE x \in Tree
    BY <1>3, <2>1 DEF Safe
  <2>2. CASE Unlinked(x)
    BY <1>2, <2>2 DEF Unlinked
  <2>3. CASE \E e \in Ages : x # Null /\ Rests(x, e) /\ Stamp(e) >= w
    <3>1. PICK e \in Ages : x # Null /\ Rests(x, e) /\ Stamp(e) >= w
      BY <2>3
    <3>2. Stamp(d) = removeCount /\ removeCount \in Nat
      BY <1>1, <1>2, <1>4, StampIs
    <3>3. e # d
      BY <3>1, <3>2
    <3>4. Rests(x, e)' /\ Stamp(e)' >= w
      BY <1>6, <3>1, <3>3 DEF Rests
    <3> QED BY <3>1, <3>4 DEF Safe
  <2> QED BY <2>1, <2>2, <2>3 DEF Safe
<1>8. RestsInOrder'
  <2> SUFFICES ASSUME NEW e \in Ages, pendingNodes'[e] # Null,
                      NEW c \in Kids(node', pendingNodes'[e])
               PROVE  Safe(c, Stamp(e))'
    BY DEF RestsInOrder
  <2>1. e # d
    BY <1>1, <1>2, <1>4 DEF Typed
  <2>2. pendingNodes'[e] = pendingNodes[e] /\ Stamp(e)' = Stamp(e) /\ pendingNodes[e] # Null
    BY <1>6, <2>1
  <2>3. pendingNodes[e] \in Nodes /\ pendingNodes[e] # pendingNodes[d]
    BY <1>1, <1>4, <2>1, <2>2, RestingIs DEF Core, OwnedOnce
  <2>4. \A i \in Slots : node'[pendingNodes[e]].child[i] = node[pendingNodes[e]].child[i]
    BY <1>3, <2>3
  <2> QED BY <1>7, <2>1, <2>2, <2>4, RestKept
<1> QED BY <1>3, <1>5, <1>7, <1>8 DEF Grace

LEMMA RemoveUnlinkGrace ==
  ASSUME Grace, RemoveUnlink
  PROVE  Grace' /\ KeepsSafe
<1> DEFINE d == writer.del
<1>1. Core /\ Typed /\ CountOwn
  BY DEF Grace, Core
<1>2. /\ writer.pc = "unlink" /\ UNCHANGED <<removeCount, pendingNodes>>
  BY DEF RemoveUnlink
<1>3. Core'
  BY <1>1, RemoveUnlinkCore
<1>4. PICK at \in Stops(writer.key, Nodes) :
              /\ Found(writer.key, Pointer(at)) /\ Store(at, Null)
              /\ Pointer(at) \in Tree \cap Leaves
              /\ Tree' = Tree \ {Pointer(at)}
              /\ \/ /\ writer' = Idle
                    /\ pendingLeaves' = [pendingLeaves EXCEPT ![d] = Pointer(at)]
                 \/ /\ writer'.pc = "collapse" /\ writer'.leaf = Pointer(at)
                    /\ writer'.node = at[1] /\ writer'.del = d
                    /\ UNCHANGED pendingLeaves
  BY <1>1, RemoveUnlinkCore
<1>5. writer'.pc \in {"idle", "collapse"}
  BY <1>4 DEF Idle
<1>6. CountOwn'
  BY <1>1, <1>2, <1>4, <1>5 DEF CountOwn, Idle
<1>7. \A e \in Ages : Stamp(e)' = Stamp(e)
  BY <1>2, <1>5, StampStays
<1>8. d \in Ages /\ Stamp(d) = removeCount + DeletedLife
  BY <1>1, <1>2, StampNow
<1>9. pendingLeaves[d] = Null
  BY <1>1, <1>2 DEF Core, HandReady, SlotFree
<1>10. KeepsSafe
  <2> SUFFICES ASSUME NEW x \in Nodes \cup Leaves, NEW w \in Nat, Safe(x, w),
                      w <= removeCount + DeletedLife
               PROVE  Safe(x, w)'
    BY DEF KeepsSafe
  <2>0. x # Null
    BY NullApart
  <2>1. CASE x \in Tree'
    BY <2>1 DEF Safe
  <2>2. CASE x \in Tree /\ x \notin Tree'
    <3>1. x = Pointer(at)
      BY <1>4, <2>2
    <3>2. CASE writer' = Idle
      <4>0. pendingLeaves' = [pendingLeaves EXCEPT ![d] = Pointer(at)]
        BY <1>4, <3>2 DEF Idle
      <4>1. PICK e \in Ages : e = d
        BY <1>8
      <4>2. Rests(x, e)'
        BY <1>1, <1>8, <3>1, <4>0, <4>1 DEF Typed, Rests
      <4>3. Stamp(e)' >= w
        BY <1>7, <1>8, <4>1
      <4> QED BY <2>0, <4>2, <4>3 DEF Safe
    <3>3. CASE writer'.pc = "collapse"
      BY <1>4, <3>1, <3>3 DEF Safe, Unlinked, Idle
    <3> QED BY <1>4, <3>2, <3>3
  <2>3. CASE Unlinked(x)
    BY <1>2, <2>3 DEF Unlinked
  <2>4. CASE \E e \in Ages : x # Null /\ Rests(x, e) /\ Stamp(e) >= w
    <3>1. PICK e \in Ages : Rests(x, e) /\ Stamp(e) >= w
      BY <2>4
    <3>2. Rests(x, e)'
      BY <1>1, <1>2, <1>4, <1>9, <2>0, <3>1 DEF Rests, Typed
    <3>3. Stamp(e)' >= w
      BY <1>7, <3>1
    <3> QED BY <2>0, <3>2, <3>3 DEF Safe
  <2> QED BY <2>1, <2>2, <2>3, <2>4 DEF Safe
<1>11. RestsInOrder'
  <2> SUFFICES ASSUME NEW e \in Ages, pendingNodes'[e] # Null,
                      NEW c \in Kids(node', pendingNodes'[e])
               PROVE  Safe(c, Stamp(e))'
    BY DEF RestsInOrder
  <2>1. pendingNodes'[e] = pendingNodes[e] /\ Stamp(e)' = Stamp(e) /\ pendingNodes[e] # Null
    BY <1>2, <1>7
  <2>2. pendingNodes[e] \in Nodes /\ pendingNodes[e] \notin Tree
    BY <1>1, <2>1, RestingIs
  <2>3. at \in PlacesOf(Tree)
    BY <1>1, <1>2, WriterCases, WordsNat, StopInTree
  <2>4. \A i \in Slots : node'[pendingNodes[e]].child[i] = node[pendingNodes[e]].child[i]
    <3>1. Null \in Pointers
      BY DEF Pointers
    <3> QED BY <1>1, <1>4, <2>2, <2>3, <3>1, StoreKeepsOthers
  <2> QED BY <1>2, <1>10, <2>1, <2>4, RestKept
<1> QED BY <1>3, <1>6, <1>10, <1>11 DEF Grace

LEMMA RemoveCollapseGrace ==
  ASSUME Grace, RemoveCollapse
  PROVE  Grace' /\ KeepsSafe
<1> DEFINE d == writer.del
           n == writer.node
           k == writer.leaf
<1>1. Core /\ Typed /\ CountOwn
  BY DEF Grace, Core
<1>2. /\ writer.pc = "collapse" /\ UNCHANGED <<removeCount>> /\ writer' = Idle /\ writer'.pc = "idle"
      /\ pendingNodes' = [pendingNodes EXCEPT ![d] = n]
      /\ pendingLeaves' = [pendingLeaves EXCEPT ![d] = k]
  BY DEF RemoveCollapse, Idle
<1>3. Core' /\ Tree' = Tree \ {n} /\ n \in Tree
  BY <1>1, RemoveCollapseCore
<1>4. PICK o \in Slots : /\ node[n].child[o] # Null
                         /\ \A h \in Slots \ {o} : node[n].child[h] = Null
                         /\ Store(writer.parent, node[n].child[o])
  BY <1>1, RemoveCollapseCore
<1> DEFINE c == node[n].child[o]
<1>5. /\ n \in Nodes /\ k \in Leaves /\ d \in Ages
      /\ writer.parent \in PlacesOf(Tree) /\ Pointer(writer.parent) = n
      /\ pendingNodes[d] = Null /\ pendingLeaves[d] = Null
  BY <1>1, <1>2, WriterCases DEF Core, HandReady, CollapseReady, SlotFree
<1>6. CountOwn'
  BY <1>2 DEF CountOwn
<1>7. \A e \in Ages : Stamp(e)' = Stamp(e)
  BY <1>2, StampStays
<1>8. Stamp(d) = removeCount + DeletedLife /\ removeCount \in Nat /\ DeletedLife \in Nat
  BY <1>1, <1>2, StampNow, StampIs, LifeNat
<1>9. \A e \in Ages : /\ pendingNodes'[e] = IF e = d THEN n ELSE pendingNodes[e]
                      /\ pendingLeaves'[e] = IF e = d THEN k ELSE pendingLeaves[e]
  BY <1>1, <1>2, <1>5 DEF Typed
<1>10. KeepsSafe
  <2> SUFFICES ASSUME NEW x \in Nodes \cup Leaves, NEW w \in Nat, Safe(x, w),
                      w <= removeCount + DeletedLife
               PROVE  Safe(x, w)'
    BY DEF KeepsSafe
  <2>0. x # Null
    BY NullApart
  <2>1. CASE x = n \/ x = k
    <3>1. PICK e \in Ages : e = d
      BY <1>5
    <3>2. Rests(x, e)'
      BY <1>9, <2>1, <3>1 DEF Rests
    <3>3. Stamp(e)' >= w
      BY <1>7, <1>8, <3>1
    <3> QED BY <2>0, <3>2, <3>3 DEF Safe
  <2>2. CASE x \in Tree /\ x # n
    BY <1>3, <2>2 DEF Safe
  <2>3. CASE Unlinked(x)
    BY <2>1, <2>3 DEF Unlinked
  <2>4. CASE \E e \in Ages : x # Null /\ Rests(x, e) /\ Stamp(e) >= w
    <3>1. PICK e \in Ages : Rests(x, e) /\ Stamp(e) >= w
      BY <2>4
    <3>2. Rests(x, e)'
      BY <1>5, <1>9, <2>0, <3>1 DEF Rests
    <3>3. Stamp(e)' >= w
      BY <1>7, <3>1
    <3> QED BY <2>0, <3>2, <3>3 DEF Safe
  <2> QED BY <2>1, <2>2, <2>3, <2>4 DEF Safe
<1>11. /\ c \in Pointers /\ c \in Tree /\ c # Null
       /\ Stored(node, root, node', root', writer.parent, c)
  <2>1. c \in Pointers
    BY <1>1, <1>5, NodeTyped
  <2>2. writer.parent \in AllPlaces
    BY <1>5, PlacesAll
  <2> QED BY <1>1, <1>3, <1>4, <1>5, <2>1, <2>2, StoreIsStored, SubGoesOn DEF Typed, Tree
<1>12. writer.parent \in PlacesOf(Tree')
  BY <1>5, <1>11, StoredKeepsPlace DEF Tree
<1>13. /\ \A i \in Slots : <<n, i>> # writer.parent
       /\ c # n
  <2>1. ASSUME NEW i \in Slots, <<n, i>> = writer.parent
        PROVE  FALSE
    <3>1. writer.parent # RootPlace /\ writer.parent[1] = n
      BY <1>5, <2>1, NotRootPlace
    <3> QED BY <1>3, <1>12, <3>1, PlaceCases
  <2>2. ASSUME c = n
        PROVE  FALSE
    <3>1. <<n, o>> \in PlacesOf(Tree) /\ Ptr(node, root, <<n, o>>) = n
      BY <1>3, <1>5, <2>2, PlaceOfNode
    <3>2. Ptr(node, root, writer.parent) = n /\ n # Null
      BY <1>5, PointerIs, NullApart
    <3>3. Unique(node, root) /\ writer.parent \in PlacesOf(Tree)
      BY <1>1, <1>5 DEF Core
    <3>4. <<n, o>> = writer.parent
      <4> HIDE DEF n
      <4> QED BY <3>1, <3>2, <3>3 DEF Unique, Tree
    <3> QED BY <2>1, <3>4
  <2> QED BY <2>1, <2>2
<1>14. \A i \in Slots : node'[n].child[i] = node[n].child[i]
  <2> SUFFICES ASSUME NEW i \in Slots
               PROVE  node'[n].child[i] = node[n].child[i]
    OBVIOUS
  <2>1. <<n, i>> \in AllPlaces /\ \A nd, r : Ptr(nd, r, <<n, i>>) = nd[n].child[i]
    BY <1>5, PlaceOfNode DEF AllPlaces
  <2> QED BY <1>11, <1>13, <2>1 DEF Stored
<1>15. RestsInOrder'
  <2> SUFFICES ASSUME NEW e \in Ages, pendingNodes'[e] # Null,
                      NEW b \in Kids(node', pendingNodes'[e])
               PROVE  Safe(b, Stamp(e))'
    BY DEF RestsInOrder
  <2>1. CASE e = d
    <3>1. b \in Kids(node', n)
      BY <1>9, <2>1
    <3>2. b = c
      BY <1>4, <1>14, <3>1 DEF Kids
    <3>3. b \in Tree'
      BY <1>3, <1>11, <1>13, <3>2
    <3> QED BY <3>3 DEF Safe
  <2>2. CASE e # d
    <3>1. pendingNodes'[e] = pendingNodes[e] /\ Stamp(e)' = Stamp(e) /\ pendingNodes[e] # Null
      BY <1>7, <1>9, <2>2
    <3>2. pendingNodes[e] \in Nodes /\ pendingNodes[e] \notin Tree
      BY <1>1, <3>1, RestingIs
    <3>3. \A i \in Slots : node'[pendingNodes[e]].child[i] = node[pendingNodes[e]].child[i]
      BY <1>1, <1>4, <1>5, <1>11, <3>2, StoreKeepsOthers
    <3> QED BY <1>2, <1>10, <3>1, <3>3, RestKept
  <2> QED BY <2>1, <2>2
<1> QED BY <1>3, <1>6, <1>10, <1>15 DEF Grace

LEMMA NextGrace ==
  ASSUME Grace, [Next]_vars
  PROVE  Grace' /\ KeepsSafe
BY NextCases, InsertGrace, RemoveBeginGrace, RemoveReclaimGrace, RemoveMissGrace,
   RemoveUnlinkGrace, RemoveCollapseGrace, ReadsGrace DEF Reads

LEMMA InitGrace ==
  ASSUME Init
  PROVE  Grace
<1>1. Core
  BY InitCore
<1>2. writer = Idle /\ pendingNodes = [d \in Ages |-> Null]
  BY DEF Init
<1> QED BY <1>1, <1>2 DEF Grace, CountOwn, RestsInOrder, Idle

(***************************************************************************)
(* What a reader stands on                                                 *)
(***************************************************************************)
Frames == Seq([node : Nodes, nib : Slots])
FrameNodes(frames) == {frames[i].node : i \in DOMAIN frames}

ReaderTyped ==
  \/ reader = Idle
  \/ reader \in [pc : {"root"}, query : Queries, wrs1 : Nat]
  \/ reader \in [pc : {"get", "near"}, query : Queries, wrs1 : Nat,
                 at : Nodes \cup Leaves, frames : Frames]
  \/ reader \in [pc : {"value"}, query : Queries, wrs1 : Nat, at : Leaves, frames : Frames]
  \/ reader \in [pc : {"edge", "again"}, query : Queries, wrs1 : Nat,
                 at : Nodes, frames : Frames, nib : Slots]
  \/ reader \in [pc : {"aside"}, query : Queries, wrs1 : Nat, frames : Frames \ {<<>>}]
  \/ reader \in [pc : {"check"}, query : Queries, wrs1 : Nat, res : Links]
  \/ reader \in [pc : {"start"}, query : Queries]
  \/ reader \in [pc : {"done"}, res : Links]
  \/ reader = [pc |-> "fault"]

Visited ==
  (IF "at" \in DOMAIN reader THEN {reader.at} ELSE {})
    \cup (IF "frames" \in DOMAIN reader THEN FrameNodes(reader.frames) ELSE {})

Counted == "wrs1" \in DOMAIN reader

ReaderSafe ==
  Counted => /\ reader.wrs1 <= removeCount
             /\ ~ Overtaken => \A x \in Visited : Safe(x, reader.wrs1 + DeletedLife)

ReaderInv == ReaderTyped /\ ReaderSafe

(* The pointers a reader can go on to. *)
Met == Visited \cup ({root} \ {Null}) \cup UNION {Kids(node, n) : n \in Visited \cap Nodes}

Advances ==
  /\ ReaderTyped'
  /\ \/ ~ Counted'
     \/ Counted' /\ reader'.wrs1 = removeCount /\ Visited' = {}
     \/ Counted /\ Counted' /\ reader'.wrs1 = reader.wrs1 /\ Visited' \subseteq Met

LEMMA ReaderCases ==
  ASSUME ReaderTyped
  PROVE  /\ reader.pc = "root" => reader \in [pc : {"root"}, query : Queries, wrs1 : Nat]
         /\ reader.pc \in {"get", "near"} =>
              reader \in [pc : {"get", "near"}, query : Queries, wrs1 : Nat,
                          at : Nodes \cup Leaves, frames : Frames]
         /\ reader.pc = "value" =>
              reader \in [pc : {"value"}, query : Queries, wrs1 : Nat, at : Leaves, frames : Frames]
         /\ reader.pc \in {"edge", "again"} =>
              reader \in [pc : {"edge", "again"}, query : Queries, wrs1 : Nat,
                          at : Nodes, frames : Frames, nib : Slots]
         /\ reader.pc = "aside" =>
              reader \in [pc : {"aside"}, query : Queries, wrs1 : Nat, frames : Frames \ {<<>>}]
         /\ reader.pc = "check" =>
              reader \in [pc : {"check"}, query : Queries, wrs1 : Nat, res : Links]
         /\ reader.pc = "start" => reader \in [pc : {"start"}, query : Queries]
         /\ reader.pc = "done" => reader \in [pc : {"done"}, res : Links]
<1>1. CASE reader = Idle
  BY <1>1 DEF Idle
<1>2. CASE reader \in [pc : {"root"}, query : Queries, wrs1 : Nat]
  BY <1>2
<1>3. CASE reader \in [pc : {"get", "near"}, query : Queries, wrs1 : Nat,
                 at : Nodes \cup Leaves, frames : Frames]
  BY <1>3
<1>4. CASE reader \in [pc : {"value"}, query : Queries, wrs1 : Nat, at : Leaves, frames : Frames]
  BY <1>4
<1>5. CASE reader \in [pc : {"edge", "again"}, query : Queries, wrs1 : Nat,
                 at : Nodes, frames : Frames, nib : Slots]
  BY <1>5
<1>6. CASE reader \in [pc : {"aside"}, query : Queries, wrs1 : Nat, frames : Frames \ {<<>>}]
  BY <1>6
<1>7. CASE reader \in [pc : {"check"}, query : Queries, wrs1 : Nat, res : Links]
  BY <1>7
<1>8. CASE reader \in [pc : {"start"}, query : Queries]
  BY <1>8
<1>9. CASE reader \in [pc : {"done"}, res : Links]
  BY <1>9
<1>10. CASE reader = [pc |-> "fault"]
  BY <1>10
<1> QED BY <1>1, <1>2, <1>3, <1>4, <1>5, <1>6, <1>7, <1>8, <1>9, <1>10 DEF ReaderTyped

LEMMA QueryIs ==
  ASSUME NEW query \in Queries
  PROVE  query[2] \in Nat /\ query[1] \in {"get", "le", "ge"}
BY CritnibAssumption DEF CritnibAssumption

LEMMA VisitIs ==
  ASSUME reader.query \in Queries, reader.wrs1 \in Nat, NEW pc, NEW p, NEW frames \in Frames,
         \/ pc \in {"get", "near"} /\ p \in Nodes \cup Leaves
         \/ pc = "value" /\ p \in Leaves,
         Visit(pc, p, frames)
  PROVE  ReaderTyped' /\ Counted' /\ reader'.wrs1 = reader.wrs1
         /\ Visited' = {p} \cup FrameNodes(frames)
<1>1. reader' = [pc |-> pc, query |-> reader.query, wrs1 |-> reader.wrs1,
                 at |-> p, frames |-> frames]
  BY DEF Visit
<1>2. ReaderTyped'
  BY <1>1 DEF ReaderTyped
<1>3. Counted' /\ "at" \in DOMAIN reader' /\ "frames" \in DOMAIN reader' /\ reader'.at = p
      /\ reader'.frames = frames /\ reader'.wrs1 = reader.wrs1
  BY <1>1 DEF Counted
<1> QED BY <1>2, <1>3 DEF Visited

LEMMA EdgeIs ==
  ASSUME reader.query \in Queries, reader.wrs1 \in Nat, NEW n \in Nodes, NEW frames \in Frames,
         EdgeFrom(n, frames)
  PROVE  ReaderTyped' /\ Counted' /\ reader'.wrs1 = reader.wrs1
         /\ Visited' = {n} \cup FrameNodes(frames)
<1> DEFINE nib == IF Downward THEN Nib ELSE 0
<1>0. nib \in Slots
  BY NibNat DEF Slots
<1>1. reader' = [pc |-> "edge", query |-> reader.query, wrs1 |-> reader.wrs1,
                 at |-> n, frames |-> frames, nib |-> nib]
  BY DEF EdgeFrom
<1> HIDE DEF nib
<1>2. ReaderTyped'
  BY <1>0, <1>1 DEF ReaderTyped
<1>3. Counted' /\ "at" \in DOMAIN reader' /\ "frames" \in DOMAIN reader' /\ reader'.at = n
      /\ reader'.frames = frames /\ reader'.wrs1 = reader.wrs1
  BY <1>1 DEF Counted
<1> QED BY <1>2, <1>3 DEF Visited

LEMMA AnsweredIs ==
  ASSUME reader.query \in Queries, reader.wrs1 \in Nat, NEW value \in Links, Answered(value)
  PROVE  ReaderTyped' /\ Counted' /\ reader'.wrs1 = reader.wrs1 /\ Visited' = {}
<1>1. reader' = [pc |-> "check", query |-> reader.query, wrs1 |-> reader.wrs1, res |-> value]
  BY DEF Answered
<1>2. ReaderTyped'
  BY <1>1 DEF ReaderTyped
<1>3. Counted' /\ "at" \notin DOMAIN reader' /\ "frames" \notin DOMAIN reader'
      /\ reader'.wrs1 = reader.wrs1
  BY <1>1 DEF Counted
<1> QED BY <1>2, <1>3 DEF Visited

LEMMA BackIs ==
  ASSUME reader.query \in Queries, reader.wrs1 \in Nat, NEW frames \in Frames, ComeBack(frames)
  PROVE  ReaderTyped' /\ Counted' /\ reader'.wrs1 = reader.wrs1
         /\ Visited' \subseteq FrameNodes(frames)
<1>1. CASE frames = <<>>
  <2>1. Answered(Null)
    BY <1>1 DEF ComeBack
  <2> QED BY <2>1, AnsweredIs, LinksHold
<1>2. CASE frames # <<>>
  <2>1. reader' = [pc |-> "aside", query |-> reader.query, wrs1 |-> reader.wrs1,
                    frames |-> frames]
    BY <1>2 DEF ComeBack
  <2>2. ReaderTyped'
    BY <1>2, <2>1 DEF ReaderTyped
  <2>3. Counted' /\ "at" \notin DOMAIN reader' /\ "frames" \in DOMAIN reader'
        /\ reader'.frames = frames /\ reader'.wrs1 = reader.wrs1
    BY <2>1 DEF Counted
  <2> QED BY <2>2, <2>3 DEF Visited
<1> QED BY <1>1, <1>2

LEMMA FramesOuter ==
  ASSUME NEW frames \in Frames, frames # <<>>
  PROVE  LET last == Len(frames)
             outer == SubSeq(frames, 1, last - 1) IN
         /\ last \in Nat \ {0} /\ frames[last] \in [node : Nodes, nib : Slots]
         /\ frames[last].node \in FrameNodes(frames)
         /\ outer \in Frames /\ FrameNodes(outer) \subseteq FrameNodes(frames)
<1> DEFINE last == Len(frames)
           outer == SubSeq(frames, 1, last - 1)
<1> DEFINE F == [node : Nodes, nib : Slots]
<1>0. frames \in Seq(F)
  BY DEF Frames
<1>1. last \in Nat \ {0} /\ frames[last] \in F /\ last \in DOMAIN frames
  <2> HIDE DEF F
  <2> QED BY <1>0
<1>2. outer \in Frames /\ Len(outer) = last - 1 /\ \A i \in 1 .. last - 1 : outer[i] = frames[i]
  <2>1. Frames = Seq(F)
    BY DEF Frames
  <2> HIDE DEF F
  <2>2. last - 1 \in Nat /\ last - 1 \in Int /\ 1 \in Int /\ \A i \in 1 .. last - 1 : frames[i] \in F
    BY <1>0, <1>1
  <2>4. /\ outer \in Seq(F)
        /\ Len(outer) = IF 1 <= last - 1 THEN (last - 1) - 1 + 1 ELSE 0
        /\ \A i \in 1 .. (last - 1) - 1 + 1 : outer[i] = frames[1 + i - 1]
    BY <2>2, SubSeqProperties
  <2>3. outer \in Seq(F) /\ Len(outer) = last - 1 /\ \A i \in 1 .. last - 1 : outer[i] = frames[i]
    <3> HIDE DEF last, outer
    <3>1. (last - 1) - 1 + 1 = last - 1 /\ (IF 1 <= last - 1 THEN (last - 1) - 1 + 1 ELSE 0) = last - 1
      BY <2>2
    <3>2. \A i \in 1 .. last - 1 : 1 + i - 1 = i
      OBVIOUS
    <3> QED BY <2>4, <3>1, <3>2
  <2> QED BY <2>1, <2>3
<1>3. DOMAIN outer = 1 .. last - 1 /\ DOMAIN frames = 1 .. last
  BY <1>2 DEF Frames
<1>4. frames[last].node \in FrameNodes(frames)
  BY <1>1 DEF FrameNodes
<1> HIDE DEF outer
<1>5. FrameNodes(outer) \subseteq FrameNodes(frames)
  BY <1>1, <1>2, <1>3 DEF FrameNodes
<1> QED BY <1>1, <1>2, <1>4, <1>5 DEF outer

LEMMA FramesAppend ==
  ASSUME NEW frames \in Frames, NEW n \in Nodes, NEW nib \in Slots
  PROVE  LET more == Append(frames, [node |-> n, nib |-> nib]) IN
         more \in Frames /\ more # <<>> /\ FrameNodes(more) = FrameNodes(frames) \cup {n}
<1> DEFINE f == [node |-> n, nib |-> nib]
           more == Append(frames, f)
<1>1. f \in [node : Nodes, nib : Slots] /\ f.node = n
  OBVIOUS
<1> HIDE DEF f
<1>2. more \in Frames /\ Len(more) = Len(frames) + 1 /\ more # <<>>
  BY <1>1 DEF Frames
<1>3. DOMAIN more = 1 .. Len(frames) + 1 /\ DOMAIN frames = 1 .. Len(frames) /\ Len(frames) \in Nat
  BY <1>2 DEF Frames
<1>4. \A i \in 1 .. Len(frames) : more[i] = frames[i]
  BY DEF Frames
<1>5. more[Len(frames) + 1] = f
  BY DEF Frames
<1> HIDE DEF more
<1>6. FrameNodes(more) = FrameNodes(frames) \cup {n}
  BY <1>1, <1>3, <1>4, <1>5 DEF FrameNodes
<1> QED BY <1>2, <1>6 DEF more, f

LEMMA KidIs ==
  ASSUME Typed, NEW n \in Nodes, NEW i \in Slots, node[n].child[i] # Null
  PROVE  node[n].child[i] \in Nodes \cup Leaves /\ node[n].child[i] \in Kids(node, n)
<1>1. node[n].child[i] \in Kids(node, n)
  BY DEF Kids
<1> QED BY <1>1, KidsIn

LEMMA NoFrames == <<>> \in Frames /\ FrameNodes(<<>>) = {}
BY DEF Frames, FrameNodes

LEMMA NearAdvances ==
  ASSUME Typed, ReaderTyped, \/ Descend \/ CompareKey \/ NearLeaf \/ NearOutside \/ NearInside
  PROVE  Advances
<1>1. /\ reader.pc \in {"get", "near"}
      /\ reader \in [pc : {"get", "near"}, query : Queries, wrs1 : Nat,
                     at : Nodes \cup Leaves, frames : Frames]
  BY ReaderCases DEF Descend, CompareKey, NearLeaf, NearOutside, NearInside
<1> DEFINE x == reader.at
           fs == reader.frames
<1>2. /\ reader.query \in Queries /\ reader.wrs1 \in Nat /\ x \in Nodes \cup Leaves /\ fs \in Frames
      /\ Counted /\ Visited = {x} \cup FrameNodes(fs)
  BY <1>1 DEF Counted, Visited
<1>3. x \in Met /\ FrameNodes(fs) \subseteq Met /\ x \in Visited
  BY <1>2 DEF Met
<1>4. x \in Nodes => SliceIndex(Sought, node[x].shift) \in Slots
  BY <1>2, QueryIs, NodeTyped, SliceInSlots DEF Sought
<1>5. \A i \in Slots : x \in Nodes /\ node[x].child[i] # Null =>
          node[x].child[i] \in Nodes \cup Leaves /\ node[x].child[i] \in Met
  BY <1>3, KidIs DEF Met
<1>6. CASE Descend
  <2> DEFINE m == node[x].child[SliceIndex(Sought, node[x].shift)]
  <2>1. x \in Nodes /\ IF m = Null THEN Answered(Null) ELSE Visit("get", m, <<>>)
    BY <1>6 DEF Descend
  <2>2. CASE m = Null
    BY <1>2, <2>1, <2>2, AnsweredIs, LinksHold DEF Advances
  <2>3. CASE m # Null
    <3>1. m \in Nodes \cup Leaves /\ m \in Met
      BY <1>4, <1>5, <2>1, <2>3
    <3> HIDE DEF m
    <3> QED BY <1>2, <2>1, <2>3, <3>1, VisitIs, NoFrames DEF Advances
  <2> QED BY <2>2, <2>3
<1>7. CASE CompareKey
  <2>1. x \in Leaves /\ \/ Visit("value", x, <<>>)
                        \/ Answered(Null)
    BY <1>7 DEF CompareKey
  <2>2. CASE Answered(Null)
    BY <1>2, <2>2, AnsweredIs, LinksHold DEF Advances
  <2>3. CASE Visit("value", x, <<>>)
    BY <1>2, <1>3, <2>1, <2>3, VisitIs, NoFrames DEF Advances
  <2> QED BY <2>1, <2>2, <2>3
<1>8. CASE NearLeaf
  <2>1. x \in Leaves /\ \/ Visit("value", x, <<>>)
                        \/ ComeBack(fs)
    BY <1>8 DEF NearLeaf
  <2>2. CASE ComeBack(fs)
    BY <1>2, <1>3, <2>2, BackIs DEF Advances
  <2>3. CASE Visit("value", x, <<>>)
    BY <1>2, <1>3, <2>1, <2>3, VisitIs, NoFrames DEF Advances
  <2> QED BY <2>1, <2>2, <2>3
<1>9. CASE NearOutside
  <2>1. x \in Nodes /\ \/ EdgeFrom(x, fs)
                       \/ ComeBack(fs)
    BY <1>9 DEF NearOutside
  <2>2. CASE ComeBack(fs)
    BY <1>2, <1>3, <2>2, BackIs DEF Advances
  <2>3. CASE EdgeFrom(x, fs)
    BY <1>2, <1>3, <2>1, <2>3, EdgeIs DEF Advances
  <2> QED BY <2>1, <2>2, <2>3
<1>10. CASE NearInside
  <2> DEFINE nib == SliceIndex(Sought, node[x].shift)
             more == Append(fs, [node |-> x, nib |-> nib])
             m == node[x].child[nib]
  <2>1. x \in Nodes /\ IF m = Null THEN ComeBack(more) ELSE Visit("near", m, more)
    BY <1>10 DEF NearInside
  <2>2. more \in Frames /\ FrameNodes(more) = FrameNodes(fs) \cup {x}
    <3> HIDE DEF nib
    <3>1. nib \in Slots
      BY <1>4, <2>1 DEF nib
    <3> QED BY <1>2, <2>1, <3>1, FramesAppend
  <2>3. CASE m = Null
    BY <1>2, <1>3, <2>1, <2>2, <2>3, BackIs DEF Advances
  <2>4. CASE m # Null
    <3>1. m \in Nodes \cup Leaves /\ m \in Met
      BY <1>4, <1>5, <2>1, <2>4
    <3> HIDE DEF m, more
    <3> QED BY <1>2, <1>3, <2>1, <2>2, <2>4, <3>1, VisitIs DEF Advances
  <2> QED BY <2>3, <2>4
<1> QED BY <1>6, <1>7, <1>8, <1>9, <1>10

LEMMA AsideAdvances ==
  ASSUME Typed, ReaderTyped, Aside
  PROVE  Advances
<1> DEFINE fs == reader.frames
           last == Len(fs)
           frame == fs[last]
           outer == SubSeq(fs, 1, last - 1)
           next == IF Downward THEN frame.nib - 1 ELSE frame.nib + 1
           m == node[frame.node].child[next]
<1>1. /\ reader.pc = "aside"
      /\ reader \in [pc : {"aside"}, query : Queries, wrs1 : Nat, frames : Frames \ {<<>>}]
  BY ReaderCases DEF Aside
<1>2. /\ reader.query \in Queries /\ reader.wrs1 \in Nat /\ fs \in Frames /\ fs # <<>>
      /\ Counted /\ Visited = FrameNodes(fs)
  BY <1>1 DEF Counted, Visited
<1>3. /\ frame \in [node : Nodes, nib : Slots] /\ frame.node \in FrameNodes(fs)
      /\ outer \in Frames /\ FrameNodes(outer) \subseteq FrameNodes(fs)
  BY <1>2, FramesOuter
<1>4. FrameNodes(fs) \subseteq Met /\ frame.node \in Nodes /\ frame.nib \in Slots
  BY <1>2, <1>3 DEF Met
<1>5. IF frame.nib = (IF Downward THEN 0 ELSE Nib) THEN ComeBack(outer)
      ELSE IF m = Null THEN ComeBack(Append(outer, [frame EXCEPT !.nib = next]))
      ELSE IF m \in Leaves THEN Visit("value", m, <<>>)
      ELSE EdgeFrom(m, outer)
  BY DEF Aside
<1>6. CASE frame.nib = (IF Downward THEN 0 ELSE Nib)
  BY <1>2, <1>3, <1>4, <1>5, <1>6, BackIs DEF Advances
<1>7. CASE frame.nib # (IF Downward THEN 0 ELSE Nib)
  <2>1. next \in Slots
    BY <1>4, <1>7, NibNat DEF Slots
  <2>2. CASE m = Null
    <3>1. [frame EXCEPT !.nib = next] = [node |-> frame.node, nib |-> next]
      BY <1>3
    <3>2. LET more == Append(outer, [frame EXCEPT !.nib = next]) IN
          more \in Frames /\ FrameNodes(more) = FrameNodes(outer) \cup {frame.node}
      <4> HIDE DEF outer, next, frame
      <4> QED BY <1>3, <1>4, <2>1, <3>1, FramesAppend
    <3>3. ComeBack(Append(outer, [frame EXCEPT !.nib = next]))
      BY <1>5, <1>7, <2>2
    <3> HIDE DEF outer, next, frame
    <3> QED BY <1>2, <1>3, <1>4, <3>2, <3>3, BackIs DEF Advances
  <2>3. CASE m # Null
    <3>1. m \in Nodes \cup Leaves /\ m \in Kids(node, frame.node)
      BY <1>4, <2>1, <2>3, KidIs
    <3>2. m \in Met
      BY <1>2, <1>3, <1>4, <3>1 DEF Met
    <3>3. IF m \in Leaves THEN Visit("value", m, <<>>) ELSE EdgeFrom(m, outer)
      BY <1>5, <1>7, <2>3
    <3> HIDE DEF m, outer
    <3>4. CASE m \in Leaves
      BY <1>2, <3>2, <3>3, <3>4, VisitIs, NoFrames DEF Advances
    <3>5. CASE m \in Nodes /\ m \notin Leaves
      BY <1>2, <1>3, <1>4, <3>2, <3>3, <3>5, EdgeIs DEF Advances
    <3> QED BY <3>1, <3>4, <3>5
  <2> QED BY <2>2, <2>3
<1> QED BY <1>6, <1>7

LEMMA EdgeAdvances ==
  ASSUME Typed, ReaderTyped, EdgeScan \/ EdgeAgain
  PROVE  Advances
<1> DEFINE fs == reader.frames
           x == reader.at
           m == node[x].child[reader.nib]
<1>1. /\ reader.pc \in {"edge", "again"}
      /\ reader \in [pc : {"edge", "again"}, query : Queries, wrs1 : Nat,
                     at : Nodes, frames : Frames, nib : Slots]
  BY ReaderCases DEF EdgeScan, EdgeAgain
<1>2. /\ reader.query \in Queries /\ reader.wrs1 \in Nat /\ fs \in Frames /\ x \in Nodes
      /\ reader.nib \in Slots
      /\ Counted /\ Visited = {x} \cup FrameNodes(fs)
  BY <1>1 DEF Counted, Visited
<1>3. x \in Met /\ FrameNodes(fs) \subseteq Met
  BY <1>2 DEF Met
<1>4. ASSUME m # Null, EdgeNext(m)
      PROVE  Advances
  <2>1. m \in Nodes \cup Leaves /\ m \in Met
    BY <1>2, <1>4, KidIs DEF Met
  <2>2. IF m \in Leaves THEN Visit("value", m, <<>>) ELSE EdgeFrom(m, fs)
    BY <1>4 DEF EdgeNext
  <2> HIDE DEF m
  <2>3. CASE m \in Leaves
    BY <1>2, <2>1, <2>2, <2>3, VisitIs, NoFrames DEF Advances
  <2>4. CASE m \in Nodes /\ m \notin Leaves
    BY <1>2, <1>3, <2>1, <2>2, <2>4, EdgeIs DEF Advances
  <2> QED BY <2>1, <2>3, <2>4
<1>5. ASSUME NEW pc \in {"edge", "again"}, NEW nib \in Slots,
             reader' = [reader EXCEPT !.pc = pc, !.nib = nib]
      PROVE  Advances
  <2>1. ReaderTyped'
    BY <1>1, <1>5 DEF ReaderTyped
  <2>2. /\ Counted' /\ "at" \in DOMAIN reader' /\ "frames" \in DOMAIN reader' /\ reader'.at = x
        /\ reader'.frames = fs /\ reader'.wrs1 = reader.wrs1
    BY <1>1, <1>5 DEF Counted
  <2>3. Visited' = {x} \cup FrameNodes(fs)
    BY <2>2 DEF Visited
  <2> QED BY <1>2, <1>3, <2>1, <2>2, <2>3 DEF Advances
<1>6. CASE EdgeAgain
  <2>1. CASE m = Null
    <3>1. reader' = [pc |-> "fault"]
      BY <1>6, <2>1 DEF EdgeAgain
    <3> QED BY <3>1 DEF Advances, ReaderTyped, Counted
  <2>2. CASE m # Null
    BY <1>4, <1>6, <2>2 DEF EdgeAgain
  <2> QED BY <2>1, <2>2
<1>7. CASE EdgeScan
  <2>1. CASE m # Null
    <3>1. EdgeNext(m) \/ reader' = [reader EXCEPT !.pc = "again"]
      BY <1>7, <2>1 DEF EdgeScan
    <3>2. CASE reader' = [reader EXCEPT !.pc = "again"]
      <4>1. reader' = [reader EXCEPT !.pc = "again", !.nib = reader.nib]
        BY <1>1, <3>2
      <4> QED BY <1>2, <1>5, <4>1
    <3> QED BY <1>4, <2>1, <3>1, <3>2
  <2>2. CASE m = Null /\ reader.nib = (IF Downward THEN 0 ELSE Nib)
    <3>1. ComeBack(fs)
      BY <1>7, <2>2 DEF EdgeScan
    <3> QED BY <1>2, <1>3, <3>1, BackIs DEF Advances
  <2>3. CASE m = Null /\ reader.nib # (IF Downward THEN 0 ELSE Nib)
    <3> DEFINE next == IF Downward THEN reader.nib - 1 ELSE reader.nib + 1
    <3>1. reader' = [reader EXCEPT !.nib = next] /\ reader.pc = "edge"
      BY <1>7, <2>3 DEF EdgeScan
    <3>2. next \in Slots
      BY <1>2, <2>3, NibNat DEF Slots
    <3>3. reader' = [reader EXCEPT !.pc = "edge", !.nib = next]
      BY <1>1, <3>1
    <3> HIDE DEF next
    <3> QED BY <1>5, <3>2, <3>3
  <2> QED BY <2>1, <2>2, <2>3
<1> QED BY <1>6, <1>7

LEMMA OtherAdvances ==
  ASSUME Typed, ReaderTyped,
         \/ \E query \in Queries : Ask(query)
         \/ CountAgain \/ LoadRoot \/ LoadValue \/ Restart \/ Return \/ Leave
  PROVE  Advances
<1>0. removeCount \in Nat
  BY LifeNat DEF Typed
<1>1. ASSUME NEW query \in Queries,
             reader' = [pc |-> "root", query |-> query, wrs1 |-> removeCount]
      PROVE  Advances
  BY <1>0, <1>1 DEF Advances, ReaderTyped, Counted, Visited
<1>2. CASE \E query \in Queries : Ask(query)
  BY <1>1, <1>2 DEF Ask
<1>3. CASE CountAgain
  <2>1. reader.query \in Queries
    BY <1>3, ReaderCases DEF CountAgain
  <2> QED BY <1>1, <1>3, <2>1 DEF CountAgain
<1>4. CASE LoadRoot
  <2>1. reader.query \in Queries /\ reader.wrs1 \in Nat /\ Counted
    BY <1>4, ReaderCases DEF LoadRoot, Counted
  <2>2. CASE root = Null
    BY <1>4, <2>1, <2>2, AnsweredIs, LinksHold DEF LoadRoot, Advances
  <2>3. CASE root # Null
    <3>1. root \in Nodes \cup Leaves /\ root \in Met
      BY <2>3 DEF Typed, Pointers, Met
    <3>2. PICK pc \in {"get", "near"} : Visit(pc, root, <<>>)
      BY <1>4, <2>3 DEF LoadRoot
    <3> QED BY <2>1, <3>1, <3>2, VisitIs, NoFrames DEF Advances
  <2> QED BY <2>2, <2>3
<1>5. CASE LoadValue
  <2>1. reader.query \in Queries /\ reader.wrs1 \in Nat /\ Counted /\ reader.at \in Leaves
    BY <1>5, ReaderCases DEF LoadValue, Counted
  <2>2. leaf[reader.at].value \in Links
    BY <2>1, LeafTyped
  <2> QED BY <1>5, <2>1, <2>2, AnsweredIs DEF LoadValue, Advances
<1>6. CASE Restart
  <2>1. reader.query \in Queries
    BY <1>6, ReaderCases DEF Restart
  <2>2. reader' = [pc |-> "start", query |-> reader.query]
    BY <1>6 DEF Restart
  <2> QED BY <2>1, <2>2 DEF Advances, ReaderTyped, Counted
<1>7. CASE Return
  <2>1. reader.res \in Links
    BY <1>7, ReaderCases DEF Return
  <2>2. reader' = [pc |-> "done", res |-> reader.res]
    BY <1>7 DEF Return
  <2> QED BY <2>1, <2>2 DEF Advances, ReaderTyped, Counted
<1>8. CASE Leave
  <2>1. reader' = Idle
    BY <1>8 DEF Leave
  <2> QED BY <2>1 DEF Advances, ReaderTyped, Counted, Idle
<1> QED BY <1>2, <1>3, <1>4, <1>5, <1>6, <1>7, <1>8

LEMMA ReadersAdvance ==
  ASSUME Typed, ReaderTyped, [Next]_vars
  PROVE  (Advances /\ UNCHANGED unread) \/ UNCHANGED reader
<1>1. CASE UNCHANGED vars
  BY <1>1 DEF vars
<1>2. CASE Insert
  BY <1>2 DEF Insert, InsertBegin, InsertLeaf, InsertExists, InsertNode, InsertNoNode, InsertLink
<1>3. CASE Remove
  BY <1>3 DEF Remove, RemoveBegin, RemoveReclaim, RemoveMiss, RemoveUnlink, RemoveCollapse
<1>4. CASE \E query \in Queries : Ask(query)
  BY <1>4, OtherAdvances DEF Ask
<1>5. CASE Walk
  <2>1. Advances
    BY <1>5, NearAdvances, AsideAdvances, EdgeAdvances, OtherAdvances DEF Walk
  <2> QED BY <1>5, <2>1 DEF Walk, CountAgain, LoadRoot, Descend, CompareKey, NearLeaf, NearOutside,
              NearInside, Aside, EdgeScan, EdgeAgain, LoadValue, Restart, Return
<1>6. CASE Leave
  BY <1>6, OtherAdvances DEF Leave
<1> QED BY <1>1, <1>2, <1>3, <1>4, <1>5, <1>6 DEF Next

GraceInv == Grace /\ ReaderInv

(* What a safe node links to is safe. *)
LEMMA SafeChild ==
  ASSUME Grace, NEW n \in Nodes, NEW w \in Nat, Safe(n, w), NEW c \in Kids(node, n)
  PROVE  Safe(c, w)
<1>0. Core /\ Typed
  BY DEF Grace, Core
<1>1. CASE n \in Tree
  <2>1. c \in Tree
    BY <1>1, SubGoesOn DEF Kids, Tree
  <2> QED BY <2>1 DEF Safe
<1>2. CASE Unlinked(n)
  BY <1>0, <1>2, HandIs, NullApart DEF Unlinked
<1>3. CASE \E d \in Ages : n # Null /\ Rests(n, d) /\ Stamp(d) >= w
  <2>1. PICK d \in Ages : n # Null /\ Rests(n, d) /\ Stamp(d) >= w
    BY <1>3
  <2>2. pendingNodes[d] = n
    BY <1>0, <2>1, NullApart DEF Rests, Typed
  <2>3. Safe(c, Stamp(d))
    BY <2>1, <2>2 DEF Grace, RestsInOrder
  <2>4. Stamp(d) \in Nat /\ \A e \in Ages : Stamp(e) \in Nat
    BY <1>0, StampIs
  <2>5. ASSUME NEW e \in Ages, Stamp(e) >= Stamp(d)
        PROVE  Stamp(e) >= w
    <3>1. Stamp(e) \in Nat
      BY <2>4
    <3> QED BY <2>1, <2>4, <2>5, <3>1
  <2> QED BY <2>3, <2>5 DEF Safe
<1> QED BY <1>1, <1>2, <1>3 DEF Safe

LEMMA VisitedIn ==
  ASSUME ReaderTyped
  PROVE  Visited \subseteq Nodes \cup Leaves /\ (Counted => reader.wrs1 \in Nat)
<1>1. ASSUME NEW frames \in Frames
      PROVE  FrameNodes(frames) \subseteq Nodes
  <2> DEFINE F == [node : Nodes, nib : Slots]
  <2>1. \A f \in F : f.node \in Nodes
    OBVIOUS
  <2>2. frames \in Seq(F)
    BY DEF Frames
  <2> HIDE DEF F
  <2>3. \A i \in DOMAIN frames : frames[i] \in F
    BY <2>2
  <2> QED BY <2>1, <2>3 DEF FrameNodes
<1>2. CASE reader \in [pc : {"get", "near"}, query : Queries, wrs1 : Nat,
                 at : Nodes \cup Leaves, frames : Frames]
  BY <1>1, <1>2 DEF Visited
<1>3. CASE reader \in [pc : {"value"}, query : Queries, wrs1 : Nat, at : Leaves, frames : Frames]
  BY <1>1, <1>3 DEF Visited
<1>4. CASE reader \in [pc : {"edge", "again"}, query : Queries, wrs1 : Nat,
                 at : Nodes, frames : Frames, nib : Slots]
  BY <1>1, <1>4 DEF Visited
<1>5. CASE reader \in [pc : {"aside"}, query : Queries, wrs1 : Nat, frames : Frames \ {<<>>}]
  BY <1>1, <1>5 DEF Visited
<1>6. CASE \/ reader = Idle \/ reader = [pc |-> "fault"]
           \/ reader \in [pc : {"done"}, res : Links]
           \/ reader \in [pc : {"start"}, query : Queries]
           \/ reader \in [pc : {"root"}, query : Queries, wrs1 : Nat]
           \/ reader \in [pc : {"check"}, query : Queries, wrs1 : Nat, res : Links]
  BY <1>6 DEF Visited, Counted, Idle
<1> QED BY <1>2, <1>3, <1>4, <1>5, <1>6 DEF ReaderTyped

LEMMA ReaderStays ==
  ASSUME Grace, KeepsSafe, Typed', ReaderInv, UNCHANGED reader, removeCount <= removeCount'
  PROVE  ReaderInv'
<1>1. ReaderTyped' /\ Visited' = Visited /\ (Counted' <=> Counted)
  BY DEF ReaderInv, ReaderTyped, Visited, Counted
<1>2. removeCount \in Nat /\ removeCount' \in Nat
  BY LifeNat DEF Grace, Core, Typed
<1>3. ASSUME Counted
      PROVE  /\ reader.wrs1 <= removeCount'
             /\ ~ Overtaken' => \A x \in Visited : Safe(x, reader.wrs1 + DeletedLife)'
  <2> DEFINE w == reader.wrs1 + DeletedLife
  <2>1. reader.wrs1 \in Nat /\ reader.wrs1 <= removeCount /\ w \in Nat
    BY <1>3, VisitedIn, LifeNat DEF ReaderInv, ReaderSafe
  <2>2. w <= removeCount + DeletedLife
    BY <1>2, <2>1, LifeNat
  <2>3. ASSUME ~ Overtaken', NEW x \in Visited
        PROVE  Safe(x, w)'
    <3>1. removeCount < w /\ ~ Overtaken
      BY <1>2, <2>1, <2>3, LifeNat DEF Overtaken
    <3>2. Safe(x, w) /\ x \in Nodes \cup Leaves
      BY <1>3, <2>3, <3>1, VisitedIn DEF ReaderInv, ReaderSafe
    <3>3. PICK v \in Nat : v = w
      BY <2>1
    <3>4. Safe(x, v)'
      BY <2>2, <3>1, <3>2, <3>3 DEF KeepsSafe
    <3>5. v = w'
      BY <3>3
    <3> QED BY <3>4, <3>5 DEF Safe
  <2> QED BY <1>2, <2>1, <2>3
<1> QED BY <1>1, <1>3 DEF ReaderInv, ReaderSafe

LEMMA ReaderGoesOn ==
  ASSUME Grace, KeepsSafe, ReaderInv, Advances, UNCHANGED unread
  PROVE  ReaderInv'
<1>1. UNCHANGED <<removeCount, writer, root, node, pendingNodes, pendingLeaves>>
  BY DEF unread, pools, tree
<1>2. Typed /\ removeCount \in Nat /\ ReaderTyped'
  BY LifeNat DEF Grace, Core, Typed, Advances
<1>3. \A x, w : Safe(x, w)' <=> Safe(x, w)
  <2>1. Tree' = Tree /\ \A d : Stamp(d)' = Stamp(d)
    BY <1>1 DEF Tree, Stamp, Age
  <2>2. \A x, d : Rests(x, d)' <=> Rests(x, d)
    BY <1>1 DEF Rests
  <2>3. \A x : Unlinked(x)' <=> Unlinked(x)
    BY <1>1 DEF Unlinked
  <2> QED BY <2>1, <2>2, <2>3 DEF Safe
<1>4. CASE ~ Counted'
  BY <1>2, <1>4 DEF ReaderInv, ReaderSafe
<1>5. CASE Counted' /\ reader'.wrs1 = removeCount /\ Visited' = {}
  BY <1>1, <1>2, <1>5 DEF ReaderInv, ReaderSafe
<1>6. CASE Counted /\ Counted' /\ reader'.wrs1 = reader.wrs1 /\ Visited' \subseteq Met
  <2> DEFINE w == reader.wrs1 + DeletedLife
  <2>1. reader.wrs1 \in Nat /\ reader.wrs1 <= removeCount /\ w \in Nat
    BY <1>6, VisitedIn, LifeNat DEF ReaderInv, ReaderSafe
  <2>2. ASSUME ~ Overtaken', NEW x \in Visited'
        PROVE  Safe(x, w)
    <3>1. ~ Overtaken
      BY <1>1, <1>6, <2>2 DEF Overtaken
    <3>2. \A y \in Visited : Safe(y, w)
      BY <1>6, <3>1 DEF ReaderInv, ReaderSafe
    <3>3. CASE x \in Visited
      BY <3>2, <3>3
    <3>4. CASE x \in {root} \ {Null}
      <4>1. x \in Tree
        BY <3>4, SubStarts DEF Tree
      <4> QED BY <4>1 DEF Safe
    <3>5. CASE x \in UNION {Kids(node, n) : n \in Visited \cap Nodes}
      <4>1. PICK n \in Visited \cap Nodes : x \in Kids(node, n)
        BY <3>5
      <4> HIDE DEF w
      <4> QED BY <2>1, <3>2, <4>1, SafeChild
    <3> QED BY <1>6, <2>2, <3>3, <3>4, <3>5 DEF Met
  <2>3. ASSUME ~ Overtaken', NEW x \in Visited'
        PROVE  Safe(x, w)'
    <3>1. PICK v \in Nat : v = w
      BY <2>1
    <3>2. Safe(x, v)'
      BY <1>3, <2>2, <2>3, <3>1
    <3>3. v = w'
      BY <1>6, <3>1
    <3> QED BY <3>2, <3>3 DEF Safe
  <2> QED BY <1>1, <1>2, <1>6, <2>1, <2>3 DEF ReaderInv, ReaderSafe
<1> QED BY <1>4, <1>5, <1>6 DEF Advances

LEMMA NextGraceInv ==
  ASSUME GraceInv, [Next]_vars
  PROVE  GraceInv'
<1>1. Grace' /\ KeepsSafe /\ Typed /\ Typed'
  BY NextGrace DEF GraceInv, Grace, Core
<1>2. removeCount <= removeCount'
  <2>1. removeCount \in Nat
    BY <1>1, LifeNat DEF Typed
  <2>2. removeCount' = removeCount \/ removeCount' = removeCount + 1
    BY NextCases DEF InsertBegin, InsertLeaf, InsertExists, InsertNode, InsertNoNode, InsertLink,
       RemoveBegin, RemoveReclaim, RemoveMiss, RemoveUnlink, RemoveCollapse, Reads, unread
  <2> QED BY <2>1, <2>2
<1>3. (Advances /\ UNCHANGED unread) \/ UNCHANGED reader
  BY <1>1, ReadersAdvance DEF GraceInv, ReaderInv
<1> QED BY <1>1, <1>2, <1>3, ReaderStays, ReaderGoesOn DEF GraceInv

LEMMA InitGraceInv ==
  ASSUME Init
  PROVE  GraceInv
<1>1. reader = Idle
  BY DEF Init
<1> QED BY <1>1, InitGrace DEF GraceInv, ReaderInv, ReaderTyped, ReaderSafe, Counted, Idle

LEMMA SafeNotReusable ==
  ASSUME Core, NEW x \in Nodes \cup Leaves, NEW w \in Nat, Safe(x, w)
  PROVE  /\ x \notin FreeNodes \cup FreeLeaves
         /\ writer.pc \in {"place", "link"} => x \notin InHand
<1>0. Typed
  BY DEF Core
<1>1. CASE x \in Tree
  BY <1>1 DEF Core, OwnedOnce
<1>2. CASE Unlinked(x)
  <2>1. x \in InHand
    BY <1>0, <1>2, HandIs DEF Unlinked
  <2> QED BY <1>2, <2>1 DEF Core, OwnedOnce, Unlinked
<1>3. CASE \E d \in Ages : x # Null /\ Rests(x, d) /\ Stamp(d) >= w
  <2>1. x \in Resting
    BY <1>3 DEF Resting
  <2> QED BY <2>1 DEF Core, OwnedOnce
<1> QED BY <1>1, <1>2, <1>3 DEF Safe

LEMMA GraceInvGracePeriod ==
  ASSUME GraceInv
  PROVE  GracePeriod
<1>1. Core /\ ReaderTyped /\ ReaderSafe
  BY DEF GraceInv, Grace, ReaderInv
<1> DEFINE reusable == NodePool(deletedNode) \cup LeafPool(deletedLeaf)
                       \cup (IF writer.pc \in {"place", "link"} THEN InHand ELSE {})
<1>2. ASSUME Counted, ~ Overtaken
      PROVE  Visited \cap reusable = {}
  <2> SUFFICES ASSUME NEW x \in Visited
               PROVE  x \notin reusable
    OBVIOUS
  <2>1. reader.wrs1 + DeletedLife \in Nat /\ x \in Nodes \cup Leaves
    BY <1>1, <1>2, VisitedIn, LifeNat
  <2>2. Safe(x, reader.wrs1 + DeletedLife)
    BY <1>1, <1>2 DEF ReaderSafe
  <2>3. x \notin FreeNodes \cup FreeLeaves /\ (writer.pc \in {"place", "link"} => x \notin InHand)
    BY <1>1, <2>1, <2>2, SafeNotReusable
  <2> QED BY <2>3, PoolsAre
<1> QED BY <1>2 DEF GracePeriod, Visited, FrameNodes, Counted

(* A reader that can still return its answer stands on nothing, and has      *)
(* nothing to come back to, that is in a pool or is being written for a new  *)
(* use: whatever it walks through, DELETED_LIFE removals keep it as it was   *)
(* (critnib.c: free_node, alloc_node, pending_del_nodes, remove_count and    *)
(* the loops of critnib_get, critnib_find_le and critnib_find).              *)
THEOREM CritnibGracePeriod == Spec => []GracePeriod
<1>1. Init => GraceInv
  BY InitGraceInv
<1>2. GraceInv /\ [Next]_vars => GraceInv'
  BY NextGraceInv
<1>3. GraceInv => GracePeriod
  BY GraceInvGracePeriod
<1> QED BY <1>1, <1>2, <1>3, PTL DEF Spec

(***************************************************************************)
(* The radix tree                                                          *)
(***************************************************************************)
(* A key belongs below a child of a node. *)
Belongs(a, n, i) == Inside(a, n) /\ SliceIndex(a, node[n].shift) = i

Fits(n, i, c) ==
  /\ c \in Leaves => Belongs(leaf[c].key, n, i)
  /\ c \in Nodes => /\ node[c].shift + Slice <= node[n].shift
                    /\ Belongs(node[c].path, n, i)

(* What readers may still walk through. *)
Lasting == {n \in Nodes : n \in Tree \cup Resting}

Ranked ==
  \A n \in Lasting : \A i \in Slots :
      node[n].child[i] # Null => Fits(n, i, node[n].child[i])

EntriesKept ==
  /\ entries \in [Keys -> Links]
  /\ \A key \in Keys : entries[key] # Null => entries[key] \in ValuesOf[key]
  /\ \A k \in Tree \cap Leaves :
        /\ leaf[k].key \in Keys
        /\ leaf[k].value = entries[leaf[k].key]
        /\ leaf[k].value \in ValuesOf[leaf[k].key]
  /\ \A j, k \in Tree \cap Leaves : leaf[j].key = leaf[k].key => j = k
  /\ \A key \in Keys : entries[key] # Null => \E k \in Tree \cap Leaves : leaf[k].key = key

FitsAt(at, c) == at # RootPlace => Fits(at[1], at[2], c)

HandFits ==
  /\ writer.pc \in {"place", "link"} => newKey \in Keys /\ newValue \in ValuesOf[newKey]
  /\ writer.pc = "link" =>
       /\ \A i \in Slots : node[writer.node].child[i] # Null =>
                              Fits(writer.node, i, node[writer.node].child[i])
       /\ FitsAt(writer.parent, writer.node)
       /\ \A k \in Tree \cap Leaves : leaf[k].key # newKey

Whole == Grace /\ Ranked /\ EntriesKept /\ HandFits

LEMMA InsideIs ==
  ASSUME Typed, NEW a \in Nat, NEW n \in Nodes
  PROVE  Inside(a, n) <=> Above(a, node[n].shift + Slice) = Above(node[n].path, node[n].shift + Slice)
<1>1. node[n].path \in Nat /\ node[n].shift \in Nat /\ PathOf(node[n].path, node[n].shift) = node[n].path
  BY NodeTyped DEF Inside
<1>2. PathOf(a, node[n].shift) = PathOf(node[n].path, node[n].shift) <=>
        Above(a, node[n].shift + Slice) = Above(node[n].path, node[n].shift + Slice)
  BY <1>1, SamePath
<1> QED BY <1>1, <1>2 DEF Inside

(* Two keys that agree above a node's slice and in it belong together. *)
LEMMA BelongsTogether ==
  ASSUME Typed, NEW a \in Nat, NEW b \in Nat, NEW n \in Nodes, NEW i,
         Above(a, node[n].shift) = Above(b, node[n].shift), Belongs(b, n, i)
  PROVE  Belongs(a, n, i)
<1>1. node[n].path \in Nat /\ node[n].shift \in Nat
  BY NodeTyped
<1>2. /\ Above(a, node[n].shift + Slice) = Above(b, node[n].shift + Slice)
      /\ SliceIndex(a, node[n].shift) = SliceIndex(b, node[n].shift)
  BY <1>1, AgreeSlice
<1> QED BY <1>2, InsideIs DEF Belongs

LEMMA BelongsAgree ==
  ASSUME Typed, NEW a \in Nat, NEW b \in Nat, NEW n \in Nodes, NEW i,
         Belongs(a, n, i), Belongs(b, n, i)
  PROVE  Above(a, node[n].shift) = Above(b, node[n].shift)
<1>1. node[n].path \in Nat /\ node[n].shift \in Nat
  BY NodeTyped
<1>2. Above(a, node[n].shift + Slice) = Above(b, node[n].shift + Slice)
  BY InsideIs DEF Belongs
<1>3. SliceIndex(a, node[n].shift) = SliceIndex(b, node[n].shift)
  BY DEF Belongs
<1> QED BY <1>1, <1>2, <1>3, AgreeSlice

LEMMA BelongsHigher ==
  ASSUME Typed, NEW n \in Nodes, NEW i, NEW m \in Nodes, Fits(n, i, m),
         NEW a \in Nat, Inside(a, m)
  PROVE  Belongs(a, n, i)
<1>1. /\ node[m].path \in Nat /\ node[m].shift \in Nat /\ node[n].shift \in Nat
      /\ node[m].shift + Slice \in Nat /\ node[m].shift + Slice <= node[n].shift
      /\ Belongs(node[m].path, n, i)
  BY NodeTyped, NibNat DEF Fits
<1>2. Above(a, node[m].shift + Slice) = Above(node[m].path, node[m].shift + Slice)
  BY InsideIs
<1>3. Above(a, node[n].shift) = Above(node[m].path, node[n].shift)
  BY <1>1, <1>2, AgreeHigher
<1> QED BY <1>1, <1>3, BelongsTogether

LEMMA FitsThrough ==
  ASSUME Typed, NEW n \in Nodes, NEW i, NEW m \in Nodes, NEW j, NEW c,
         Fits(n, i, m), Fits(m, j, c)
  PROVE  Fits(n, i, c)
<1>1. CASE c \in Leaves
  <2>1. leaf[c].key \in Nat /\ Inside(leaf[c].key, m)
    BY <1>1, LeafTyped DEF Fits, Belongs
  <2> QED BY <1>1, <2>1, BelongsHigher, NullApart DEF Fits
<1>2. CASE c \in Nodes
  <2>1. node[c].path \in Nat /\ Inside(node[c].path, m) /\ node[c].shift + Slice <= node[m].shift
    BY <1>2, NodeTyped DEF Fits, Belongs
  <2>2. /\ node[c].shift \in Nat /\ node[m].shift \in Nat /\ node[n].shift \in Nat /\ Slice \in Nat
        /\ node[m].shift + Slice <= node[n].shift
    BY <1>2, NodeTyped, NibNat DEF Fits
  <2>3. node[c].shift + Slice <= node[n].shift
    BY <2>1, <2>2
  <2> QED BY <1>2, <2>1, <2>3, BelongsHigher, NullApart DEF Fits
<1> QED BY <1>1, <1>2 DEF Fits

(* Every leaf below a child of a node belongs there. *)
LEMMA BelowFits ==
  ASSUME Typed, Ranked, NEW n \in Tree \cap Nodes, NEW i \in Slots
  PROVE  \A x \in Sub(node, node[n].child[i]) : Fits(n, i, x) /\ x \in Tree
<1> DEFINE S == {x \in Tree : Fits(n, i, x)}
           p == node[n].child[i]
<1>1. p = Null \/ p \in S
  <2>1. n \in Lasting
    BY DEF Lasting
  <2>2. p # Null => p \in Tree
    BY SubGoesOn DEF Tree
  <2> QED BY <2>1, <2>2 DEF Ranked
<1>2. ASSUME NEW m \in S \cap Nodes, NEW j \in Slots
      PROVE  node[m].child[j] = Null \/ node[m].child[j] \in S
  <2>1. m \in Tree /\ Fits(n, i, m) /\ m \in Lasting
    BY DEF Lasting
  <2>2. CASE node[m].child[j] # Null
    <3>1. node[m].child[j] \in Tree
      BY <2>1, <2>2, SubGoesOn DEF Tree
    <3>2. Fits(m, j, node[m].child[j])
      BY <2>1, <2>2 DEF Ranked
    <3>3. Fits(n, i, node[m].child[j])
      BY <2>1, <3>2, FitsThrough
    <3> QED BY <3>1, <3>3
  <2> QED BY <2>2
<1>3. Sub(node, p) \subseteq S
  <2> HIDE DEF S, p
  <2> QED BY <1>1, <1>2, SubLeast
<1> QED BY <1>3

LEMMA OnIs ==
  ASSUME NEW n \in Nodes, NEW key
  PROVE  Pointer(On(key, n)) = node[n].child[SliceIndex(key, node[n].shift)]
BY NotRootPlace DEF Pointer, On

(* The way down to a key leads to its leaf. *)
LEMMA OnWay ==
  ASSUME Typed, Ranked, NEW k \in Tree \cap Leaves, NEW S \in SUBSET Nodes,
         NEW at \in Way(leaf[k].key, S)
  PROVE  k \in Sub(node, Pointer(at))
<1> DEFINE q == leaf[k].key
           links == [n \in S |-> {Pointer(On(q, n))}]
           R == {n \in S : n \in Tree /\ k \in Sub(node, n)}
<1>0. q \in Nat
  BY LeafTyped
<1>1. ASSUME NEW n \in R
      PROVE  k \in Sub(node, Pointer(On(q, n)))
  <2>1. n \in Nodes /\ k # n /\ n \in Tree
    BY NullApart
  <2>2. PICK i \in Slots : k \in Sub(node, node[n].child[i])
    BY <2>1, SubOfNode
  <2>3. Fits(n, i, k)
    BY <2>1, <2>2, BelowFits
  <2>4. i = SliceIndex(q, node[n].shift)
    BY <2>3 DEF Fits, Belongs
  <2> QED BY <2>1, <2>2, <2>4, OnIs
<1>2. ASSUME NEW n \in R
      PROVE  links[n] \cap DOMAIN links \subseteq R
  <2>1. k \in Sub(node, Pointer(On(q, n))) /\ n \in Nodes
    BY <1>1
  <2>2. SliceIndex(q, node[n].shift) \in Slots
    BY <1>0, <2>1, NodeTyped, SliceInSlots
  <2>3. Pointer(On(q, n)) # Null => Pointer(On(q, n)) \in Tree
    BY <2>1, <2>2, OnIs, SubGoesOn DEF Tree
  <2> QED BY <2>1, <2>3, NullApart
<1>3. {root} \cap DOMAIN links \subseteq R
  BY SubStarts, NullApart DEF Tree
<1>4. Reach({root}, links) \subseteq R
  <2>1. DOMAIN links = S /\ R \in SUBSET S
    OBVIOUS
  <2> HIDE DEF links, R
  <2> QED BY <1>2, <1>3, <2>1, ReachLeast
<1>5. CASE at = RootPlace
  BY <1>5 DEF Pointer, Tree
<1>6. CASE at # RootPlace
  <2>1. PICK n \in Reach({root}, links) : at = On(q, n)
    BY <1>6 DEF Way
  <2> QED BY <1>1, <1>4, <2>1
<1> QED BY <1>5, <1>6

(* A walk for the key of a leaf in the tree stops at that leaf. *)
LEMMA StopFinds ==
  ASSUME Typed, Ranked, NEW k \in Tree \cap Leaves, NEW key, leaf[k].key = key,
         NEW S \in {Nodes, Shared(key)}, NEW at \in Stops(key, S)
  PROVE  Pointer(at) = k
<1> DEFINE p == Pointer(at)
<1>0. key \in Nat /\ S \in SUBSET Nodes
  BY LeafTyped DEF Shared
<1>1. at \in Way(key, S) /\ p \notin S
  BY DEF Stops
<1>2. k \in Sub(node, p)
  BY <1>0, <1>1, OnWay
<1>3. CASE p \notin Nodes
  BY <1>2, <1>3, SubOfLeaf
<1>4. CASE p \in Nodes
  <2>1. ~ Inside(key, p)
    BY <1>1, <1>4 DEF Shared
  <2>2. p \in Tree
    BY <1>0, <1>4, NullApart, StopInTree
  <2>3. k # p
    BY <1>4, NullApart
  <2>4. PICK i \in Slots : k \in Sub(node, node[p].child[i])
    BY <1>2, <1>4, <2>3, SubOfNode
  <2>5. Fits(p, i, k)
    BY <1>4, <2>2, <2>4, BelowFits
  <2> QED BY <2>1, <2>5 DEF Fits, Belongs
<1> QED BY <1>3, <1>4

(* A step changes the shape of nothing that is in use. *)
KeepsShape ==
  \A x \in Tree \cup Resting \cup InHand :
     /\ x \in Leaves => leaf'[x].key = leaf[x].key
     /\ x \in Nodes => node'[x].path = node[x].path /\ node'[x].shift = node[x].shift

LEMMA StoreChild ==
  ASSUME Typed, NEW at \in AllPlaces, NEW q \in Pointers, Store(at, q)
  PROVE  /\ \A n \in Nodes : node'[n].path = node[n].path /\ node'[n].shift = node[n].shift
         /\ \A n \in Nodes : \A i \in Slots :
               node'[n].child[i] = IF <<n, i>> = at THEN q ELSE node[n].child[i]
<1>1. /\ Stored(node, root, node', root', at, q)
      /\ \A n \in Nodes : node'[n].path = node[n].path /\ node'[n].shift = node[n].shift
  BY StoreIsStored DEF Typed
<1>2. ASSUME NEW n \in Nodes, NEW i \in Slots
      PROVE  node'[n].child[i] = IF <<n, i>> = at THEN q ELSE node[n].child[i]
  <2>1. <<n, i>> \in AllPlaces /\ \A nd, r : Ptr(nd, r, <<n, i>>) = nd[n].child[i]
    BY PlaceOfNode DEF AllPlaces
  <2> QED BY <1>1, <2>1 DEF Stored
<1> QED BY <1>1, <1>2

LEMMA NewPlace ==
  ASSUME Typed, writer.pc = "place", NEW at \in Stops(newKey, Shared(newKey))
  PROVE  /\ writer.leaf \in Leaves /\ writer.leaf \in Pointers /\ newKey \in Nat /\ newKey \in Words
         /\ at \in PlacesOf(Tree) /\ at \in AllPlaces
         /\ Pointer(at) # Null => Pointer(at) \in Tree
         /\ at # RootPlace => /\ at[1] \in Tree \cap Nodes /\ at[2] \in Slots /\ at = <<at[1], at[2]>>
                              /\ Belongs(newKey, at[1], at[2])
<1>1. writer.leaf \in Leaves /\ writer.leaf \in Pointers
  BY HandIs DEF Pointers
<1>2. newKey \in Nat /\ newKey \in Words
  BY <1>1, LeafTyped DEF newKey
<1>3. /\ at \in PlacesOf(Tree) /\ at \in AllPlaces
      /\ Pointer(at) # Null => Pointer(at) \in Tree
      /\ at # RootPlace => at[1] \in Shared(newKey) \cap Tree /\ at = On(newKey, at[1]) /\ at[2] \in Slots
  BY <1>2, SharedNodes, StopInTree
<1>4. ASSUME at # RootPlace
      PROVE  at = <<at[1], at[2]>> /\ Belongs(newKey, at[1], at[2])
  <2>1. at = <<at[1], at[2]>> /\ at[2] = SliceIndex(newKey, node[at[1]].shift)
    BY <1>3, <1>4 DEF On
  <2> QED BY <1>3, <1>4, <2>1 DEF Shared, Belongs
<1> QED BY <1>1, <1>2, <1>3, <1>4 DEF Shared

LEMMA NextKeepsShape ==
  ASSUME Core, [Next]_vars
  PROVE  KeepsShape
<1>0. Typed
  BY DEF Core
<1>1. CASE UNCHANGED <<node, leaf>>
  BY <1>1 DEF KeepsShape
<1>2. CASE \E key \in Keys : \E value \in ValuesOf[key] : InsertBegin(key, value)
  <2>0. PICK key \in Keys : \E value \in ValuesOf[key] : InsertBegin(key, value)
    BY <1>2
  <2>1. PICK value \in ValuesOf[key] : InsertBegin(key, value)
    BY <2>0
  <2>2. PICK k \in Leaves :
          /\ IF deletedLeaf # Null
             THEN k = deletedLeaf /\ deletedLeaf' = leaf[k].value /\ UNCHANGED taken
             ELSE k \notin taken /\ taken' = taken \cup {k} /\ UNCHANGED deletedLeaf
          /\ leaf' = [leaf EXCEPT ![k] = [key |-> key, value |-> value]]
    BY <2>1 DEF InsertBegin
  <2>3. UNCHANGED node /\ \A j \in Leaves \ {k} : leaf'[j] = leaf[j]
    BY <1>0, <2>1, <2>2 DEF InsertBegin, tree, Typed
  <2>4. k \notin Tree \cup InHand \cup FreeNodes \cup Resting
    BY <2>2, <2>3, LeafTaken
  <2> QED BY <2>3, <2>4 DEF KeepsShape
<1>3. CASE InsertLeaf
  <2>1. PICK at \in Stops(newKey, Shared(newKey)) : Store(at, writer.leaf)
    BY <1>3 DEF InsertLeaf
  <2> QED BY <1>0, <1>3, <2>1, NewPlace, StoreChild DEF KeepsShape, InsertLeaf
<1>4. CASE InsertLink
  <2>1. writer.parent \in AllPlaces /\ writer.node \in Pointers /\ Store(writer.parent, writer.node)
    BY <1>0, <1>4, WriterCases DEF InsertLink, Pointers
  <2> QED BY <1>0, <1>4, <2>1, StoreChild DEF KeepsShape, InsertLink
<1>5. CASE \E update \in BOOLEAN : InsertExists(update)
  <2>1. PICK update \in BOOLEAN, at \in Stops(newKey, Shared(newKey)) :
          leaf' = [leaf EXCEPT ![writer.leaf].value = deletedLeaf,
                               ![Pointer(at)].value = IF update THEN newValue ELSE @]
    BY <1>5 DEF InsertExists
  <2>2. \A k \in Leaves : leaf'[k].key = leaf[k].key
    BY <1>0, <2>1 DEF Typed
  <2>3. UNCHANGED node
    BY <1>5 DEF InsertExists, tree
  <2> QED BY <2>2, <2>3 DEF KeepsShape
<1>6. CASE InsertNode
  <2>1. PICK at \in Stops(newKey, Shared(newKey)), m \in Nodes :
          /\ m \notin Tree \cup InHand \cup Resting
          /\ node' = [node EXCEPT ![m] = NewNode(newKey, writer.leaf, Pointer(at))]
    BY <1>6, InsertNodeCore
  <2>2. UNCHANGED leaf /\ \A n \in Nodes \ {m} : node'[n] = node[n]
    BY <1>0, <1>6, <2>1 DEF InsertNode, Typed, NodesTyped
  <2> QED BY <2>1, <2>2 DEF KeepsShape
<1>7. CASE InsertNoNode
  <2>1. UNCHANGED node /\ \A k \in Leaves : leaf'[k].key = leaf[k].key
    BY <1>0, <1>7 DEF InsertNoNode, tree, Typed
  <2> QED BY <2>1 DEF KeepsShape
<1>8. CASE RemoveReclaim
  <2>1. \A n \in Nodes : node'[n].path = node[n].path /\ node'[n].shift = node[n].shift
    <3>1. \/ UNCHANGED node
          \/ node' = [node EXCEPT ![pendingNodes[writer.del]].child[0] = deletedNode]
      BY <1>8 DEF RemoveReclaim
    <3> QED BY <1>0, <3>1 DEF Typed, NodesTyped
  <2>2. \A k \in Leaves : leaf'[k].key = leaf[k].key
    <3>1. \/ UNCHANGED leaf
          \/ leaf' = [leaf EXCEPT ![pendingLeaves[writer.del]].value = deletedLeaf]
      BY <1>8 DEF RemoveReclaim
    <3> QED BY <1>0, <3>1 DEF Typed
  <2> QED BY <2>1, <2>2 DEF KeepsShape
<1>9. CASE RemoveUnlink
  <2>1. PICK at \in Stops(writer.key, Nodes) : Store(at, Null)
    BY <1>9 DEF RemoveUnlink
  <2>2. at \in AllPlaces /\ Null \in Pointers
    BY <1>0, <1>9, WriterCases, WordsNat, StopInTree DEF RemoveUnlink, Pointers
  <2> QED BY <1>0, <1>9, <2>1, <2>2, StoreChild DEF KeepsShape, RemoveUnlink
<1>10. CASE RemoveCollapse
  <2>1. PICK o \in Slots : Store(writer.parent, node[writer.node].child[o])
    BY <1>10 DEF RemoveCollapse
  <2>2. writer.parent \in AllPlaces /\ node[writer.node].child[o] \in Pointers
    BY <1>0, <1>10, WriterCases, NodeTyped DEF RemoveCollapse
  <2> QED BY <1>0, <1>10, <2>1, <2>2, StoreChild DEF KeepsShape, RemoveCollapse
<1>11. CASE \/ \E key \in Keys : RemoveBegin(key)
            \/ RemoveMiss \/ Reads
  BY <1>1, <1>11 DEF RemoveBegin, RemoveMiss, Reads, unread, tree
<1> QED BY <1>2, <1>3, <1>4, <1>5, <1>6, <1>7, <1>8, <1>9, <1>10, <1>11, NextCases

LEMMA FitsKept ==
  ASSUME KeepsShape, NEW n \in Nodes, n \in Tree \cup Resting \cup InHand, NEW i,
         NEW c \in Tree \cup Resting \cup InHand, Fits(n, i, c)
  PROVE  Fits(n, i, c)'
<1>1. node'[n].path = node[n].path /\ node'[n].shift = node[n].shift
  BY DEF KeepsShape
<1>2. c \in Leaves => leaf'[c].key = leaf[c].key
  BY DEF KeepsShape
<1>3. c \in Nodes => node'[c].path = node[c].path /\ node'[c].shift = node[c].shift
  BY DEF KeepsShape
<1> QED BY <1>1, <1>2, <1>3 DEF Fits, Belongs, Inside

LEMMA LastingKids ==
  ASSUME Grace, NEW n \in Lasting, NEW c \in Kids(node, n)
  PROVE  c \in Tree \cup Resting \cup InHand
<1>0. Core /\ Typed
  BY DEF Grace, Core
<1>1. CASE n \in Tree
  BY <1>1, SubGoesOn DEF Kids, Tree, Lasting
<1>2. CASE n \in Resting
  <2>1. n \in Nodes
    BY DEF Lasting
  <2>2. PICK d \in Ages : pendingNodes[d] = n
    BY <1>0, <1>2, <2>1, NullApart DEF Resting, Rests, Typed
  <2>3. Safe(c, Stamp(d))
    BY <2>1, <2>2, NullApart DEF Grace, RestsInOrder
  <2>4. c \in Nodes \cup Leaves
    BY <1>0, <2>1, KidsIn
  <2>5. Unlinked(c) => c \in InHand
    BY <1>0, HandIs DEF Unlinked
  <2> QED BY <2>3, <2>4, <2>5 DEF Safe, Resting
<1> QED BY <1>1, <1>2 DEF Lasting

LEMMA RankedKept ==
  ASSUME Grace, Ranked, KeepsShape, NEW n \in Lasting, NEW i \in Slots, NEW c,
         c = node[n].child[i], c # Null
  PROVE  Fits(n, i, c)'
<1>1. c \in Tree \cup Resting \cup InHand
  BY LastingKids DEF Kids
<1>2. n \in Nodes /\ n \in Tree \cup Resting \cup InHand /\ Fits(n, i, c)
  BY DEF Ranked, Lasting
<1> QED BY <1>1, <1>2, FitsKept

LEMMA LastingIs ==
  ASSUME Typed
  PROVE  \A n : n \in Lasting <=> n \in Nodes /\ (n \in Tree \/ \E d \in Ages : pendingNodes[d] = n)
BY NullApart DEF Lasting, Resting, Rests, Typed

LEMMA LastingNext ==
  ASSUME Typed'
  PROVE  \A n : n \in Lasting' <=> n \in Nodes /\ (n \in Tree' \/ \E d \in Ages : pendingNodes'[d] = n)
BY NullApart DEF Lasting, Resting, Rests, Typed

LEMMA PlainRanked ==
  ASSUME Grace, Ranked, KeepsShape, Typed', Tree' \cap Nodes \subseteq Tree,
         \A d \in Ages : pendingNodes'[d] \in {Null, pendingNodes[d]},
         \A n \in Lasting \cap Lasting' : \A i \in Slots :
             node'[n].child[i] \in {Null, node[n].child[i]}
  PROVE  Ranked'
<1>1. Typed
  BY DEF Grace, Core
<1>2. Lasting' \subseteq Lasting
  BY <1>1, LastingIs, LastingNext, NullApart
<1> SUFFICES ASSUME NEW n \in Lasting', NEW i \in Slots, node'[n].child[i] # Null
             PROVE  Fits(n, i, node[n].child[i])'
  BY DEF Ranked
<1>3. PICK c : c = node'[n].child[i]
  OBVIOUS
<1>4. n \in Lasting /\ c = node[n].child[i] /\ c # Null
  BY <1>2, <1>3
<1>5. Fits(n, i, c)'
  BY <1>4, RankedKept
<1> QED BY <1>3, <1>5

(* The steps that put no new pointer into the tree. *)
LEMMA OldRanked ==
  ASSUME Grace, Ranked,
         \/ \E key \in Keys : \E value \in ValuesOf[key] : InsertBegin(key, value)
         \/ \E update \in BOOLEAN : InsertExists(update)
         \/ InsertNode \/ InsertNoNode
         \/ \E key \in Keys : RemoveBegin(key)
         \/ RemoveReclaim \/ RemoveMiss \/ RemoveUnlink \/ Reads,
         Core', KeepsShape
  PROVE  Ranked'
<1>0. Core /\ Typed /\ Typed'
  BY DEF Grace, Core
<1>1. Tree' \subseteq Tree
  BY <1>0, InsertBeginCore, InsertExistsCore, InsertNodeCore, InsertNoNodeCore, RemoveBeginCore,
     RemoveReclaimCore, RemoveMissCore, RemoveUnlinkCore, UnreadCore DEF Reads
<1>2. CASE RemoveReclaim
  <2>1. pendingNodes' = [pendingNodes EXCEPT ![writer.del] = Null]
    BY <1>2 DEF RemoveReclaim
  <2>2. \A d \in Ages : pendingNodes'[d] = IF d = writer.del THEN Null ELSE pendingNodes[d]
    BY <1>0, <2>1 DEF Typed
  <2>3. \A n \in Nodes : n # pendingNodes[writer.del] => node'[n] = node[n]
    BY <1>0, <1>2, RemoveReclaimCore
  <2>4. writer.del \in Ages
    BY <1>0, <1>2, WriterCases DEF RemoveReclaim
  <2>5. ASSUME NEW n \in Lasting \cap Lasting'
        PROVE  node'[n] = node[n]
    <3>1. n \in Nodes
      BY DEF Lasting
    <3>2. CASE n \in Tree'
      <4>1. n # pendingNodes[writer.del]
        BY <1>0, <1>1, <2>4, <3>1, <3>2, NullApart, RestingIs
      <4> QED BY <2>3, <3>1, <4>1
    <3>3. CASE \E d \in Ages : pendingNodes'[d] = n
      <4>1. PICK d \in Ages : pendingNodes'[d] = n
        BY <3>3
      <4>2. d # writer.del /\ pendingNodes[d] = n
        BY <2>2, <3>1, <4>1, NullApart
      <4>3. n # pendingNodes[writer.del]
        BY <1>0, <2>4, <3>1, <4>2, NullApart DEF Core, OwnedOnce
      <4> QED BY <2>3, <3>1, <4>3
    <3> QED BY <1>0, <3>2, <3>3, LastingNext
  <2> QED BY <1>0, <1>1, <2>2, <2>5, PlainRanked
<1>3. CASE UNCHANGED <<pendingNodes, node>>
  BY <1>0, <1>1, <1>3, PlainRanked
<1>4. CASE InsertNode
  <2>1. PICK at \in Stops(newKey, Shared(newKey)), m \in Nodes :
          /\ m \notin Tree \cup InHand \cup Resting
          /\ node' = [node EXCEPT ![m] = NewNode(newKey, writer.leaf, Pointer(at))]
    BY <1>0, <1>4, InsertNodeCore
  <2>2. \A n \in Lasting : node'[n] = node[n]
    BY <1>0, <2>1 DEF Lasting, Typed, NodesTyped
  <2>3. UNCHANGED pendingNodes
    BY <1>4 DEF InsertNode
  <2> QED BY <1>0, <1>1, <2>2, <2>3, PlainRanked
<1>5. CASE RemoveUnlink
  <2>1. PICK at \in Stops(writer.key, Nodes) : Store(at, Null)
    BY <1>5 DEF RemoveUnlink
  <2>2. at \in AllPlaces /\ Null \in Pointers
    BY <1>0, <1>5, WriterCases, WordsNat, StopInTree DEF RemoveUnlink, Pointers
  <2>3. UNCHANGED pendingNodes
    BY <1>5 DEF RemoveUnlink
  <2>4. \A n \in Lasting : \A i \in Slots : node'[n].child[i] \in {Null, node[n].child[i]}
    BY <1>0, <2>1, <2>2, StoreChild DEF Lasting
  <2> QED BY <1>0, <1>1, <2>3, <2>4, PlainRanked
<1> QED BY <1>2, <1>3, <1>4, <1>5 DEF InsertBegin, InsertExists, InsertNoNode, RemoveBegin, RemoveMiss,
           Reads, unread, tree, pools

LEMMA InsertLeafRanked ==
  ASSUME Grace, Ranked, InsertLeaf, Core', KeepsShape
  PROVE  Ranked'
<1>0. Core /\ Typed /\ Typed' /\ writer.pc = "place" /\ UNCHANGED <<pendingNodes, leaf>>
  BY DEF Grace, Core, InsertLeaf, pools
<1> DEFINE x == writer.leaf
<1>1. PICK at \in Stops(newKey, Shared(newKey)) : Pointer(at) = Null /\ Store(at, x)
  BY DEF InsertLeaf
<1>2. /\ x \in Leaves /\ x \in Pointers /\ at \in AllPlaces /\ at \in PlacesOf(Tree)
      /\ at # RootPlace => at[1] \in Nodes /\ at = <<at[1], at[2]>> /\ Belongs(newKey, at[1], at[2])
  BY <1>0, NewPlace
<1>3. Tree' = Tree \cup {x}
  BY <1>0, InsertLeafCore
<1>4. /\ \A n \in Nodes : node'[n].path = node[n].path /\ node'[n].shift = node[n].shift
      /\ \A n \in Nodes : \A i \in Slots :
            node'[n].child[i] = IF <<n, i>> = at THEN x ELSE node[n].child[i]
  BY <1>0, <1>1, <1>2, StoreChild
<1>5. Lasting' \subseteq Lasting
  BY <1>0, <1>2, <1>3, LastingIs, LastingNext, NullApart
<1> SUFFICES ASSUME NEW n \in Lasting', NEW i \in Slots, node'[n].child[i] # Null
             PROVE  Fits(n, i, node[n].child[i])'
  BY DEF Ranked
<1>6. PICK c : c = node'[n].child[i]
  OBVIOUS
<1>7. n \in Lasting /\ n \in Nodes /\ c # Null
  BY <1>5, <1>6 DEF Lasting
<1>8. CASE <<n, i>> = at
  <2>1. c = x /\ Belongs(newKey, n, i)
    BY <1>2, <1>4, <1>6, <1>7, <1>8, NotRootPlace
  <2>2. leaf'[c].key = newKey
    BY <1>0, <2>1 DEF newKey
  <2>3. Belongs(leaf[c].key, n, i)'
    BY <1>4, <1>7, <2>1, <2>2 DEF Belongs, Inside
  <2>4. Fits(n, i, c)'
    BY <1>2, <2>1, <2>3, NullApart DEF Fits
  <2> QED BY <1>6, <2>4
<1>9. CASE <<n, i>> # at
  <2>1. c = node[n].child[i]
    BY <1>4, <1>6, <1>7, <1>9
  <2>2. Fits(n, i, c)'
    BY <1>7, <2>1, RankedKept
  <2> QED BY <1>6, <2>2
<1> QED BY <1>8, <1>9

LEMMA InsertLinkRanked ==
  ASSUME Grace, Ranked, HandFits, InsertLink, Core', KeepsShape
  PROVE  Ranked'
<1>0. Core /\ Typed /\ Typed' /\ writer.pc = "link" /\ UNCHANGED <<pendingNodes, leaf>>
  BY DEF Grace, Core, InsertLink, pools
<1> DEFINE m == writer.node
           at == writer.parent
<1>1. Store(at, m)
  BY DEF InsertLink
<1>2. /\ m \in Nodes /\ m \in Pointers /\ writer.leaf \in Leaves /\ at \in PlacesOf(Tree) /\ at \in AllPlaces
      /\ m \in InHand /\ writer.leaf \in InHand /\ m \notin Tree /\ m \notin Resting
  BY <1>0, HandIs, PlacesAll DEF Core, HandReady, LinkReady, Pointers, OwnedOnce
<1>3. Tree' = Tree \cup {writer.leaf, m}
  BY <1>0, InsertLinkCore
<1>4. /\ \A n \in Nodes : node'[n].path = node[n].path /\ node'[n].shift = node[n].shift
      /\ \A n \in Nodes : \A i \in Slots :
            node'[n].child[i] = IF <<n, i>> = at THEN m ELSE node[n].child[i]
  BY <1>0, <1>1, <1>2, StoreChild
<1>5. \A n \in Lasting' : n \in Lasting \/ n = m
  BY <1>0, <1>2, <1>3, LastingIs, LastingNext, NullApart
<1> SUFFICES ASSUME NEW n \in Lasting', NEW i \in Slots, node'[n].child[i] # Null
             PROVE  Fits(n, i, node[n].child[i])'
  BY DEF Ranked
<1>6. PICK c : c = node'[n].child[i]
  OBVIOUS
<1>7. (n \in Lasting \/ n = m) /\ n \in Nodes /\ c # Null
  BY <1>2, <1>5, <1>6 DEF Lasting
<1>8. CASE <<n, i>> = at
  <2>1. c = m /\ n \in Tree /\ Fits(n, i, m)
    <3>1. n \in Tree
      BY <1>2, <1>8, <1>7, PlaceCases, NotRootPlace
    <3>2. Fits(n, i, m)
      BY <1>0, <1>7, <1>8, NotRootPlace DEF HandFits, FitsAt
    <3> QED BY <1>4, <1>6, <1>7, <1>8, <3>1, <3>2
  <2>2. Fits(n, i, c)'
    BY <1>2, <1>7, <2>1, FitsKept
  <2> QED BY <1>6, <2>2
<1>9. CASE <<n, i>> # at /\ n \in Lasting
  <2>1. c = node[n].child[i]
    BY <1>4, <1>6, <1>7, <1>9
  <2>2. Fits(n, i, c)'
    BY <1>7, <1>9, <2>1, RankedKept
  <2> QED BY <1>6, <2>2
<1>10. CASE <<n, i>> # at /\ n = m
  <2>1. c = node[n].child[i]
    BY <1>4, <1>6, <1>7, <1>10
  <2>2. Fits(n, i, c)
    BY <1>0, <1>7, <1>10, <2>1 DEF HandFits
  <2>3. c \in Tree \cup InHand
    <3>1. PICK j, h \in Slots :
            /\ node[m].child[j] = writer.leaf
            /\ node[m].child[h] = Pointer(at)
            /\ \A g \in Slots \ {j, h} : node[m].child[g] = Null
      BY <1>0 DEF Core, HandReady, LinkReady
    <3>2. c = writer.leaf \/ c = Pointer(at)
      BY <1>7, <1>10, <2>1, <3>1
    <3> QED BY <1>2, <1>7, <3>2, InTree
  <2>4. Fits(n, i, c)'
    BY <1>2, <1>7, <1>10, <2>2, <2>3, FitsKept
  <2> QED BY <1>6, <2>4
<1> QED BY <1>7, <1>8, <1>9, <1>10

LEMMA RemoveCollapseRanked ==
  ASSUME Grace, Ranked, RemoveCollapse, Core', KeepsShape
  PROVE  Ranked'
<1>0. Core /\ Typed /\ Typed' /\ writer.pc = "collapse"
  BY DEF Grace, Core, RemoveCollapse
<1> DEFINE m == writer.node
           at == writer.parent
<1>1. PICK o \in Slots : node[m].child[o] # Null /\ Store(at, node[m].child[o])
  BY DEF RemoveCollapse
<1> DEFINE q == node[m].child[o]
<1>2. /\ m \in Nodes /\ q \in Pointers /\ at \in PlacesOf(Tree) /\ at \in AllPlaces
      /\ Pointer(at) = m
  BY <1>0, WriterCases, NodeTyped, PlacesAll DEF Core, HandReady, CollapseReady
<1>3. Tree' = Tree \ {m} /\ m \in Tree
  BY <1>0, RemoveCollapseCore
<1>4. /\ \A n \in Nodes : node'[n].path = node[n].path /\ node'[n].shift = node[n].shift
      /\ \A n \in Nodes : \A i \in Slots :
            node'[n].child[i] = IF <<n, i>> = at THEN q ELSE node[n].child[i]
  BY <1>0, <1>1, <1>2, StoreChild
<1>5. \A n \in Lasting' : n \in Lasting
  <2>1. pendingNodes' = [pendingNodes EXCEPT ![writer.del] = m]
    BY DEF RemoveCollapse
  <2>2. \A d \in Ages : pendingNodes'[d] \in {m, pendingNodes[d]}
    BY <1>0, <2>1 DEF Typed
  <2> QED BY <1>0, <1>3, <2>2, LastingIs, LastingNext
<1> SUFFICES ASSUME NEW n \in Lasting', NEW i \in Slots, node'[n].child[i] # Null
             PROVE  Fits(n, i, node[n].child[i])'
  BY DEF Ranked
<1>6. PICK c : c = node'[n].child[i]
  OBVIOUS
<1>7. n \in Lasting /\ n \in Nodes /\ c # Null
  BY <1>5, <1>6 DEF Lasting
<1>8. CASE <<n, i>> = at
  <2>1. c = q /\ n \in Tree /\ node[n].child[i] = m
    <3>1. at # RootPlace /\ at[1] = n /\ at[2] = i
      BY <1>7, <1>8, NotRootPlace
    <3>2. n \in Tree
      BY <1>2, <3>1, PlaceCases
    <3>3. node[n].child[i] = m
      BY <1>2, <3>1 DEF Pointer
    <3>4. c = q
      BY <1>4, <1>6, <1>7, <1>8
    <3> QED BY <3>2, <3>3, <3>4
  <2>2. Fits(n, i, m) /\ Fits(m, o, c) /\ c \in Tree
    <3>1. m \in Lasting /\ m # Null
      BY <1>2, <1>3, NullApart DEF Lasting
    <3>2. q \in Tree
      BY <1>1, <1>2, <1>3, SubGoesOn DEF Tree
    <3> QED BY <1>1, <1>7, <2>1, <3>1, <3>2 DEF Ranked
  <2>3. Fits(n, i, c)
    BY <1>0, <1>2, <1>7, <2>2, FitsThrough
  <2>4. Fits(n, i, c)'
    BY <1>7, <2>1, <2>2, <2>3, FitsKept
  <2> QED BY <1>6, <2>4
<1>9. CASE <<n, i>> # at
  <2>1. c = node[n].child[i]
    BY <1>4, <1>6, <1>7, <1>9
  <2>2. Fits(n, i, c)'
    BY <1>7, <2>1, RankedKept
  <2> QED BY <1>6, <2>2
<1> QED BY <1>8, <1>9

LEMMA NextRanked ==
  ASSUME Grace, Ranked, HandFits, [Next]_vars
  PROVE  Ranked'
<1>1. Core /\ Core' /\ KeepsShape
  BY NextCore, NextKeepsShape DEF Grace
<1> QED BY <1>1, NextCases, OldRanked, InsertLeafRanked, InsertLinkRanked, RemoveCollapseRanked

LEMMA ValuesAre ==
  ASSUME NEW key \in Keys, NEW value \in ValuesOf[key]
  PROVE  value # Null /\ value \in Links
BY LinksHold, CritnibAssumption DEF CritnibAssumption

LEMMA EntriesStay ==
  ASSUME EntriesKept, UNCHANGED entries, Tree' \cap Leaves = Tree \cap Leaves,
         \A k \in Tree \cap Leaves : leaf'[k] = leaf[k]
  PROVE  EntriesKept'
BY DEF EntriesKept

LEMMA EntryAdded ==
  ASSUME EntriesKept, NEW x \in Leaves, leaf[x].key \in Keys, leaf[x].value \in ValuesOf[leaf[x].key],
         entries' = [entries EXCEPT ![leaf[x].key] = leaf[x].value],
         Tree' \cap Leaves = (Tree \cap Leaves) \cup {x}, UNCHANGED leaf,
         \A k \in Tree \cap Leaves : leaf[k].key # leaf[x].key
  PROVE  EntriesKept'
<1> DEFINE q == leaf[x].key
<1>1. \A key \in Keys : entries'[key] = IF key = q THEN leaf[x].value ELSE entries[key]
  BY DEF EntriesKept
<1>2. leaf[x].value # Null /\ leaf[x].value \in Links
  BY ValuesAre
<1>3. entries' \in [Keys -> Links]
  BY <1>2 DEF EntriesKept
<1>4. \A key \in Keys : entries'[key] # Null => entries'[key] \in ValuesOf[key]
  BY <1>1 DEF EntriesKept
<1>5. \A k \in Tree' \cap Leaves :
        /\ leaf[k].key \in Keys
        /\ leaf[k].value = entries'[leaf[k].key]
        /\ leaf[k].value \in ValuesOf[leaf[k].key]
  BY <1>1 DEF EntriesKept
<1>6. \A j, k \in Tree' \cap Leaves : leaf[j].key = leaf[k].key => j = k
  BY DEF EntriesKept
<1>7. \A key \in Keys : entries'[key] # Null => \E k \in Tree' \cap Leaves : leaf[k].key = key
  BY <1>1 DEF EntriesKept
<1> QED BY <1>3, <1>4, <1>5, <1>6, <1>7 DEF EntriesKept

LEMMA EntryChanged ==
  ASSUME EntriesKept, NEW x \in Tree \cap Leaves, NEW v \in ValuesOf[leaf[x].key],
         entries' = [entries EXCEPT ![leaf[x].key] = v],
         Tree' \cap Leaves = Tree \cap Leaves,
         leaf'[x].key = leaf[x].key, leaf'[x].value = v,
         \A k \in Tree \cap Leaves : k # x => leaf'[k] = leaf[k]
  PROVE  EntriesKept'
<1> DEFINE q == leaf[x].key
<1>0. q \in Keys
  BY DEF EntriesKept
<1>1. \A key \in Keys : entries'[key] = IF key = q THEN v ELSE entries[key]
  BY DEF EntriesKept
<1>2. v # Null /\ v \in Links
  BY <1>0, ValuesAre
<1>3. entries' \in [Keys -> Links]
  BY <1>2 DEF EntriesKept
<1>4. \A key \in Keys : entries'[key] # Null => entries'[key] \in ValuesOf[key]
  BY <1>1 DEF EntriesKept
<1>8. \A k \in Tree \cap Leaves : leaf'[k].key = leaf[k].key
  OBVIOUS
<1>5. ASSUME NEW k \in Tree' \cap Leaves
      PROVE  /\ leaf'[k].key \in Keys
             /\ leaf'[k].value = entries'[leaf'[k].key]
             /\ leaf'[k].value \in ValuesOf[leaf'[k].key]
  <2>1. CASE k = x
    BY <1>0, <1>1, <2>1
  <2>2. CASE k # x
    <3>1. leaf'[k] = leaf[k] /\ leaf[k].key # q
      BY <2>2 DEF EntriesKept
    <3> QED BY <1>1, <3>1 DEF EntriesKept
  <2> QED BY <2>1, <2>2
<1>6. \A j, k \in Tree' \cap Leaves : leaf'[j].key = leaf'[k].key => j = k
  BY <1>8 DEF EntriesKept
<1>7. \A key \in Keys : entries'[key] # Null => \E k \in Tree' \cap Leaves : leaf'[k].key = key
  BY <1>0, <1>1, <1>8 DEF EntriesKept
<1> QED BY <1>3, <1>4, <1>5, <1>6, <1>7 DEF EntriesKept

LEMMA EntryRemoved ==
  ASSUME EntriesKept, NEW x \in Tree \cap Leaves,
         entries' = [entries EXCEPT ![leaf[x].key] = Null],
         Tree' \cap Leaves = (Tree \cap Leaves) \ {x}, UNCHANGED leaf
  PROVE  EntriesKept'
<1> DEFINE q == leaf[x].key
<1>0. q \in Keys
  BY DEF EntriesKept
<1>1. \A key \in Keys : entries'[key] = IF key = q THEN Null ELSE entries[key]
  BY DEF EntriesKept
<1>3. entries' \in [Keys -> Links]
  BY LinksHold DEF EntriesKept
<1>4. \A key \in Keys : entries'[key] # Null => entries'[key] \in ValuesOf[key]
  BY <1>1 DEF EntriesKept
<1>5. \A k \in Tree' \cap Leaves :
        /\ leaf[k].key \in Keys
        /\ leaf[k].value = entries'[leaf[k].key]
        /\ leaf[k].value \in ValuesOf[leaf[k].key]
  BY <1>1 DEF EntriesKept
<1>6. \A j, k \in Tree' \cap Leaves : leaf[j].key = leaf[k].key => j = k
  BY DEF EntriesKept
<1>7. \A key \in Keys : entries'[key] # Null => \E k \in Tree' \cap Leaves : leaf[k].key = key
  BY <1>0, <1>1 DEF EntriesKept
<1> QED BY <1>3, <1>4, <1>5, <1>6, <1>7 DEF EntriesKept

LEMMA NewKeyAbsent ==
  ASSUME Typed, Ranked, writer.pc = "place", NEW at \in Stops(newKey, Shared(newKey)),
         Pointer(at) = Null \/ Parts(newKey, Pointer(at)), NEW k \in Tree \cap Leaves
  PROVE  leaf[k].key # newKey
<1> SUFFICES ASSUME leaf[k].key = newKey PROVE FALSE
  OBVIOUS
<1>1. Pointer(at) = k
  BY StopFinds
<1> QED BY <1>1, NullApart DEF Parts

LEMMA OldEntries ==
  ASSUME Core, EntriesKept,
         \/ \E key \in Keys : \E value \in ValuesOf[key] : InsertBegin(key, value)
         \/ InsertNode \/ InsertNoNode
         \/ \E key \in Keys : RemoveBegin(key)
         \/ RemoveReclaim \/ RemoveMiss \/ RemoveCollapse \/ Reads
  PROVE  EntriesKept'
<1>0. Typed
  BY DEF Core
<1>1. UNCHANGED entries
  BY DEF InsertBegin, InsertNode, InsertNoNode, RemoveBegin, RemoveReclaim, RemoveMiss, RemoveCollapse,
     Reads, unread, ghosts
<1>2. Tree' \cap Leaves = Tree \cap Leaves
  <2>1. CASE RemoveCollapse
    <3>1. Tree' = Tree \ {writer.node} /\ writer.node \in Nodes
      BY <1>0, <2>1, RemoveCollapseCore, WriterCases DEF RemoveCollapse
    <3> QED BY <3>1, NullApart
  <2>2. CASE ~ RemoveCollapse
    BY <2>2, InsertBeginCore, InsertNodeCore, InsertNoNodeCore, RemoveBeginCore,
       RemoveReclaimCore, RemoveMissCore, UnreadCore DEF Reads
  <2> QED BY <2>1, <2>2
<1>3. \A k \in Tree \cap Leaves : leaf'[k] = leaf[k]
  <2>1. CASE UNCHANGED leaf
    BY <2>1
  <2>2. CASE \E key \in Keys : \E value \in ValuesOf[key] : InsertBegin(key, value)
    <3>0. PICK key \in Keys : \E value \in ValuesOf[key] : InsertBegin(key, value)
      BY <2>2
    <3>1. PICK value \in ValuesOf[key] : InsertBegin(key, value)
      BY <3>0
    <3>2. PICK x \in Leaves :
            /\ IF deletedLeaf # Null
               THEN x = deletedLeaf /\ deletedLeaf' = leaf[x].value /\ UNCHANGED taken
               ELSE x \notin taken /\ taken' = taken \cup {x} /\ UNCHANGED deletedLeaf
            /\ leaf' = [leaf EXCEPT ![x] = [key |-> key, value |-> value]]
      BY <3>1 DEF InsertBegin
    <3>3. \A j \in Leaves \ {x} : leaf'[j] = leaf[j]
      BY <1>0, <3>2 DEF Typed
    <3>4. x \notin Tree
      BY <3>2, <3>3, LeafTaken
    <3> QED BY <3>3, <3>4
  <2>3. CASE InsertNoNode
    <3>1. writer.pc = "place" /\ leaf' = [leaf EXCEPT ![writer.leaf].value = deletedLeaf]
      BY <2>3 DEF InsertNoNode
    <3>2. writer.leaf \notin Tree
      BY <1>0, <3>1, HandIs DEF Core, OwnedOnce
    <3> QED BY <1>0, <3>1, <3>2 DEF Typed
  <2>4. CASE RemoveReclaim
    <3>1. \A k \in Leaves : k # pendingLeaves[writer.del] => leaf'[k] = leaf[k]
      BY <2>4, RemoveReclaimCore
    <3>2. writer.del \in Ages
      BY <1>0, <2>4, WriterCases DEF RemoveReclaim
    <3>3. \A k \in Tree \cap Leaves : k # pendingLeaves[writer.del]
      BY <3>2 DEF Core, OwnedOnce, Resting, Rests
    <3> QED BY <3>1, <3>3
  <2> QED BY <2>1, <2>2, <2>3, <2>4 DEF InsertNode, RemoveBegin, RemoveMiss, RemoveCollapse,
             Reads, unread
<1> QED BY <1>1, <1>2, <1>3, EntriesStay

LEMMA WriterEntries ==
  ASSUME Core, Ranked, HandFits, EntriesKept,
         InsertLeaf \/ InsertLink \/ (\E update \in BOOLEAN : InsertExists(update)) \/ RemoveUnlink
  PROVE  EntriesKept'
<1>0. Typed
  BY DEF Core
<1>1. CASE InsertLeaf
  <2>1. /\ writer.pc = "place" /\ UNCHANGED leaf
        /\ entries' = [entries EXCEPT ![newKey] = newValue]
    BY <1>1 DEF InsertLeaf, Write
  <2>2. PICK at \in Stops(newKey, Shared(newKey)) : Pointer(at) = Null
    BY <1>1 DEF InsertLeaf
  <2>3. \A k \in Tree \cap Leaves : leaf[k].key # newKey
    BY <1>0, <2>1, <2>2, NewKeyAbsent
  <2>4. Tree' = Tree \cup {writer.leaf} /\ writer.leaf \in Leaves
    BY <1>0, <1>1, <2>1, InsertLeafCore, HandIs
  <2>5. Tree' \cap Leaves = (Tree \cap Leaves) \cup {writer.leaf}
    BY <2>4
  <2> QED BY <2>1, <2>3, <2>4, <2>5, EntryAdded DEF HandFits, newKey, newValue
<1>2. CASE InsertLink
  <2>1. /\ writer.pc = "link" /\ UNCHANGED leaf
        /\ entries' = [entries EXCEPT ![newKey] = newValue]
    BY <1>2 DEF InsertLink, Write
  <2>3. \A k \in Tree \cap Leaves : leaf[k].key # newKey
    BY <2>1 DEF HandFits
  <2>4. Tree' = Tree \cup {writer.leaf, writer.node} /\ writer.leaf \in Leaves /\ writer.node \in Nodes
    BY <1>0, <1>2, <2>1, InsertLinkCore, HandIs
  <2>5. Tree' \cap Leaves = (Tree \cap Leaves) \cup {writer.leaf}
    BY <2>4, NullApart
  <2> QED BY <2>1, <2>3, <2>4, <2>5, EntryAdded DEF HandFits, newKey, newValue
<1>3. CASE \E update \in BOOLEAN : InsertExists(update)
  <2>1. PICK update \in BOOLEAN : InsertExists(update)
    BY <1>3
  <2>2. PICK at \in Stops(newKey, Shared(newKey)) :
          /\ Found(newKey, Pointer(at))
          /\ leaf' = [leaf EXCEPT
                       ![writer.leaf].value = deletedLeaf,
                       ![Pointer(at)].value = IF update THEN newValue ELSE @]
    BY <2>1 DEF InsertExists
  <2> DEFINE x == Pointer(at)
             w == writer.leaf
  <2>3. /\ writer.pc = "place" /\ Tree' = Tree
        /\ IF update THEN entries' = [entries EXCEPT ![newKey] = newValue] ELSE UNCHANGED entries
    BY <2>1, InsertExistsCore DEF InsertExists, Write, ghosts
  <2>4. x \in Leaves /\ leaf[x].key = newKey /\ x \in Tree /\ x # Null
    BY <1>0, <2>2, <2>3, NewPlace, NullApart DEF Found
  <2>5. w \in Leaves /\ w \notin Tree
    BY <1>0, <2>3, HandIs DEF Core, OwnedOnce
  <2>6. /\ leaf'[x].key = newKey
        /\ leaf'[x].value = IF update THEN newValue ELSE leaf[x].value
        /\ \A k \in Leaves : k # x /\ k # w => leaf'[k] = leaf[k]
        /\ leaf'[x] = [key |-> newKey, value |-> IF update THEN newValue ELSE leaf[x].value]
    <3> HIDE DEF x, w
    <3>1. w # x
      BY <2>4, <2>5
    <3>2. leaf' = [leaf EXCEPT ![w].value = deletedLeaf,
                               ![x].value = IF update THEN newValue ELSE @]
      BY <2>2 DEF x, w
    <3>3. /\ leaf'[x].key = leaf[x].key
          /\ leaf'[x].value = IF update THEN newValue ELSE leaf[x].value
          /\ leaf'[x] = [leaf[x] EXCEPT !.value = IF update THEN newValue ELSE @]
      BY <1>0, <2>4, <2>5, <3>1, <3>2 DEF Typed
    <3>4. \A k \in Leaves : k # x /\ k # w => leaf'[k] = leaf[k]
      BY <1>0, <2>4, <2>5, <3>1, <3>2 DEF Typed
    <3>5. leaf[x] \in [key : Words, value : Links]
      BY <1>0, <2>4 DEF Typed
    <3> QED BY <2>4, <3>3, <3>4, <3>5
  <2>7. CASE update
    <3>1. newValue \in ValuesOf[leaf[x].key]
      BY <2>3, <2>4 DEF HandFits
    <3>2. \A k \in Tree \cap Leaves : k # x => leaf'[k] = leaf[k]
      BY <2>5, <2>6
    <3>3. /\ entries' = [entries EXCEPT ![leaf[x].key] = newValue]
          /\ leaf'[x].key = leaf[x].key /\ leaf'[x].value = newValue
      BY <2>3, <2>4, <2>6, <2>7
    <3> HIDE DEF x
    <3> QED BY <2>3, <2>4, <3>1, <3>2, <3>3, EntryChanged
  <2>8. CASE ~ update
    <3>1. leaf'[x] = leaf[x]
      <4>1. leaf[x] \in [key : Words, value : Links]
        BY <1>0, <2>4 DEF Typed
      <4> QED BY <2>4, <2>6, <2>8, <4>1
    <3>2. \A k \in Tree \cap Leaves : leaf'[k] = leaf[k]
      BY <2>5, <2>6, <3>1
    <3> QED BY <2>3, <2>8, <3>2, EntriesStay
  <2> QED BY <2>7, <2>8
<1>4. CASE RemoveUnlink
  <2>1. PICK at \in Stops(writer.key, Nodes) :
          /\ Found(writer.key, Pointer(at))
          /\ Pointer(at) \in Tree \cap Leaves
          /\ Tree' = Tree \ {Pointer(at)}
    BY <1>4, RemoveUnlinkCore
  <2>2. entries' = [entries EXCEPT ![writer.key] = Null] /\ UNCHANGED leaf
    BY <1>4 DEF RemoveUnlink, Write
  <2>3. leaf[Pointer(at)].key = writer.key
    BY <2>1 DEF Found
  <2>4. Tree' \cap Leaves = (Tree \cap Leaves) \ {Pointer(at)}
    BY <2>1
  <2> QED BY <2>1, <2>2, <2>3, <2>4, EntryRemoved
<1> QED BY <1>1, <1>2, <1>3, <1>4

LEMMA NextEntries ==
  ASSUME Core, Ranked, HandFits, EntriesKept, [Next]_vars
  PROVE  EntriesKept'
BY NextCases, OldEntries, WriterEntries

LEMMA InsertBeginHand ==
  ASSUME Core, NEW key \in Keys, NEW value \in ValuesOf[key], InsertBegin(key, value)
  PROVE  HandFits'
<1>1. PICK k \in Leaves :
        /\ leaf' = [leaf EXCEPT ![k] = [key |-> key, value |-> value]]
        /\ writer' = [pc |-> "place", leaf |-> k]
  BY DEF InsertBegin
<1>2. leaf'[k] = [key |-> key, value |-> value] /\ writer'.leaf = k /\ writer'.pc = "place"
  BY <1>1 DEF Core, Typed
<1>3. newKey' = key /\ newValue' = value
  BY <1>2 DEF newKey, newValue
<1> QED BY <1>2, <1>3 DEF HandFits

(* A new node tells its two children apart, below all that it hangs under. *)
LEMMA InsertNodeHand ==
  ASSUME Core, Ranked, HandFits, InsertNode
  PROVE  HandFits'
<1>0. Typed /\ writer.pc = "place" /\ UNCHANGED <<leaf, root>>
  BY DEF Core, InsertNode
<1>1. /\ Core' /\ Tree' = Tree
  BY InsertNodeCore
<1>2. PICK at \in Stops(newKey, Shared(newKey)), m \in Nodes :
        /\ Parts(newKey, Pointer(at))
        /\ m \notin Tree \cup InHand \cup Resting
        /\ node' = [node EXCEPT ![m] = NewNode(newKey, writer.leaf, Pointer(at))]
        /\ writer' = [pc |-> "link", leaf |-> writer.leaf, node |-> m, parent |-> at]
  BY InsertNodeCore
<1> DEFINE p == Pointer(at)
           kn == writer.leaf
           q == PathFrom(p)
           sh == FirstDifference(q, newKey)
           nd == NewNode(newKey, kn, p)
<1>3. /\ newKey \in Words /\ newKey \in Nat /\ at \in PlacesOf(Tree) /\ p \in Tree /\ p # Null
      /\ q \in Words /\ q \in Nat /\ q # newKey
      /\ p \in Nodes => Above(newKey, node[p].shift + Slice) # Above(node[p].path, node[p].shift + Slice)
  BY <1>0, <1>2, PartsIs
<1>4. /\ kn \in Leaves /\ p \in Nodes \cup Leaves
      /\ at # RootPlace => /\ at[1] \in Tree \cap Nodes /\ at[2] \in Slots /\ at = <<at[1], at[2]>>
                           /\ Belongs(newKey, at[1], at[2])
  BY <1>0, <1>2, NewPlace DEF Parts
<1>5. /\ sh \in Shifts /\ sh \in Nat
      /\ nd.shift = sh /\ nd.path = PathOf(newKey, sh)
      /\ SliceIndex(newKey, sh) \in Slots /\ SliceIndex(q, sh) \in Slots
      /\ SliceIndex(newKey, sh) # SliceIndex(q, sh)
      /\ nd.child[SliceIndex(newKey, sh)] = kn
      /\ nd.child[SliceIndex(q, sh)] = p
      /\ \A h \in Slots \ {SliceIndex(newKey, sh), SliceIndex(q, sh)} : nd.child[h] = Null
  <2>1. newKey \in Words /\ kn \in Leaves /\ p \in Nodes \cup Leaves /\ PathFrom(p) \in Words /\ PathFrom(p) # newKey
    BY <1>3, <1>4
  <2> HIDE DEF p, kn
  <2> QED BY <2>1, NewNodeIs
<1>6. /\ Above(q, sh) # Above(newKey, sh) /\ Above(q, sh + Slice) = Above(newKey, sh + Slice)
      /\ PathOf(q, sh) = PathOf(newKey, sh)
  BY <1>3, FirstDifferenceIs, FirstDifferenceTells
<1>7. node'[m] = nd /\ \A n \in Nodes \ {m} : node'[n] = node[n]
  BY <1>0, <1>2 DEF Typed, NodesTyped
<1>8. p # m /\ (at # RootPlace => at[1] # m)
  BY <1>2, <1>3, <1>4
<1>9. newKey' = newKey /\ newValue' = newValue
  BY <1>0, <1>2 DEF newKey, newValue
<1> HIDE DEF p, kn, q, sh, nd
<1>11. \A i : i = SliceIndex(q, sh) => \A c : c = p => Fits(m, i, c)'
  <2> SUFFICES ASSUME NEW i, i = SliceIndex(q, sh), NEW c, c = p
               PROVE  Fits(m, i, c)'
    OBVIOUS
  <2>1. CASE p \in Leaves
    <3>1. leaf'[c].key = q
      BY <1>0, <2>1 DEF q, PathFrom
    <3>2. Belongs(leaf[c].key, m, i)'
      BY <1>5, <1>6, <1>7, <3>1 DEF Belongs, Inside
    <3> QED BY <2>1, <3>2, NullApart DEF Fits
  <2>2. CASE p \in Nodes
    <3>1. node'[c] = node[p] /\ node[p].path = q
      BY <1>7, <1>8, <2>2, NullApart DEF q, PathFrom
    <3>2. Belongs(node[c].path, m, i)'
      BY <1>5, <1>6, <1>7, <3>1 DEF Belongs, Inside
    <3>3. node[p].shift \in Shifts /\ node[p].shift \in Nat
      BY <1>0, <2>2, NodeTyped
    <3>4. node[p].shift < sh
      <4>1. CASE sh <= node[p].shift
        <5>1. sh + Slice \in Nat /\ node[p].shift + Slice \in Nat /\ sh + Slice <= node[p].shift + Slice
          BY <1>5, <3>3, <4>1, NibNat
        <5>2. Above(q, node[p].shift + Slice) = Above(newKey, node[p].shift + Slice)
          BY <1>3, <1>6, <5>1, AgreeHigher
        <5> QED BY <1>3, <2>2, <3>1, <5>2
      <4> QED BY <1>5, <3>3, <4>1
    <3>5. node[p].shift + Slice <= sh
      BY <1>5, <3>3, <3>4, ShiftsApart
    <3>6. node'[c].shift + Slice <= node'[m].shift
      BY <1>5, <1>7, <3>1, <3>5
    <3> QED BY <2>2, <3>2, <3>6, NullApart DEF Fits
  <2> QED BY <1>4, <2>1, <2>2
<1>12. \A i \in Slots : node'[m].child[i] # Null => Fits(m, i, node[m].child[i])'
  <2> SUFFICES ASSUME NEW i \in Slots, node'[m].child[i] # Null
               PROVE  Fits(m, i, node[m].child[i])'
    OBVIOUS
  <2>0. PICK c : c = node'[m].child[i]
    OBVIOUS
  <2>1. i = SliceIndex(newKey, sh) \/ i = SliceIndex(q, sh)
    BY <1>5, <1>7
  <2>2. CASE i = SliceIndex(newKey, sh)
    <3>1. c = kn
      BY <1>5, <1>7, <2>0, <2>2
    <3>2. leaf'[c].key = newKey
      BY <1>0, <3>1 DEF newKey, kn
    <3>3. Belongs(leaf[c].key, m, i)'
      BY <1>5, <1>7, <2>2, <3>2 DEF Belongs, Inside
    <3>4. Fits(m, i, c)'
      BY <1>4, <3>1, <3>3, NullApart DEF Fits
    <3> QED BY <2>0, <3>4
  <2>3. CASE i = SliceIndex(q, sh)
    <3>1. c = p
      BY <1>5, <1>7, <2>0, <2>3
    <3>2. Fits(m, i, c)'
      BY <1>11, <2>3, <3>1
    <3> QED BY <2>0, <3>2
  <2> QED BY <2>1, <2>2, <2>3
<1>13. FitsAt(at, m)'
  <2> SUFFICES ASSUME at # RootPlace
               PROVE  Fits(at[1], at[2], m)'
    BY DEF FitsAt
  <2> DEFINE n == at[1]
             i == at[2]
  <2>1. n \in Tree \cap Nodes /\ i \in Slots /\ Belongs(newKey, n, i) /\ n # m /\ n \in Lasting
    BY <1>4, <1>8 DEF Lasting
  <2>2. node[n].child[i] = p
    BY DEF p, Pointer
  <2>3. Fits(n, i, p)
    BY <1>3, <2>1, <2>2 DEF Ranked
  <2>4. Belongs(q, n, i)
    BY <1>4, <2>3, NullApart DEF Fits, q, PathFrom
  <2>5. node[n].shift \in Shifts /\ node[n].shift \in Nat
    BY <1>0, <2>1, NodeTyped
  <2>6. Above(newKey, node[n].shift) = Above(q, node[n].shift)
    BY <1>0, <1>3, <2>1, <2>4, BelongsAgree
  <2>7. sh < node[n].shift
    <3>1. CASE node[n].shift <= sh
      <4>1. Above(newKey, sh) = Above(q, sh)
        BY <1>3, <1>5, <2>5, <2>6, <3>1, AgreeHigher
      <4> QED BY <1>6, <4>1
    <3> QED BY <1>5, <2>5, <3>1
  <2>8. sh + Slice <= node[n].shift
    BY <1>5, <2>5, <2>7, ShiftsApart
  <2>9. PathOf(newKey, sh) \in Nat /\ Above(PathOf(newKey, sh), sh + Slice) = Above(newKey, sh + Slice)
    BY <1>3, <1>5, PathIs
  <2>10. Above(PathOf(newKey, sh), node[n].shift) = Above(newKey, node[n].shift)
    <3>1. sh + Slice \in Nat
      BY <1>5, NibNat
    <3> QED BY <1>3, <2>5, <2>8, <2>9, <3>1, AgreeHigher
  <2>11. Belongs(PathOf(newKey, sh), n, i)
    BY <1>0, <1>3, <2>1, <2>9, <2>10, BelongsTogether
  <2>12. node'[n] = node[n] /\ node'[m] = nd
    BY <1>7, <2>1
  <2>13. Belongs(node[m].path, n, i)'
    BY <1>5, <2>11, <2>12 DEF Belongs, Inside
  <2>14. node'[m].shift + Slice <= node'[n].shift
    BY <1>5, <2>8, <2>12
  <2> QED BY <2>13, <2>14, NullApart DEF Fits
<1>14. \A k \in Tree' \cap Leaves : leaf'[k].key # newKey'
  BY <1>0, <1>1, <1>2, <1>9, NewKeyAbsent
<1>15. writer'.node = m /\ writer'.parent = at /\ writer'.pc = "link"
  BY <1>2
<1>16. newKey' \in Keys /\ newValue' \in ValuesOf[newKey']
  BY <1>0, <1>9 DEF HandFits
<1>17. FitsAt(writer.parent, writer.node)'
  BY <1>13, <1>15 DEF FitsAt
<1>18. \A i \in Slots : node'[writer'.node].child[i] # Null => Fits(writer.node, i, node[writer.node].child[i])'
  BY <1>12, <1>15
<1> QED BY <1>14, <1>16, <1>17, <1>18 DEF HandFits

LEMMA NextHand ==
  ASSUME Core, Ranked, HandFits, [Next]_vars
  PROVE  HandFits'
<1>1. CASE \E key \in Keys : \E value \in ValuesOf[key] : InsertBegin(key, value)
  BY <1>1, InsertBeginHand
<1>2. CASE InsertNode
  BY <1>2, InsertNodeHand
<1>3. CASE Reads
  <2>1. UNCHANGED <<writer, node, root, leaf>>
    BY <1>3 DEF Reads, unread, tree
  <2> QED BY <2>1 DEF HandFits, newKey, newValue, Fits, FitsAt, Belongs, Inside, Tree
<1>4. CASE \/ InsertLeaf \/ (\E update \in BOOLEAN : InsertExists(update)) \/ InsertNoNode \/ InsertLink
           \/ (\E key \in Keys : RemoveBegin(key)) \/ RemoveReclaim \/ RemoveMiss \/ RemoveUnlink
           \/ RemoveCollapse
  <2>1. writer'.pc \notin {"place", "link"}
    <3>1. CASE RemoveReclaim
      <4>1. writer \in [pc : {"reclaim", "unlink"}, key : Keys, del : Ages]
        BY <3>1, WriterCases DEF RemoveReclaim, Core
      <4> QED BY <3>1, <4>1 DEF RemoveReclaim
    <3>2. CASE RemoveUnlink
      <4>1. writer' = Idle \/ writer'.pc = "collapse"
        BY <3>2, RemoveUnlinkCore
      <4> QED BY <4>1 DEF Idle
    <3> QED BY <1>4, <3>1, <3>2 DEF InsertLeaf, InsertExists, InsertNoNode, InsertLink, RemoveBegin,
               RemoveMiss, RemoveCollapse, Idle
  <2> QED BY <2>1 DEF HandFits
<1> QED BY <1>1, <1>2, <1>3, <1>4, NextCases

LEMMA NextWhole ==
  ASSUME Whole, [Next]_vars
  PROVE  Whole'
BY NextGrace, NextRanked, NextEntries, NextHand DEF Whole, Grace

LEMMA InitWhole ==
  ASSUME Init
  PROVE  Whole
<1>1. Core /\ Grace /\ Tree = {}
  BY InitCore, InitGrace
<1>2. entries = [k \in Keys |-> Null] /\ writer = Idle /\ pendingNodes = [d \in Ages |-> Null]
  BY DEF Init
<1>3. Lasting = {}
  BY <1>1, <1>2, LastingIs, NullApart DEF Core
<1>4. EntriesKept
  BY <1>1, <1>2, LinksHold DEF EntriesKept
<1> QED BY <1>1, <1>2, <1>3, <1>4 DEF Whole, Ranked, HandFits, Idle

LEMMA WholeTreeHoldsEntries ==
  ASSUME Whole
  PROVE  TreeHoldsEntries
<1>0. Typed /\ Ranked /\ EntriesKept
  BY DEF Whole, Grace, Core
<1>1. Under(root) = Tree /\ \A n, i : Under(node[n].child[i]) = Sub(node, node[n].child[i])
  BY UnderIsSub DEF Tree
<1>2. ASSUME NEW n \in Tree \cap Nodes, NEW i \in Slots,
             NEW k \in Sub(node, node[n].child[i]) \cap Leaves
      PROVE  Inside(leaf[k].key, n) /\ SliceIndex(leaf[k].key, node[n].shift) = i
  BY <1>0, <1>2, BelowFits DEF Fits, Belongs
<1>3. ASSUME NEW key \in Keys
      PROVE  {leaf[k].value : k \in {l \in Tree \cap Leaves : leaf[l].key = key}}
                = {entries[key]} \ {Null}
  <2>1. ASSUME NEW k \in Tree \cap Leaves, leaf[k].key = key
        PROVE  leaf[k].value = entries[key] /\ entries[key] # Null
    BY <1>0, <2>1, ValuesAre DEF EntriesKept
  <2>2. entries[key] # Null => \E k \in Tree \cap Leaves : leaf[k].key = key
    BY <1>0 DEF EntriesKept
  <2> QED BY <2>1, <2>2
<1> QED BY <1>1, <1>2, <1>3 DEF TreeHoldsEntries

(* At every moment the tree that readers can enter is a radix tree of        *)
(* exactly the entries: whatever lies below a slot of a node has the node's  *)
(* path and that slot's slice, and the leaves of a key hold its value and no *)
(* other (critnib.c: the stores with which critnib_insert and                *)
(* critnib_remove publish, one by one).                                      *)
THEOREM CritnibTreeHoldsEntries == Spec => []TreeHoldsEntries
<1>1. Init => Whole
  BY InitWhole
<1>2. Whole /\ [Next]_vars => Whole'
  BY NextWhole
<1>3. Whole => TreeHoldsEntries
  BY WholeTreeHoldsEntries
<1> QED BY <1>1, <1>2, <1>3, PTL DEF Spec

(***************************************************************************)
(* No node is empty                                                        *)
(***************************************************************************)
Full(nd, n) == \E i \in Slots : nd[n].child[i] # Null
Twofold(nd, n) == \E i, j \in Slots : i # j /\ nd[n].child[i] # Null /\ nd[n].child[j] # Null

(* A node has two children in the tree, but for one that is about to be *)
(* removed, and at least one as long as it rests.                       *)
Populated ==
  /\ \A n \in Lasting : Full(node, n)
  /\ \A n \in Tree \cap Nodes : Twofold(node, n) \/ (writer.pc = "collapse" /\ n = writer.node)

LEMMA StillFull ==
  ASSUME NEW nd, NEW other, NEW n,
         \A i \in Slots : nd[n].child[i] # Null => other[n].child[i] # Null
  PROVE  /\ Full(nd, n) => Full(other, n)
         /\ Twofold(nd, n) => Twofold(other, n)
BY DEF Full, Twofold

(* The steps that empty no slot of a node that lasts. *)
LEMMA PlainPopulated ==
  ASSUME Grace, Populated, Typed', Tree' \cap Nodes \subseteq Tree,
         \A n \in Lasting' : n \in Lasting /\ \A i \in Slots :
             node[n].child[i] # Null => node'[n].child[i] # Null,
         writer.pc = "collapse" => UNCHANGED writer \/ writer.node \notin Tree'
  PROVE  Populated'
<1>1. \A n \in Lasting' : Full(node', n)
  BY StillFull DEF Populated
<1>2. ASSUME NEW n \in Tree' \cap Nodes
      PROVE  Twofold(node', n) \/ (writer'.pc = "collapse" /\ n = writer'.node)
  <2>1. n \in Lasting' /\ n \in Tree
    BY <1>2 DEF Lasting
  <2>2. CASE Twofold(node, n)
    BY <2>1, <2>2, StillFull
  <2>3. CASE writer.pc = "collapse" /\ n = writer.node
    BY <1>2, <2>3
  <2> QED BY <2>1, <2>2, <2>3 DEF Populated
<1> QED BY <1>1, <1>2 DEF Populated

LEMMA OldPopulated ==
  ASSUME Grace, Populated,
         \/ \E key \in Keys : \E value \in ValuesOf[key] : InsertBegin(key, value)
         \/ \E update \in BOOLEAN : InsertExists(update)
         \/ InsertNode \/ InsertNoNode
         \/ \E key \in Keys : RemoveBegin(key)
         \/ RemoveReclaim \/ RemoveMiss \/ Reads,
         Core'
  PROVE  Populated'
<1>0. Core /\ Typed /\ Typed'
  BY DEF Grace, Core
<1>1. Tree' = Tree
  BY <1>0, InsertBeginCore, InsertExistsCore, InsertNodeCore, InsertNoNodeCore, RemoveBeginCore,
     RemoveReclaimCore, RemoveMissCore, UnreadCore DEF Reads
<1>2. writer.pc = "collapse" => UNCHANGED writer
  BY DEF InsertBegin, InsertExists, InsertNode, InsertNoNode, RemoveBegin, RemoveReclaim, RemoveMiss,
         Reads, unread, Idle
<1>3. CASE RemoveReclaim
  <2>1. pendingNodes' = [pendingNodes EXCEPT ![writer.del] = Null]
    BY <1>3 DEF RemoveReclaim
  <2>2. \A d \in Ages : pendingNodes'[d] = IF d = writer.del THEN Null ELSE pendingNodes[d]
    BY <1>0, <2>1 DEF Typed
  <2>3. \A n \in Nodes : n # pendingNodes[writer.del] => node'[n] = node[n]
    BY <1>0, <1>3, RemoveReclaimCore
  <2>4. writer.del \in Ages
    BY <1>0, <1>3, WriterCases DEF RemoveReclaim
  <2>5. ASSUME NEW n \in Lasting'
        PROVE  n \in Lasting /\ node'[n] = node[n]
    <3>1. n \in Nodes
      BY DEF Lasting
    <3>2. CASE n \in Tree'
      <4>1. n # pendingNodes[writer.del]
        BY <1>0, <1>1, <2>4, <3>1, <3>2, NullApart, RestingIs
      <4> QED BY <1>1, <2>3, <3>1, <3>2, <4>1 DEF Lasting
    <3>3. CASE \E d \in Ages : pendingNodes'[d] = n
      <4>1. PICK d \in Ages : pendingNodes'[d] = n
        BY <3>3
      <4>2. d # writer.del /\ pendingNodes[d] = n
        BY <2>2, <3>1, <4>1, NullApart
      <4>3. n # pendingNodes[writer.del]
        BY <1>0, <2>4, <3>1, <4>2, NullApart DEF Core, OwnedOnce
      <4>4. n \in Lasting
        BY <1>0, <3>1, <4>2, LastingIs
      <4> QED BY <2>3, <3>1, <4>3, <4>4
    <3> QED BY <1>0, <3>2, <3>3, LastingNext
  <2> QED BY <1>0, <1>1, <1>2, <2>5, PlainPopulated
<1>4. CASE UNCHANGED <<pendingNodes, node>>
  <2>1. Lasting' = Lasting
    BY <1>0, <1>1, <1>4, LastingIs, LastingNext
  <2> QED BY <1>0, <1>1, <1>2, <1>4, <2>1, PlainPopulated
<1>5. CASE InsertNode
  <2>1. PICK at \in Stops(newKey, Shared(newKey)), m \in Nodes :
          /\ m \notin Tree \cup InHand \cup Resting
          /\ node' = [node EXCEPT ![m] = NewNode(newKey, writer.leaf, Pointer(at))]
    BY <1>0, <1>5, InsertNodeCore
  <2>2. \A n \in Lasting : node'[n] = node[n]
    BY <1>0, <2>1 DEF Lasting, Typed, NodesTyped
  <2>3. UNCHANGED pendingNodes
    BY <1>5 DEF InsertNode
  <2>4. Lasting' = Lasting
    BY <1>0, <1>1, <2>3, LastingIs, LastingNext
  <2> QED BY <1>0, <1>1, <1>2, <2>2, <2>4, PlainPopulated
<1> QED BY <1>3, <1>4, <1>5 DEF InsertBegin, InsertExists, InsertNoNode, RemoveBegin, RemoveMiss,
           Reads, unread, tree, pools

LEMMA InsertLeafPopulated ==
  ASSUME Grace, Populated, InsertLeaf, Core'
  PROVE  Populated'
<1>0. Core /\ Typed /\ Typed' /\ writer.pc = "place" /\ UNCHANGED pendingNodes
  BY DEF Grace, Core, InsertLeaf, pools
<1> DEFINE x == writer.leaf
<1>1. PICK at \in Stops(newKey, Shared(newKey)) : Pointer(at) = Null /\ Store(at, x)
  BY DEF InsertLeaf
<1>2. x \in Leaves /\ x \in Pointers /\ at \in AllPlaces
  BY <1>0, NewPlace
<1>3. Tree' = Tree \cup {x}
  BY <1>0, InsertLeafCore
<1>4. \A n \in Nodes : \A i \in Slots :
         node'[n].child[i] = IF <<n, i>> = at THEN x ELSE node[n].child[i]
  BY <1>0, <1>1, <1>2, StoreChild
<1>5. Lasting' \subseteq Lasting
  BY <1>0, <1>2, <1>3, LastingIs, LastingNext, NullApart
<1>6. Lasting' \subseteq Nodes
  BY DEF Lasting
<1>7. x # Null /\ x \notin Nodes
  BY <1>2, NullApart
<1>8. \A n \in Lasting' : n \in Lasting /\ \A i \in Slots :
             node[n].child[i] # Null => node'[n].child[i] # Null
  BY <1>4, <1>5, <1>6, <1>7
<1>9. Tree' \cap Nodes \subseteq Tree
  BY <1>3, <1>7
<1> QED BY <1>0, <1>8, <1>9, PlainPopulated

LEMMA InsertLinkPopulated ==
  ASSUME Grace, Populated, InsertLink, Core'
  PROVE  Populated'
<1>0. Core /\ Typed /\ Typed' /\ writer.pc = "link" /\ UNCHANGED pendingNodes
  BY DEF Grace, Core, InsertLink, pools
<1> DEFINE m == writer.node
           at == writer.parent
<1>1. Store(at, m)
  BY DEF InsertLink
<1>2. /\ m \in Nodes /\ m \in Pointers /\ writer.leaf \in Leaves /\ at \in PlacesOf(Tree) /\ at \in AllPlaces
      /\ m \in InHand /\ m \notin Tree
  BY <1>0, HandIs, PlacesAll DEF Core, HandReady, LinkReady, Pointers, OwnedOnce
<1>3. Tree' = Tree \cup {writer.leaf, m}
  BY <1>0, InsertLinkCore
<1>4. \A n \in Nodes : \A i \in Slots :
         node'[n].child[i] = IF <<n, i>> = at THEN m ELSE node[n].child[i]
  BY <1>0, <1>1, <1>2, StoreChild
<1>5. \A n \in Lasting' : n \in Nodes /\ (n \in Lasting \/ n = m)
  <2>1. \A n \in Lasting' : n \in Lasting \/ n = m
    BY <1>0, <1>2, <1>3, LastingIs, LastingNext, NullApart
  <2> QED BY <2>1 DEF Lasting
<1>6. m # Null /\ writer.leaf # Null
  BY <1>2, NullApart
<1>7. \A n \in Nodes : \A i \in Slots : node[n].child[i] # Null => node'[n].child[i] # Null
  BY <1>4, <1>6
<1>8. Twofold(node', m) /\ Full(node', m)
  <2>1. PICK i, j \in Slots :
          /\ i # j
          /\ node[m].child[i] = writer.leaf
          /\ node[m].child[j] = Pointer(at)
    BY <1>0 DEF Core, HandReady, LinkReady
  <2>2. Pointer(at) # Null
    BY <1>0 DEF Core, HandReady, LinkReady
  <2>3. Twofold(node, m)
    BY <1>6, <2>1, <2>2 DEF Twofold
  <2>4. Twofold(node', m)
    BY <1>2, <1>7, <2>3, StillFull
  <2> QED BY <2>4 DEF Twofold, Full
<1>9. \A n \in Lasting' : Full(node', n)
  BY <1>5, <1>7, <1>8, StillFull DEF Populated
<1>10. ASSUME NEW n \in Tree' \cap Nodes
       PROVE  Twofold(node', n)
  <2>1. n = m \/ n \in Tree
    BY <1>2, <1>3, NullApart
  <2>2. CASE n \in Tree
    <3>1. Twofold(node, n)
      BY <1>0, <2>2 DEF Populated
    <3> QED BY <1>7, <3>1, StillFull
  <2> QED BY <1>8, <2>1, <2>2
<1> QED BY <1>9, <1>10 DEF Populated

LEMMA RemoveCollapsePopulated ==
  ASSUME Grace, Populated, RemoveCollapse, Core'
  PROVE  Populated'
<1>0. Core /\ Typed /\ Typed' /\ writer.pc = "collapse"
  BY DEF Grace, Core, RemoveCollapse
<1> DEFINE m == writer.node
           at == writer.parent
<1>1. PICK o \in Slots : node[m].child[o] # Null /\ Store(at, node[m].child[o])
  BY DEF RemoveCollapse
<1> DEFINE q == node[m].child[o]
<1>2. m \in Nodes /\ q \in Pointers /\ at \in PlacesOf(Tree) /\ at \in AllPlaces
  BY <1>0, WriterCases, NodeTyped, PlacesAll DEF Core, HandReady, CollapseReady
<1>3. Tree' = Tree \ {m} /\ m \in Tree
  BY <1>0, RemoveCollapseCore
<1>4. \A n \in Nodes : \A i \in Slots :
         node'[n].child[i] = IF <<n, i>> = at THEN q ELSE node[n].child[i]
  BY <1>0, <1>1, <1>2, StoreChild
<1>5. \A n \in Lasting' : n \in Lasting /\ n \in Nodes
  <2>1. pendingNodes' = [pendingNodes EXCEPT ![writer.del] = m]
    BY DEF RemoveCollapse
  <2>2. \A d \in Ages : pendingNodes'[d] \in {m, pendingNodes[d]}
    BY <1>0, <2>1 DEF Typed
  <2>3. \A n \in Lasting' : n \in Lasting
    BY <1>0, <1>3, <2>2, LastingIs, LastingNext
  <2> QED BY <2>3 DEF Lasting
<1>6. \A n \in Lasting' : n \in Lasting /\ \A i \in Slots :
             node[n].child[i] # Null => node'[n].child[i] # Null
  BY <1>1, <1>4, <1>5
<1>7. Tree' \cap Nodes \subseteq Tree /\ m \notin Tree'
  BY <1>3
<1> QED BY <1>0, <1>6, <1>7, PlainPopulated

(* Of two children at least, none or one is left, if one goes. *)
LEMMA OneLess ==
  ASSUME NEW n \in Nodes, NEW h \in Slots, Twofold(node, n), ~ LeavesOne(<<n, h>>)
  PROVE  \E i, j \in Slots \ {h} : i # j /\ node[n].child[i] # Null /\ node[n].child[j] # Null
<1> DEFINE R == {i \in Slots \ {h} : node[n].child[i] # Null}
<1>1. Cardinality(R) # 1
  BY NotRootPlace DEF LeavesOne
<1>2. PICK i \in R : TRUE
  BY DEF Twofold
<1>3. R # {i}
  BY <1>1, FS_Singleton
<1>4. PICK j \in R : j # i
  BY <1>2, <1>3
<1> QED BY <1>2, <1>4

LEMMA RemoveUnlinkPopulated ==
  ASSUME Grace, Populated, RemoveUnlink, Core'
  PROVE  Populated'
<1>0. Core /\ Typed /\ Typed' /\ writer.pc = "unlink" /\ UNCHANGED pendingNodes
  BY DEF Grace, Core, RemoveUnlink
<1>1. PICK at \in Stops(writer.key, Nodes) :
         /\ Store(at, Null)
         /\ IF LeavesOne(at)
            THEN \E up \in Way(writer.key, Nodes) :
                     writer' = [pc |-> "collapse", del |-> writer.del,
                                   leaf |-> Pointer(at), node |-> at[1], parent |-> up]
            ELSE writer' = Idle
  BY DEF RemoveUnlink
<1>2. at \in AllPlaces /\ Null \in Pointers /\ at \in PlacesOf(Tree)
  BY <1>0, WriterCases, WordsNat, StopInTree DEF Pointers
<1>3. Tree' \subseteq Tree
  BY <1>0, RemoveUnlinkCore
<1>4. \A n \in Nodes : \A i \in Slots :
         node'[n].child[i] = IF <<n, i>> = at THEN Null ELSE node[n].child[i]
  BY <1>0, <1>1, <1>2, StoreChild
<1>5. \A n \in Lasting' : n \in Lasting /\ n \in Nodes
  <2>1. \A n \in Lasting' : n \in Lasting
    BY <1>0, <1>3, LastingIs, LastingNext
  <2> QED BY <2>1 DEF Lasting
<1>6. CASE at = RootPlace
  <2>1. \A n \in Nodes : \A i \in Slots : node'[n].child[i] = node[n].child[i]
    BY <1>4, <1>6, NotRootPlace
  <2>2. \A n \in Lasting' : n \in Lasting /\ \A i \in Slots :
             node[n].child[i] # Null => node'[n].child[i] # Null
    BY <1>5, <2>1
  <2> QED BY <1>0, <1>3, <2>2, PlainPopulated
<1>7. CASE at # RootPlace
  <2> DEFINE n == at[1]
             h == at[2]
  <2>1. n \in Nodes /\ n \in Tree /\ h \in Slots /\ at = <<n, h>>
    BY <1>2, <1>7, PlaceCases
  <2>2. Twofold(node, n)
    BY <1>0, <2>1 DEF Populated
  <2>3. Full(node', n) /\ (Twofold(node', n) \/ (writer'.pc = "collapse" /\ n = writer'.node))
    <3>1. CASE LeavesOne(at)
      <4>1. PICK i \in Slots : i # h /\ node[n].child[i] # Null
        BY <2>2 DEF Twofold
      <4>2. <<n, i>> # at
        BY <2>1, <4>1
      <4>3. node'[n].child[i] # Null
        BY <1>4, <2>1, <4>1, <4>2
      <4> QED BY <1>1, <3>1, <4>3 DEF Full
    <3>2. CASE ~ LeavesOne(at)
      <4>1. PICK i, j \in Slots \ {h} : i # j /\ node[n].child[i] # Null /\ node[n].child[j] # Null
        BY <2>1, <2>2, <3>2, OneLess
      <4>2. <<n, i>> # at /\ <<n, j>> # at
        BY <2>1, <4>1
      <4>3. node'[n].child[i] # Null /\ node'[n].child[j] # Null
        BY <1>4, <2>1, <4>1, <4>2
      <4> QED BY <4>1, <4>3 DEF Full, Twofold
    <3> QED BY <3>1, <3>2
  <2>4. ASSUME NEW k \in Nodes, k # n
        PROVE  (Full(node, k) => Full(node', k)) /\ (Twofold(node, k) => Twofold(node', k))
    <3>1. \A i \in Slots : <<k, i>> # at
      BY <2>1, <2>4
    <3>2. \A i \in Slots : node'[k].child[i] = node[k].child[i]
      BY <1>4, <3>1
    <3> QED BY <3>2, StillFull
  <2>5. \A k \in Lasting' : Full(node', k)
    BY <1>5, <2>3, <2>4 DEF Populated
  <2>6. \A k \in Tree' \cap Nodes : Twofold(node', k) \/ (writer'.pc = "collapse" /\ k = writer'.node)
    BY <1>0, <1>3, <2>3, <2>4 DEF Populated
  <2> QED BY <2>5, <2>6 DEF Populated
<1> QED BY <1>6, <1>7

LEMMA NextPopulated ==
  ASSUME Grace, Populated, [Next]_vars
  PROVE  Populated'
<1>1. Core'
  BY NextCore DEF Grace
<1> QED BY <1>1, NextCases, OldPopulated, InsertLeafPopulated, InsertLinkPopulated,
           RemoveCollapsePopulated, RemoveUnlinkPopulated

LEMMA InitPopulated ==
  ASSUME Init
  PROVE  Populated
<1>1. Core /\ Tree = {}
  BY InitCore
<1>2. Typed /\ \A d \in Ages : pendingNodes[d] = Null
  BY <1>1 DEF Core, Init
<1>3. Lasting = {}
  BY <1>1, <1>2, LastingIs, NullApart
<1> QED BY <1>1, <1>3 DEF Populated

LEMMA LastingKid ==
  ASSUME Grace, NEW n \in Lasting, NEW i \in Slots, node[n].child[i] # Null
  PROVE  node[n].child[i] \in Lasting \cup Leaves
<1> DEFINE c == node[n].child[i]
<1>0. Core /\ Typed
  BY DEF Grace, Core
<1>1. n \in Nodes /\ c \in Nodes \cup Leaves /\ c \in Kids(node, n)
  BY <1>0, KidsIn DEF Lasting, Kids
<1>2. CASE n \in Tree
  <2>1. c \in Tree
    BY <1>1, <1>2, SubGoesOn DEF Tree
  <2> QED BY <1>1, <2>1 DEF Lasting
<1>3. CASE n \notin Tree
  <2>1. PICK d \in Ages : pendingNodes[d] = n
    BY <1>0, <1>3, LastingIs
  <2>2. Safe(c, Stamp(d))
    BY <1>1, <2>1, NullApart DEF Grace, RestsInOrder
  <2>3. Unlinked(c) => c \in Leaves
    BY <1>0, HandIs DEF Unlinked
  <2>4. c \in Tree \/ c \in Resting \/ c \in Leaves
    BY <1>1, <2>2, <2>3 DEF Safe, Resting
  <2> QED BY <1>1, <2>4 DEF Lasting
<1> QED BY <1>2, <1>3

(* What lies below a child of a node that lasts lasts, and belongs there. *)
LEMMA LastingFits ==
  ASSUME Grace, Ranked, NEW n \in Lasting, NEW i \in Slots
  PROVE  \A x \in Sub(node, node[n].child[i]) : Fits(n, i, x) /\ x \in Lasting \cup Leaves
<1> DEFINE S == {x \in Lasting \cup Leaves : Fits(n, i, x)}
           p == node[n].child[i]
<1>0. Typed /\ n \in Nodes
  BY DEF Grace, Core, Lasting
<1>1. p = Null \/ p \in S
  BY LastingKid DEF Ranked
<1>2. ASSUME NEW m \in S \cap Nodes, NEW j \in Slots, node[m].child[j] # Null
      PROVE  node[m].child[j] \in S
  <2>1. m \in Nodes /\ Fits(n, i, m) /\ m \in Lasting
    BY NullApart
  <2>2. node[m].child[j] \in Lasting \cup Leaves
    BY <1>2, <2>1, LastingKid
  <2>3. Fits(m, j, node[m].child[j])
    BY <1>2, <2>1 DEF Ranked
  <2>4. Fits(n, i, node[m].child[j])
    BY <1>0, <2>1, <2>3, FitsThrough
  <2> QED BY <2>2, <2>4
<1>3. Sub(node, p) \subseteq S
  <2> HIDE DEF S, p
  <2> QED BY <1>1, <1>2, SubLeast
<1> QED BY <1>3

LEMMA BelowLasts ==
  ASSUME Grace, NEW p \in Lasting \cup Leaves
  PROVE  Sub(node, p) \subseteq Lasting \cup Leaves
<1> DEFINE S == Lasting \cup Leaves
<1>1. \A n \in S \cap Nodes : \A i \in Slots : node[n].child[i] = Null \/ node[n].child[i] \in S
  BY LastingKid, NullApart
<1> HIDE DEF S
<1>2. p \in S
  BY DEF S
<1>3. Sub(node, p) \subseteq S
  BY <1>1, <1>2, SubLeast
<1> QED BY <1>3 DEF S

(* Below every node that lasts there is a leaf. *)
LEMMA HasLeaf ==
  ASSUME Grace, Ranked, Populated, NEW n \in Lasting
  PROVE  \E x \in Leaves : x \in Sub(node, n)
<1> DEFINE B == Sub(node, n) \cap Nodes
           S == {node[m].shift : m \in B}
<1>0. Typed /\ n \in Nodes /\ Slice \in Nat \ {0}
  BY NibNat DEF Grace, Core, Lasting
<1>1. n \in B
  BY <1>0, SubStarts, NullApart
<1>2. S \subseteq Nat
  BY <1>0, NodeTyped
<1>3. PICK s \in S : \A t \in S : s <= t
  <2> HIDE DEF S
  <2>1. S # {}
    BY <1>1 DEF S
  <2> QED BY <1>2, <2>1, Least
<1>4. PICK m \in B : node[m].shift = s
  OBVIOUS
<1>5. m \in Lasting
  BY <1>4, BelowLasts, NullApart
<1>6. PICK i \in Slots : node[m].child[i] # Null
  BY <1>5 DEF Populated, Full
<1> DEFINE c == node[m].child[i]
<1>7. c \in Sub(node, n) /\ c \in Lasting \cup Leaves
  BY <1>4, <1>5, <1>6, SubGoesOn, LastingKid
<1>8. c \notin Nodes
  <2> SUFFICES ASSUME c \in Nodes PROVE FALSE
    OBVIOUS
  <2>1. node[c].shift + Slice <= node[m].shift
    BY <1>5, <1>6 DEF Ranked, Fits
  <2>2. node[c].shift \in S /\ node[c].shift \in Nat /\ s \in Nat
    BY <1>0, <1>2, <1>7, NodeTyped
  <2>3. s <= node[c].shift
    BY <1>3, <2>2
  <2> QED BY <1>0, <1>4, <2>1, <2>2, <2>3
<1>9. c \in Leaves
  BY <1>7, <1>8 DEF Lasting
<1> QED BY <1>7, <1>9

(***************************************************************************)
(* What a step does below what is safe                                     *)
(***************************************************************************)
(* A child of a safe node stays, or a place in the tree is written.  What    *)
(* was there is kept by the new node, is a leaf that is removed, or is a     *)
(* node whose only child takes its place.                                    *)
Follows(n, i) ==
  LET old == node[n].child[i]
      new == node'[n].child[i]
  IN  \/ new = old
      \/ /\ n \in Tree' /\ new \in Tree' \cup {Null}
         /\ \/ old = Null
            \/ new \in Nodes /\ old \in Kids(node', new)
            \/ old \in (Tree \ Tree') \cap Leaves
            \/ old \in Nodes /\ Kids(node, old) = {new}

FollowsSafe(w) == \A n \in Nodes : Safe(n, w) => \A i \in Slots : Follows(n, i)

LEMMA SafeIn ==
  ASSUME Typed, NEW x \in Nodes, NEW w, Safe(x, w)
  PROVE  x \in Lasting
BY HandIs, NullApart DEF Safe, Unlinked, Lasting, Resting

LEMMA BelowSafe ==
  ASSUME Grace, NEW w \in Nat, NEW p \in Nodes \cup Leaves, Safe(p, w)
  PROVE  \A x \in Sub(node, p) : x \in Nodes \cup Leaves /\ Safe(x, w)
<1> DEFINE S == {x \in Nodes \cup Leaves : Safe(x, w)}
<1>0. Typed
  BY DEF Grace, Core
<1>1. ASSUME NEW n \in S \cap Nodes, NEW i \in Slots, node[n].child[i] # Null
      PROVE  node[n].child[i] \in S
  <2>1. node[n].child[i] \in Kids(node, n) /\ n \in Nodes /\ Safe(n, w)
    BY <1>1 DEF Kids
  <2>2. node[n].child[i] \in Nodes \cup Leaves
    BY <1>0, <2>1, KidsIn
  <2>3. Safe(node[n].child[i], w)
    BY <2>1, SafeChild
  <2> QED BY <2>2, <2>3
<1>2. p \in S
  OBVIOUS
<1>3. Sub(node, p) \subseteq S
  <2> HIDE DEF S
  <2> QED BY <1>1, <1>2, SubLeast
<1> QED BY <1>3

(* What comes below what is safe is in the tree. *)
LEMMA BelowGains ==
  ASSUME Grace, NEW w \in Nat, FollowsSafe(w), NEW p \in Nodes \cup Leaves, Safe(p, w)
  PROVE  Sub(node', p) \subseteq Sub(node, p) \cup Tree'
<1> DEFINE A == Sub(node, p)
           S == A \cup Tree'
<1>1. ASSUME NEW n \in S \cap Nodes, NEW i \in Slots, node'[n].child[i] # Null
      PROVE  node'[n].child[i] \in S
  <2>1. CASE n \in Tree'
    BY <1>1, <2>1, SubGoesOn DEF Tree
  <2>2. CASE n \in A /\ node'[n].child[i] = node[n].child[i]
    BY <1>1, <2>2, SubGoesOn
  <2>3. CASE n \in A /\ node'[n].child[i] \in Tree' \cup {Null}
    BY <1>1, <2>3
  <2>4. n \in A => Safe(n, w)
    BY BelowSafe
  <2>5. n \in A => Follows(n, i)
    BY <2>4 DEF FollowsSafe
  <2> QED BY <2>1, <2>2, <2>3, <2>5 DEF Follows
<1>2. p \in S
  BY SubStarts, NullApart
<1>3. Sub(node', p) \subseteq S
  <2> HIDE DEF S
  <2> QED BY <1>1, <1>2, SubLeast
<1> QED BY <1>3

(* No leaf is lost there but the one that is removed. *)
LEMMA BelowKeeps ==
  ASSUME Grace, NEW w \in Nat, FollowsSafe(w), NEW p \in Nodes \cup Leaves, Safe(p, w),
         NEW x \in Leaves, x \in Sub(node, p)
  PROVE  x \in Sub(node', p) \/ x \in Tree \ Tree'
<1> DEFINE A == Sub(node, p)
           B == Sub(node', p)
           C == {m \in Nodes : Kids(node, m) \subseteq B}
           G == (Tree \ Tree') \cap Leaves
           S == {y \in A : y \in B \cup C \cup G}
<1>1. ASSUME NEW n \in S \cap Nodes, NEW i \in Slots, node[n].child[i] # Null
      PROVE  node[n].child[i] \in S
  <2> DEFINE old == node[n].child[i]
             new == node'[n].child[i]
  <2>1. old \in A /\ old \in Kids(node, n)
    BY <1>1, SubGoesOn DEF Kids
  <2>2. CASE n \in C
    BY <2>1, <2>2
  <2>3. CASE n \in B
    <3>1. Safe(n, w)
      BY BelowSafe
    <3>2. Follows(n, i)
      BY <3>1 DEF FollowsSafe
    <3>3. new # Null => new \in B
      BY <2>3, SubGoesOn
    <3>4. CASE new = old
      BY <1>1, <2>1, <3>3, <3>4
    <3>5. CASE new \in Nodes /\ old \in Kids(node', new)
      <4>1. new \in B
        BY <3>3, <3>5, NullApart
      <4>2. old \in B
        BY <3>5, <4>1, SubGoesOn DEF Kids
      <4> QED BY <2>1, <4>2
    <3>6. CASE old \in G
      BY <2>1, <3>6
    <3>7. CASE old \in Nodes /\ Kids(node, old) = {new}
      <4>1. new # Null
        BY <3>7 DEF Kids
      <4>2. old \in C
        BY <3>3, <3>7, <4>1
      <4> QED BY <2>1, <4>2
    <3> QED BY <1>1, <3>2, <3>4, <3>5, <3>6, <3>7 DEF Follows
  <2>4. n \notin G
    BY NullApart
  <2> QED BY <2>2, <2>3, <2>4
<1>2. p \in S
  BY SubStarts, NullApart
<1>3. Sub(node, p) \subseteq S
  <2> HIDE DEF S
  <2> QED BY <1>1, <1>2, SubLeast
<1> QED BY <1>3, NullApart

LEMMA SafeApart ==
  ASSUME Grace, NEW x \in Nodes \cup Leaves, NEW w \in Nat, removeCount < w, Safe(x, w)
  PROVE  /\ x \in Tree \cup Resting \cup InHand
         /\ x \notin FreeNodes \cup FreeLeaves
         /\ writer.pc \in {"place", "link"} => x \notin InHand
         /\ writer.pc = "reclaim" => x # pendingNodes[writer.del] /\ x # pendingLeaves[writer.del]
         /\ x \notin Leaves => x \in Lasting
<1>0. Core /\ Typed
  BY DEF Grace, Core
<1>1. /\ x \notin FreeNodes \cup FreeLeaves
      /\ writer.pc \in {"place", "link"} => x \notin InHand
  BY <1>0, SafeNotReusable
<1>2. Unlinked(x) => x \in InHand
  BY <1>0, HandIs DEF Unlinked
<1>3. x \in Tree \cup Resting \cup InHand
  BY <1>2 DEF Safe, Resting
<1>4. ASSUME writer.pc = "reclaim", Rests(x, writer.del)
      PROVE  FALSE
  <2>1. writer.del \in Ages
    BY <1>0, <1>4, WriterCases
  <2>2. x # Null /\ x \in Resting
    BY <1>4, <2>1, NullApart DEF Resting
  <2>3. x \notin Tree /\ ~ Unlinked(x)
    BY <1>0, <1>4, <2>2 DEF Core, OwnedOnce, Unlinked
  <2>4. PICK d \in Ages : Rests(x, d) /\ Stamp(d) >= w
    BY <2>3 DEF Safe
  <2>5. d = writer.del
    <3>1. CASE x \in Nodes
      <4>1. pendingNodes[d] = x /\ pendingNodes[writer.del] = x
        BY <1>0, <1>4, <2>1, <2>4, <3>1, NullApart DEF Rests, Typed
      <4> QED BY <1>0, <2>1, <2>2, <4>1 DEF Core, OwnedOnce
    <3>2. CASE x \in Leaves
      <4>1. pendingLeaves[d] = x /\ pendingLeaves[writer.del] = x
        BY <1>0, <1>4, <2>1, <2>4, <3>2, NullApart DEF Rests, Typed
      <4> QED BY <1>0, <2>1, <2>2, <4>1 DEF Core, OwnedOnce
    <3> QED BY <3>1, <3>2
  <2>6. Stamp(d) = removeCount /\ removeCount \in Nat
    BY <1>0, <1>4, <2>1, <2>5, StampIs
  <2> QED BY <2>4, <2>6
<1>5. x \notin Leaves => x \in Lasting
  BY <1>0, SafeIn
<1> QED BY <1>1, <1>3, <1>4, <1>5 DEF Rests

(* A place in the tree is written, and all else is as it was. *)
LEMMA StoreFollows ==
  ASSUME Grace, Core', NEW at \in PlacesOf(Tree), NEW q \in Pointers, Store(at, q),
         at \in PlacesOf(Tree'), NEW w,
         \/ Pointer(at) = Null
         \/ q \in Nodes /\ Pointer(at) \in Kids(node', q)
         \/ Pointer(at) \in (Tree \ Tree') \cap Leaves
         \/ Pointer(at) \in Nodes /\ Kids(node, Pointer(at)) = {q}
  PROVE  FollowsSafe(w)
<1>0. Typed /\ at \in AllPlaces
  BY PlacesAll DEF Grace, Core
<1> SUFFICES ASSUME NEW n \in Nodes, NEW i \in Slots
             PROVE  Follows(n, i)
  BY DEF FollowsSafe
<1>1. node'[n].child[i] = IF <<n, i>> = at THEN q ELSE node[n].child[i]
  BY <1>0, StoreChild
<1>2. CASE <<n, i>> # at
  BY <1>1, <1>2 DEF Follows
<1>3. CASE <<n, i>> = at
  <2>1. at # RootPlace /\ at[1] = n /\ at[2] = i
    BY <1>3, NotRootPlace
  <2>2. n \in Tree'
    BY <2>1, PlaceCases
  <2>3. Pointer(at) = node[n].child[i]
    BY <2>1 DEF Pointer
  <2>4. node'[n].child[i] = q
    BY <1>1, <1>3
  <2>5. q \in Tree' \cup {Null}
    BY <2>2, <2>4, SubGoesOn DEF Tree
  <2> QED BY <2>2, <2>3, <2>4, <2>5 DEF Follows
<1> QED BY <1>2, <1>3

LEMMA PlaceStays ==
  ASSUME Typed, NEW at \in PlacesOf(Tree), NEW q \in Pointers, Store(at, q)
  PROVE  at \in PlacesOf(Tree')
<1>1. at \in AllPlaces
  BY PlacesAll
<1>2. Stored(node, root, node', root', at, q)
  BY <1>1, StoreIsStored DEF Typed
<1> QED BY <1>2, StoredKeepsPlace DEF Tree

LEMMA NextFollows ==
  ASSUME Grace, [Next]_vars, NEW w \in Nat, removeCount < w
  PROVE  FollowsSafe(w)
<1>0. Core /\ Core' /\ Typed
  BY NextCore DEF Grace, Core
<1>1. CASE UNCHANGED node
  BY <1>1 DEF FollowsSafe, Follows
<1>2. ASSUME NEW S \in SUBSET Nodes,
             \A n \in Nodes \ S : node'[n] = node[n],
             \A n \in S : ~ Safe(n, w)
      PROVE  FollowsSafe(w)
  BY <1>2 DEF FollowsSafe, Follows
<1>3. CASE InsertLeaf
  <2>1. writer.pc = "place"
    BY <1>3 DEF InsertLeaf
  <2>2. PICK at \in Stops(newKey, Shared(newKey)) : Pointer(at) = Null /\ Store(at, writer.leaf)
    BY <1>3 DEF InsertLeaf
  <2>3. at \in PlacesOf(Tree) /\ writer.leaf \in Pointers
    BY <1>0, <2>1, NewPlace
  <2>4. at \in PlacesOf(Tree')
    BY <1>0, <2>2, <2>3, PlaceStays
  <2> QED BY <1>0, <2>2, <2>3, <2>4, StoreFollows
<1>4. CASE InsertNode
  <2>1. PICK at \in Stops(newKey, Shared(newKey)), m \in Nodes :
          /\ m \notin Tree \cup InHand \cup Resting
          /\ node' = [node EXCEPT ![m] = NewNode(newKey, writer.leaf, Pointer(at))]
    BY <1>0, <1>4, InsertNodeCore
  <2>2. \A n \in Nodes \ {m} : node'[n] = node[n]
    BY <1>0, <2>1 DEF Typed, NodesTyped
  <2>3. ~ Safe(m, w)
    BY <2>1, SafeApart
  <2> QED BY <2>2, <2>3 DEF FollowsSafe, Follows
<1>5. CASE InsertLink
  <2> DEFINE m == writer.node
             at == writer.parent
  <2>1. writer.pc = "link" /\ Store(at, m)
    BY <1>5 DEF InsertLink
  <2>2. m \in Nodes /\ m \in Pointers /\ at \in PlacesOf(Tree) /\ m \in InHand /\ m \notin Tree
        /\ at \in AllPlaces
    BY <1>0, <2>1, HandIs, PlacesAll DEF Core, HandReady, LinkReady, Pointers, OwnedOnce
  <2>3. PICK j \in Slots : node[m].child[j] = Pointer(at) /\ Pointer(at) # Null
    BY <1>0, <2>1 DEF Core, HandReady, LinkReady
  <2>4. <<m, j>> # at
    BY <2>2, PlaceCases, NotRootPlace
  <2>5. node'[m].child[j] = Pointer(at)
    BY <1>0, <2>1, <2>2, <2>3, <2>4, StoreChild
  <2>6. Pointer(at) \in Kids(node', m)
    BY <2>3, <2>5 DEF Kids
  <2>7. at \in PlacesOf(Tree')
    BY <1>0, <2>1, <2>2, PlaceStays
  <2> QED BY <1>0, <2>1, <2>2, <2>6, <2>7, StoreFollows
<1>6. CASE RemoveReclaim
  <2>1. \A n \in Nodes \ {pendingNodes[writer.del]} : node'[n] = node[n]
    BY <1>0, <1>6, RemoveReclaimCore
  <2>2. \A n \in {pendingNodes[writer.del]} \cap Nodes : ~ Safe(n, w)
    BY <1>6, SafeApart DEF RemoveReclaim
  <2> QED BY <1>2, <2>1, <2>2
<1>7. CASE RemoveUnlink
  <2>1. PICK at \in Stops(writer.key, Nodes) :
           /\ Store(at, Null)
           /\ Pointer(at) \in Tree \cap Leaves
           /\ Tree' = Tree \ {Pointer(at)}
    BY <1>0, <1>7, RemoveUnlinkCore
  <2>2. Null \in Pointers /\ at \in PlacesOf(Tree)
    BY <1>0, <1>7, WriterCases, WordsNat, StopInTree DEF Pointers, RemoveUnlink
  <2>3. at \in PlacesOf(Tree')
    BY <1>0, <2>1, <2>2, PlaceStays
  <2> QED BY <1>0, <2>1, <2>2, <2>3, StoreFollows
<1>8. CASE RemoveCollapse
  <2> DEFINE m == writer.node
             at == writer.parent
  <2>1. PICK o \in Slots : /\ node[m].child[o] # Null
                           /\ \A h \in Slots \ {o} : node[m].child[h] = Null
                           /\ Store(at, node[m].child[o])
    BY <1>0, <1>8, RemoveCollapseCore
  <2>2. /\ m \in Nodes /\ node[m].child[o] \in Pointers /\ at \in PlacesOf(Tree)
        /\ Pointer(at) = m
    BY <1>0, <1>8, WriterCases, NodeTyped DEF Core, HandReady, CollapseReady, RemoveCollapse
  <2>3. Kids(node, m) = {node[m].child[o]}
    BY <2>1 DEF Kids
  <2>4. at \in PlacesOf(Tree')
    BY <1>0, <2>1, <2>2, PlaceStays
  <2> QED BY <1>0, <2>1, <2>2, <2>3, <2>4, StoreFollows
<1> QED BY <1>1, <1>3, <1>4, <1>5, <1>6, <1>7, <1>8, NextCases
        DEF InsertBegin, InsertExists, InsertNoNode, RemoveBegin, RemoveMiss, Reads, unread, tree

(* A leaf that is safe keeps its key, and its value but in the tree. *)
LEMMA NextLeaves ==
  ASSUME Grace, [Next]_vars, NEW w \in Nat, removeCount < w, NEW x \in Leaves, Safe(x, w)
  PROVE  /\ leaf'[x].key = leaf[x].key
         /\ leaf'[x].value = leaf[x].value \/ x \in Tree'
<1>0. Core /\ Core' /\ Typed
  BY NextCore DEF Grace, Core
<1>1. leaf'[x].key = leaf[x].key
  BY <1>0, SafeApart, NextKeepsShape DEF KeepsShape
<1>2. CASE UNCHANGED leaf
  BY <1>1, <1>2
<1>3. CASE \E key \in Keys : \E value \in ValuesOf[key] : InsertBegin(key, value)
  <2>0. PICK key \in Keys : \E value \in ValuesOf[key] : InsertBegin(key, value)
    BY <1>3
  <2>01. PICK value \in ValuesOf[key] : InsertBegin(key, value)
    BY <2>0
  <2>1. PICK k \in Leaves :
          /\ leaf' = [leaf EXCEPT ![k] = [key |-> key, value |-> value]]
          /\ IF deletedLeaf # Null
             THEN k = deletedLeaf
             ELSE k \notin taken
    BY <2>01 DEF InsertBegin
  <2>2. k \in FreeLeaves \/ k \notin taken
    <3>1. deletedLeaf # Null => deletedLeaf \in FreeLeaves
      BY <1>0, ChainStarts, NextDomains DEF Core, PoolsEnd, Ends, FreeLeaves
    <3> QED BY <2>1, <3>1
  <2>3. x # k
    BY <1>0, <2>2, SafeApart DEF Core, OwnedOnce
  <2> QED BY <1>0, <1>1, <2>1, <2>3 DEF Typed
<1>4. CASE \E update \in BOOLEAN : InsertExists(update)
  <2>1. PICK update \in BOOLEAN : InsertExists(update)
    BY <1>4
  <2>2. PICK at \in Stops(newKey, Shared(newKey)) :
          /\ Found(newKey, Pointer(at))
          /\ leaf' = [leaf EXCEPT
                       ![writer.leaf].value = deletedLeaf,
                       ![Pointer(at)].value = IF update THEN newValue ELSE @]
    BY <2>1 DEF InsertExists
  <2>3. writer.pc = "place"
    BY <2>1 DEF InsertExists
  <2>4. Pointer(at) \in Tree /\ Pointer(at) \in Leaves
    BY <1>0, <2>2, <2>3, NewPlace, NullApart DEF Found
  <2>5. x # writer.leaf
    BY <1>0, <2>3, HandIs, SafeApart
  <2>6. Tree' = Tree
    BY <1>0, <2>1, InsertExistsCore
  <2>7. CASE x = Pointer(at)
    BY <1>1, <2>4, <2>6, <2>7
  <2>8. CASE x # Pointer(at)
    BY <1>0, <1>1, <2>2, <2>5, <2>8 DEF Typed
  <2> QED BY <2>7, <2>8
<1>5. CASE InsertNoNode
  <2>1. x # writer.leaf
    BY <1>0, <1>5, HandIs, SafeApart DEF InsertNoNode
  <2>2. leaf' = [leaf EXCEPT ![writer.leaf].value = deletedLeaf]
    BY <1>5 DEF InsertNoNode
  <2> QED BY <1>0, <1>1, <2>1, <2>2 DEF Typed
<1>6. CASE RemoveReclaim
  <2>1. x # pendingLeaves[writer.del]
    BY <1>6, SafeApart DEF RemoveReclaim
  <2> QED BY <1>0, <1>1, <1>6, <2>1, RemoveReclaimCore
<1> QED BY <1>2, <1>3, <1>4, <1>5, <1>6, NextCases
        DEF InsertLeaf, InsertNode, InsertLink, RemoveBegin, RemoveMiss, RemoveUnlink, RemoveCollapse,
            Reads, unread

(***************************************************************************)
(* What a query may answer                                                 *)
(***************************************************************************)
OnSide(query, a) ==
  /\ query[1] = "get" => a = query[2]
  /\ query[1] = "le" => a <= query[2]
  /\ query[1] = "ge" => a >= query[2]

LEMMA SideIs ==
  ASSUME NEW query \in Queries
  PROVE  Index!Side(query) = {k \in Keys : OnSide(query, k)}
<1>1. query[2] \in Nat /\ query[1] \in {"get", "le", "ge"}
  BY QueryIs
<1>2. CASE query[1] = "get"
  BY <1>2 DEF Index!Side, OnSide
<1>3. CASE query[1] = "le"
  BY <1>3 DEF Index!Side, OnSide
<1>4. CASE query[1] = "ge"
  BY <1>4 DEF Index!Side, OnSide
<1> QED BY <1>1, <1>2, <1>3, <1>4

LEMMA EnteredIs ==
  ASSUME NEW query \in Queries, NEW e
  PROVE  \A k : k \in Index!Entered(query, e) <=> k \in Keys /\ OnSide(query, k) /\ e[k] # Null
BY SideIs DEF Index!Entered

LEMMA Greatest ==
  ASSUME NEW n \in Nat, NEW S \in SUBSET (0 .. n), S # {}
  PROVE  \E x \in S : \A y \in S : x >= y
<1> DEFINE R == {n - x : x \in S}
<1>1. R \subseteq Nat /\ R # {}
  <2>1. PICK x \in S : TRUE
    OBVIOUS
  <2>2. n - x \in R
    OBVIOUS
  <2>3. ASSUME NEW y \in S
        PROVE  n - y \in Nat
    <3>1. y \in Nat /\ y <= n
      OBVIOUS
    <3> QED BY <3>1
  <2> QED BY <2>2, <2>3
<1>2. PICK r \in R : \A t \in R : r <= t
  <2> HIDE DEF R
  <2> QED BY <1>1, Least
<1>3. PICK x \in S : r = n - x
  OBVIOUS
<1>4. ASSUME NEW y \in S
      PROVE  x >= y
  <2>1. n - y \in R
    OBVIOUS
  <2>2. n - x <= n - y
    BY <1>2, <1>3, <2>1
  <2> QED BY <2>2
<1> QED BY <1>4

LEMMA NearestKey ==
  ASSUME NEW query, NEW S \in SUBSET Keys, S # {}
  PROVE  \E j \in S : \A k \in S : Index!Nearer(query, j, k)
<1>1. 2 ^ Width - 1 \in Nat /\ S \subseteq 0 .. 2 ^ Width - 1
  BY WordsNat, NibNat, PowerNat DEF Words
<1>2. S \subseteq Nat
  BY <1>1
<1>3. CASE query[1] = "ge"
  <2>1. PICK j \in S : \A k \in S : j <= k
    BY <1>2, Least
  <2> QED BY <1>3, <2>1 DEF Index!Nearer
<1>4. CASE query[1] # "ge"
  <2>1. PICK j \in S : \A k \in S : j >= k
    BY <1>1, Greatest
  <2> QED BY <1>4, <2>1 DEF Index!Nearer
<1> QED BY <1>3, <1>4

LEMMA ExactIs ==
  ASSUME NEW query \in Queries, NEW e
  PROVE  \/ Index!Entered(query, e) = {} /\ Index!Exact(query, e) = Null
         \/ \E j \in Index!Entered(query, e) :
               /\ \A k \in Index!Entered(query, e) : Index!Nearer(query, j, k)
               /\ Index!Exact(query, e) = e[j]
<1> DEFINE S == Index!Entered(query, e)
<1>1. CASE S = {}
  BY <1>1 DEF Index!Exact
<1>2. CASE S # {}
  <2>1. S \in SUBSET Keys
    BY EnteredIs
  <2>2. \E j \in S : \A k \in S : Index!Nearer(query, j, k)
    <3> HIDE DEF S
    <3> QED BY <1>2, <2>1, NearestKey
  <2> DEFINE j == CHOOSE i \in S : \A k \in S : Index!Nearer(query, i, k)
  <2>3. j \in S /\ \A k \in S : Index!Nearer(query, j, k)
    <3> HIDE DEF S
    <3> QED BY <2>2
  <2>4. Index!Exact(query, e) = e[j]
    BY <1>2 DEF Index!Exact
  <2> QED BY <2>3, <2>4
<1> QED BY <1>1, <1>2

(* The leaves in T, whose contents are lf, hold the entries e. *)
Holds(T, lf, e) ==
  /\ e \in [Keys -> Links]
  /\ \A key \in Keys : e[key] # Null => e[key] \in ValuesOf[key]
  /\ \A k \in T : lf[k].key \in Keys /\ lf[k].value = e[lf[k].key] /\ lf[k].value \in ValuesOf[lf[k].key]
  /\ \A j, k \in T : lf[j].key = lf[k].key => j = k
  /\ \A key \in Keys : e[key] # Null => \E k \in T : lf[k].key = key

LEMMA HoldsNow ==
  /\ EntriesKept => Holds(Tree \cap Leaves, leaf, entries)
  /\ EntriesKept' => Holds(Tree' \cap Leaves, leaf', entries')
BY DEF EntriesKept, Holds

(* The leaf of the entry that is nearest. *)
First(query, T, lf, l) ==
  /\ l \in T /\ OnSide(query, lf[l].key)
  /\ \A k \in T : OnSide(query, lf[k].key) => Index!Nearer(query, lf[l].key, lf[k].key)

LEMMA NearerOne ==
  ASSUME NEW query \in Queries, NEW j \in Nat, NEW k \in Nat,
         Index!Nearer(query, j, k), Index!Nearer(query, k, j)
  PROVE  j = k
BY DEF Index!Nearer

LEMMA FirstIsExact ==
  ASSUME NEW query \in Queries, NEW T, NEW lf, NEW e, Holds(T, lf, e), NEW l, First(query, T, lf, l)
  PROVE  /\ Index!Exact(query, e) = lf[l].value
         /\ lf[l].key \in Keys /\ lf[l].value \in ValuesOf[lf[l].key] /\ lf[l].value # Null
         /\ e[lf[l].key] = lf[l].value
<1>1. /\ l \in T /\ lf[l].key \in Keys /\ lf[l].value = e[lf[l].key]
      /\ lf[l].value \in ValuesOf[lf[l].key] /\ OnSide(query, lf[l].key)
  BY DEF Holds, First
<1>2. lf[l].value # Null
  BY <1>1, ValuesAre
<1>3. lf[l].key \in Index!Entered(query, e)
  BY <1>1, <1>2, EnteredIs
<1>4. PICK j \in Index!Entered(query, e) :
         /\ \A k \in Index!Entered(query, e) : Index!Nearer(query, j, k)
         /\ Index!Exact(query, e) = e[j]
  BY <1>3, ExactIs
<1>5. j \in Keys /\ OnSide(query, j) /\ e[j] # Null
  BY EnteredIs
<1>6. PICK k \in T : lf[k].key = j
  BY <1>5 DEF Holds
<1>7. Index!Nearer(query, lf[l].key, j)
  BY <1>5, <1>6 DEF First
<1>8. Index!Nearer(query, j, lf[l].key)
  BY <1>3, <1>4
<1>9. j = lf[l].key
  BY <1>1, <1>5, <1>7, <1>8, WordsNat, NearerOne
<1> QED BY <1>1, <1>2, <1>4, <1>9

LEMMA FirstExists ==
  ASSUME NEW query \in Queries, NEW T, NEW lf, NEW e, Holds(T, lf, e), Index!Exact(query, e) # Null
  PROVE  \E l : First(query, T, lf, l)
<1>1. PICK j \in Index!Entered(query, e) : \A k \in Index!Entered(query, e) : Index!Nearer(query, j, k)
  BY ExactIs
<1>2. j \in Keys /\ OnSide(query, j) /\ e[j] # Null
  BY EnteredIs
<1>3. PICK l \in T : lf[l].key = j
  BY <1>2 DEF Holds
<1>4. ASSUME NEW k \in T, OnSide(query, lf[k].key)
      PROVE  Index!Nearer(query, lf[l].key, lf[k].key)
  <2>1. lf[k].key \in Keys /\ lf[k].value = e[lf[k].key] /\ lf[k].value \in ValuesOf[lf[k].key]
    BY DEF Holds
  <2>2. e[lf[k].key] # Null
    BY <2>1, ValuesAre
  <2>3. lf[k].key \in Index!Entered(query, e)
    BY <1>4, <2>1, <2>2, EnteredIs
  <2> QED BY <1>1, <1>3, <2>3
<1> QED BY <1>2, <1>3, <1>4 DEF First

(***************************************************************************)
(* What a call has seen                                                    *)
(***************************************************************************)
OpenCall(c) ==
  /\ c \in [pc : {"open"}, query : Queries, exact : SUBSET Links, loose : SUBSET Links]
  /\ IsFiniteSet(c.exact)

Covers(c, e) ==
  /\ Index!Exact(c.query, e) \in c.exact
  /\ Index!Loose(c.query, e) \subseteq c.loose

(* A value under a key on the query's side that was an entry during the call. *)
Sees(c, key, value) ==
  /\ value \in c.loose
  /\ c.query[1] = "get" => value \in c.exact
  /\ \E k \in Keys : \E v \in c.exact \cap ValuesOf[k] : Index!Nearer(c.query, k, key)

(* The nearest entry was the same all the time. *)
Steady(c) ==
  IF c.query[1] = "get" THEN Null \notin c.exact
  ELSE \E v : v # Null /\ c.exact = {v}

Grows(c, d) == d.query = c.query /\ c.exact \subseteq d.exact /\ c.loose \subseteq d.loose

LEMMA ExactTyped ==
  ASSUME NEW query \in Queries, NEW e \in [Keys -> Links]
  PROVE  Index!Exact(query, e) \in Links /\ Index!Loose(query, e) \subseteq Links
<1>1. \A k \in Index!Entered(query, e) : e[k] \in Links
  BY EnteredIs
<1>2. Null \in Links
  BY LinksHold
<1> QED BY <1>1, <1>2, ExactIs DEF Index!Loose

LEMMA WatchIs ==
  ASSUME NEW c, OpenCall(c), NEW e \in [Keys -> Links]
  PROVE  /\ OpenCall(Index!Watch(c, e))
         /\ Covers(Index!Watch(c, e), e)
         /\ Grows(c, Index!Watch(c, e))
<1> DEFINE d == Index!Watch(c, e)
           x == Index!Exact(c.query, e)
<1>1. c.query \in Queries /\ x \in Links /\ Index!Loose(c.query, e) \subseteq Links
  BY ExactTyped DEF OpenCall
<1>2. d = [c EXCEPT !.exact = @ \cup {x}, !.loose = @ \cup Index!Loose(c.query, e)]
  BY DEF Index!Watch, OpenCall
<1>3. /\ d \in [pc : {"open"}, query : Queries, exact : SUBSET Links, loose : SUBSET Links]
      /\ d.query = c.query /\ d.exact = c.exact \cup {x}
      /\ d.loose = c.loose \cup Index!Loose(c.query, e)
  <2> HIDE DEF d, x
  <2> QED BY <1>1, <1>2 DEF OpenCall
<1>4. IsFiniteSet(d.exact)
  BY <1>3, FS_AddElement DEF OpenCall
<1> HIDE DEF d
<1>5. OpenCall(d) /\ Covers(d, e) /\ Grows(c, d)
  BY <1>3, <1>4 DEF OpenCall, Covers, Grows
<1> QED BY <1>5 DEF d

LEMMA SeesMore ==
  ASSUME NEW c, NEW d, Grows(c, d), NEW key, NEW value, Sees(c, key, value)
  PROVE  Sees(d, key, value)
BY DEF Grows, Sees

LEMMA SteadyBefore ==
  ASSUME NEW c, NEW d, Grows(c, d), c.exact # {}, Steady(d)
  PROVE  Steady(c)
<1>1. CASE c.query[1] = "get"
  BY <1>1 DEF Grows, Steady
<1>2. CASE c.query[1] # "get"
  <2>1. PICK v : v # Null /\ d.exact = {v}
    BY <1>2 DEF Grows, Steady
  <2>2. c.exact = {v}
    BY <2>1 DEF Grows
  <2> QED BY <1>2, <2>1, <2>2 DEF Steady
<1> QED BY <1>1, <1>2

LEMMA SameCardinality ==
  ASSUME NEW S
  PROVE  Index!Cardinality(S) = Cardinality(S)
BY Zenon DEF Index!Cardinality, Cardinality

(* All answers stay answers. *)
LEMMA AnswersGrow ==
  ASSUME NEW c, NEW d, OpenCall(c), OpenCall(d), Grows(c, d), c.exact # {},
         NEW v \in Index!Answers(c)
  PROVE  v \in Index!Answers(d)
<1>1. CASE c.query[1] = "get"
  BY <1>1 DEF Index!Answers, Grows
<1>2. CASE c.query[1] # "get" /\ Cardinality(d.exact) = 1
  <2>1. PICK x : d.exact = {x}
    BY <1>2, FS_Singleton DEF OpenCall
  <2>2. c.exact = {x}
    BY <2>1 DEF Grows
  <2>3. Cardinality(c.exact) = 1
    BY <2>2, FS_Singleton
  <2>4. Index!Answers(c) = c.exact
    BY <2>3, SameCardinality DEF Index!Answers
  <2>5. Index!Answers(d) = d.exact
    BY <1>2, SameCardinality DEF Index!Answers
  <2> QED BY <2>1, <2>2, <2>4, <2>5
<1>3. CASE c.query[1] # "get" /\ Cardinality(d.exact) # 1
  <2>1. Index!Answers(c) \subseteq c.exact \cup c.loose \cup {Null}
    BY DEF Index!Answers
  <2>2. d.query[1] # "get"
    BY <1>3 DEF Grows
  <2>3. Index!Answers(d) = d.exact \cup d.loose \cup {Null}
    BY <1>3, <2>2, SameCardinality DEF Index!Answers
  <2> QED BY <2>1, <2>3 DEF Grows
<1> QED BY <1>1, <1>2, <1>3

(* What is in the tree is seen. *)
LEMMA TreeSeen ==
  ASSUME NEW T, NEW lf, NEW e, Holds(T, lf, e), NEW c, OpenCall(c), Covers(c, e),
         NEW x \in T, OnSide(c.query, lf[x].key)
  PROVE  Sees(c, lf[x].key, lf[x].value)
<1> DEFINE key == lf[x].key
<1>1. /\ key \in Keys /\ lf[x].value = e[key] /\ e[key] \in ValuesOf[key] /\ e[key] # Null
      /\ c.query \in Queries
  BY ValuesAre DEF Holds, OpenCall
<1>2. key \in Index!Entered(c.query, e)
  BY <1>1, EnteredIs
<1>3. e[key] \in c.loose
  BY <1>2 DEF Covers, Index!Loose
<1>4. PICK j \in Index!Entered(c.query, e) :
         /\ \A k \in Index!Entered(c.query, e) : Index!Nearer(c.query, j, k)
         /\ Index!Exact(c.query, e) = e[j]
  BY <1>1, <1>2, ExactIs
<1>5. j \in Keys /\ OnSide(c.query, j) /\ e[j] # Null
  BY <1>1, EnteredIs
<1>6. e[j] \in c.exact \cap ValuesOf[j]
  BY <1>4, <1>5 DEF Covers, Holds
<1>7. Index!Nearer(c.query, j, key)
  BY <1>2, <1>4
<1>8. c.query[1] = "get" => j = key
  BY <1>5 DEF OnSide
<1>9. \E k \in Keys : \E v \in c.exact \cap ValuesOf[k] : Index!Nearer(c.query, k, key)
  BY <1>5, <1>6, <1>7
<1> QED BY <1>1, <1>3, <1>6, <1>8, <1>9 DEF Sees

(* If the nearest entry is the same all the time nothing nearer is seen. *)
LEMMA SteadyBound ==
  ASSUME NEW T, NEW lf, NEW e, Holds(T, lf, e), NEW c, OpenCall(c), Covers(c, e), Steady(c),
         c.query[1] # "get", NEW l, First(c.query, T, lf, l), NEW key, NEW value, Sees(c, key, value)
  PROVE  Index!Nearer(c.query, lf[l].key, key)
<1>1. c.query \in Queries
  BY DEF OpenCall
<1>2. PICK v : v # Null /\ c.exact = {v}
  BY DEF Steady
<1>3. PICK k \in Keys : \E u \in c.exact \cap ValuesOf[k] : Index!Nearer(c.query, k, key)
  BY DEF Sees
<1>4. v \in ValuesOf[k] /\ Index!Nearer(c.query, k, key)
  BY <1>2, <1>3
<1>5. /\ Index!Exact(c.query, e) = lf[l].value
      /\ lf[l].key \in Keys /\ lf[l].value \in ValuesOf[lf[l].key]
  BY <1>1, FirstIsExact
<1>6. v \in ValuesOf[lf[l].key]
  BY <1>2, <1>5 DEF Covers
<1>7. k = lf[l].key
  BY <1>4, <1>5, <1>6, CritnibAssumption DEF CritnibAssumption
<1> QED BY <1>4, <1>7

(* If it is the same all the time it has the same key before and after. *)
LEMMA SteadyKey ==
  ASSUME NEW T, NEW lf, NEW e, Holds(T, lf, e), NEW c, OpenCall(c), Covers(c, e),
         NEW U, NEW lg, NEW f, Holds(U, lg, f), NEW d, OpenCall(d), Covers(d, f),
         Grows(c, d), Steady(d), NEW l, First(d.query, U, lg, l)
  PROVE  Steady(c) /\ \E k : First(c.query, T, lf, k) /\ lf[k].key = lg[l].key
<1>1. c.query \in Queries /\ d.query = c.query
  BY DEF OpenCall, Grows
<1>2. Steady(c)
  BY SteadyBefore DEF Covers
<1>3. Index!Exact(c.query, e) # Null
  BY <1>2 DEF Steady, Covers
<1>4. PICK k : First(c.query, T, lf, k)
  BY <1>1, <1>3, FirstExists
<1>5. /\ Index!Exact(c.query, e) = lf[k].value
      /\ lf[k].key \in Keys /\ lf[k].value \in ValuesOf[lf[k].key]
  BY <1>1, <1>4, FirstIsExact
<1>6. /\ Index!Exact(c.query, f) = lg[l].value
      /\ lg[l].key \in Keys /\ lg[l].value \in ValuesOf[lg[l].key]
  BY <1>1, FirstIsExact
<1>7. CASE c.query[1] = "get"
  BY <1>1, <1>2, <1>4, <1>7 DEF First, OnSide
<1>8. CASE c.query[1] # "get"
  <2>1. PICK v : d.exact = {v}
    BY <1>1, <1>8 DEF Steady
  <2>2. Index!Exact(c.query, e) = v /\ Index!Exact(c.query, f) = v
    BY <1>1, <2>1 DEF Covers, Grows
  <2>3. lf[k].key = lg[l].key
    BY <1>5, <1>6, <2>2, CritnibAssumption DEF CritnibAssumption
  <2> QED BY <1>2, <1>4, <2>3
<1> QED BY <1>7, <1>8

(***************************************************************************)
(* The reader's call                                                       *)
(***************************************************************************)
CallInv ==
  /\ reader.pc = "idle" => call = Index!None
  /\ reader.pc = "done" => call.pc = "done"
  /\ reader.pc \notin {"idle", "done"} => OpenCall(call) /\ Covers(call, entries)
  /\ reader.pc \notin {"idle", "done", "fault"} => call.query = reader.query

(* A step of a writer. *)
Writes == UNCHANGED reader /\ (UNCHANGED ghosts \/ call' = Index!Watch(call, entries'))

(* A step of the walk. *)
Strides ==
  /\ UNCHANGED <<unread, call>>
  /\ reader.pc \notin {"idle", "done", "fault"} /\ reader'.pc \notin {"idle", "done"}
  /\ reader'.pc # "fault" => reader'.query = reader.query

LEMMA WalkStrides ==
  ASSUME ReaderTyped, Walk, ~ Return
  PROVE  Strides
<1> DEFINE Good == /\ reader'.pc \notin {"idle", "done"}
                   /\ reader'.pc # "fault" => reader'.query = reader.query
<1>1. \A pc \in {"get", "near", "value"} : \A p, frames : Visit(pc, p, frames) => Good
  BY DEF Visit
<1>2. \A value : Answered(value) => Good
  BY DEF Answered
<1>3. \A frames : ComeBack(frames) => Good
  BY <1>2 DEF ComeBack
<1>4. \A n, frames : EdgeFrom(n, frames) => Good
  BY DEF EdgeFrom
<1>5. ASSUME EdgeScan \/ EdgeAgain
      PROVE  Good
  <2>1. /\ reader.pc \in {"edge", "again"}
        /\ reader \in [pc : {"edge", "again"}, query : Queries, wrs1 : Nat,
                       at : Nodes, frames : Frames, nib : Slots]
    BY <1>5, ReaderCases DEF EdgeScan, EdgeAgain
  <2>2. \A m : EdgeNext(m) => Good
    BY <1>1, <1>4 DEF EdgeNext
  <2>3. reader' = [reader EXCEPT !.pc = "again"] => Good
    BY <2>1
  <2>4. \A x : reader' = [reader EXCEPT !.nib = x] => Good
    BY <2>1
  <2>5. reader' = [pc |-> "fault"] => Good
    OBVIOUS
  <2> HIDE DEF Good
  <2>6. CASE EdgeAgain
    BY <2>2, <2>5, <2>6 DEF EdgeAgain
  <2>7. CASE EdgeScan
    BY <1>3, <2>2, <2>3, <2>4, <2>7 DEF EdgeScan
  <2> QED BY <1>5, <2>6, <2>7
<1>6. CountAgain \/ Restart => Good
  BY DEF CountAgain, Restart
<1> HIDE DEF Good
<1>7. LoadRoot \/ Descend \/ CompareKey \/ LoadValue => Good
  BY <1>1, <1>2 DEF LoadRoot, Descend, CompareKey, LoadValue
<1>8. NearLeaf \/ NearOutside \/ NearInside => Good
  BY <1>1, <1>3, <1>4 DEF NearLeaf, NearOutside, NearInside
<1>9. Aside => Good
  BY <1>1, <1>3, <1>4 DEF Aside
<1>10. Good
  BY <1>5, <1>6, <1>7, <1>8, <1>9 DEF Walk
<1>11. UNCHANGED <<unread, call>> /\ reader.pc \notin {"idle", "done", "fault"}
  BY DEF Walk, CountAgain, LoadRoot, Descend, CompareKey, NearLeaf, NearOutside, NearInside, Aside,
         EdgeScan, EdgeAgain, LoadValue, Restart
<1> QED BY <1>10, <1>11 DEF Good, Strides

LEMMA StepCases ==
  ASSUME ReaderTyped, [Next]_vars
  PROVE  \/ Writes \/ Strides \/ Return
         \/ \E query \in Queries : Ask(query)
         \/ Leave
<1>1. CASE UNCHANGED vars
  BY <1>1 DEF vars, Writes
<1>2. CASE Insert
  BY <1>2 DEF Insert, InsertBegin, InsertLeaf, InsertExists, InsertNode, InsertNoNode, InsertLink,
              Write, Writes
<1>3. CASE Remove
  BY <1>3 DEF Remove, RemoveBegin, RemoveReclaim, RemoveMiss, RemoveUnlink, RemoveCollapse,
              Write, Writes
<1>4. CASE Walk
  BY <1>4, WalkStrides
<1> QED BY <1>1, <1>2, <1>3, <1>4 DEF Next

(* What a step of a writer adds to the call. *)
LEMMA WriterCall ==
  ASSUME CallInv, EntriesKept', Writes, reader.pc \notin {"idle", "done"}
  PROVE  OpenCall(call) /\ OpenCall(call') /\ Covers(call', entries') /\ Grows(call, call')
<1>1. OpenCall(call) /\ Covers(call, entries) /\ entries' \in [Keys -> Links]
  BY DEF CallInv, EntriesKept
<1>2. CASE UNCHANGED ghosts
  BY <1>1, <1>2 DEF ghosts, Grows
<1>3. CASE call' = Index!Watch(call, entries')
  BY <1>1, <1>3, WatchIs
<1> QED BY <1>2, <1>3 DEF Writes

LEMMA NextCall ==
  ASSUME ReaderTyped, CallInv, EntriesKept, EntriesKept', [Next]_vars
  PROVE  CallInv'
<1>0. entries \in [Keys -> Links]
  BY DEF EntriesKept
<1>1. CASE Writes
  <2>1. CASE reader.pc \in {"idle", "done"}
    <3>1. UNCHANGED reader /\ call.pc # "open"
      BY <1>1, <2>1 DEF Writes, CallInv, Index!None
    <3>2. call' = call
      BY <1>1, <3>1 DEF Writes, ghosts, Index!Watch
    <3> QED BY <2>1, <3>1, <3>2 DEF CallInv
  <2>2. CASE reader.pc \notin {"idle", "done"}
    <3>1. OpenCall(call') /\ Covers(call', entries') /\ call'.query = call.query /\ UNCHANGED reader
      BY <1>1, <2>2, WriterCall DEF Grows, Writes
    <3> QED BY <2>2, <3>1 DEF CallInv, OpenCall, Covers
  <2> QED BY <2>1, <2>2
<1>2. CASE Strides
  BY <1>2 DEF Strides, CallInv, unread, OpenCall, Covers
<1>3. CASE Return
  BY <1>3 DEF Return, CallInv
<1>4. CASE \E query \in Queries : Ask(query)
  <2>1. PICK query \in Queries : Ask(query)
    BY <1>4
  <2>2. /\ reader'.pc = "root" /\ reader'.query = query /\ UNCHANGED entries
        /\ call' = [pc |-> "open", query |-> query, exact |-> {Index!Exact(query, entries)},
                    loose |-> Index!Loose(query, entries)]
    BY <2>1 DEF Ask, unread, Index!Opened
  <2>3. Index!Exact(query, entries) \in Links /\ Index!Loose(query, entries) \subseteq Links
    BY <1>0, ExactTyped
  <2>4. IsFiniteSet({Index!Exact(query, entries)})
    BY FS_Singleton
  <2> QED BY <2>2, <2>3, <2>4 DEF CallInv, OpenCall, Covers
<1>5. CASE Leave
  BY <1>5 DEF Leave, CallInv, Idle
<1> QED BY <1>1, <1>2, <1>3, <1>4, <1>5, StepCases

LEMMA InitCall ==
  ASSUME Init
  PROVE  CallInv
BY DEF Init, CallInv, Idle, Index!None

(***************************************************************************)
(* The order of keys, and where a reader looks in it                       *)
(***************************************************************************)
LEMMA AboveOrder ==
  ASSUME NEW a \in Nat, NEW b \in Nat, NEW s \in Nat
  PROVE  /\ Above(a, s) < Above(b, s) => a < b
         /\ a <= b => Above(a, s) <= Above(b, s)
<1> DEFINE P == 2 ^ s
           A == a \div P
           B == b \div P
<1>1. P \in Nat \ {0}
  BY PowerNat
<1>2. /\ A \in Nat /\ a % P \in 0 .. P - 1 /\ a = P * A + (a % P)
      /\ B \in Nat /\ b % P \in 0 .. P - 1 /\ b = P * B + (b % P)
  <2> HIDE DEF P
  <2> QED BY <1>1, DivNat
<1>3. ASSUME NEW x \in Nat, NEW y \in Nat, NEW p \in Nat \ {0}, x < y
      PROVE  p * x + p <= p * y
  <2>1. PICK d \in Nat : y = x + 1 + d
    <3>1. y - x - 1 \in Nat /\ y = x + 1 + (y - x - 1)
      BY <1>3
    <3> QED BY <3>1
  <2>2. p * y = p * x + p + p * d /\ p * d \in Nat /\ p * x \in Nat
    BY <2>1
  <2> QED BY <2>2
<1> HIDE DEF P, A, B
<1>4. P * A \in Nat /\ P * B \in Nat
  BY <1>1, <1>2
<1>5. ASSUME A < B
      PROVE  a < b
  <2>1. P * A + P <= P * B
    BY <1>1, <1>2, <1>3, <1>5
  <2> QED BY <1>1, <1>2, <1>4, <2>1
<1>6. ASSUME a <= b
      PROVE  A <= B
  <2> SUFFICES ASSUME B < A
               PROVE  FALSE
    BY <1>2
  <2>1. P * B + P <= P * A
    BY <1>1, <1>2, <1>3
  <2> QED BY <1>1, <1>2, <1>4, <1>6, <2>1
<1> QED BY <1>5, <1>6 DEF P, A, B, Above

LEMMA SliceNat ==
  ASSUME Typed, NEW n \in Nodes, NEW a \in Nat
  PROVE  SliceIndex(a, node[n].shift) \in Nat
<1>1. SliceIndex(a, node[n].shift) \in Slots /\ Nib \in Nat
  BY NodeTyped, SliceInSlots, NibNat
<1> QED BY <1>1 DEF Slots

(* Keys of one path are in the order of their slices. *)
LEMMA SliceOrder ==
  ASSUME Typed, NEW n \in Nodes, NEW a \in Nat, NEW b \in Nat, Inside(a, n), Inside(b, n),
         SliceIndex(a, node[n].shift) < SliceIndex(b, node[n].shift)
  PROVE  a < b
<1> DEFINE s == node[n].shift
           i == SliceIndex(a, s)
           j == SliceIndex(b, s)
           U == Above(a, s + Slice)
<1>1. s \in Nat /\ Slice \in Nat /\ s + Slice \in Nat /\ Nib + 1 \in Nat
  BY NodeTyped, NibNat
<1>2. U = Above(b, s + Slice) /\ U \in Nat
  BY <1>1, InsideIs, AboveNat
<1>3. i \in Nat /\ j \in Nat
  BY SliceNat
<1>4. Above(a, s) = U * (Nib + 1) + i /\ Above(b, s) = U * (Nib + 1) + j
  BY <1>1, <1>2, AboveSlice
<1>5. U * (Nib + 1) \in Nat
  BY <1>1, <1>2
<1>6. i < j
  OBVIOUS
<1> HIDE DEF s, i, j, U
<1>7. Above(a, s) < Above(b, s)
  BY <1>3, <1>4, <1>5, <1>6
<1> QED BY <1>1, <1>7, AboveOrder

(* A key outside a node's path is on the same side of all keys in it. *)
LEMMA OutsideOrder ==
  ASSUME Typed, NEW n \in Nodes, NEW a \in Nat, NEW b \in Nat, Inside(a, n), ~ Inside(b, n)
  PROVE  /\ node[n].path <= b => a < b
         /\ node[n].path >= b => a > b
<1> DEFINE p == node[n].path
           t == node[n].shift + Slice
<1>1. p \in Nat /\ t \in Nat
  BY NodeTyped, NibNat
<1>2. Above(a, t) = Above(p, t) /\ Above(b, t) # Above(p, t)
  BY InsideIs
<1>3. Above(a, t) \in Nat /\ Above(b, t) \in Nat
  BY <1>1, AboveNat
<1> HIDE DEF p, t
<1>4. ASSUME p <= b
      PROVE  a < b
  <2>1. Above(p, t) <= Above(b, t)
    BY <1>1, <1>4, AboveOrder
  <2>2. Above(a, t) < Above(b, t)
    BY <1>2, <1>3, <2>1
  <2> QED BY <1>1, <2>2, AboveOrder
<1>5. ASSUME p >= b
      PROVE  a > b
  <2>1. Above(b, t) <= Above(p, t)
    BY <1>1, <1>5, AboveOrder
  <2>2. Above(b, t) < Above(a, t)
    BY <1>2, <1>3, <2>1
  <2> QED BY <1>1, <2>2, AboveOrder
<1> QED BY <1>4, <1>5 DEF p

(* In the order in which a query meets them. *)
Closer(query, a, b) == IF query[1] = "le" THEN a > b ELSE a < b
LeftOf(query, i, nib) == IF query[1] = "le" THEN i < nib ELSE i > nib

Near(query) == query \in Queries /\ query[1] \in {"le", "ge"}

(* The keys that belong below a node, and those of them that a frame still   *)
(* has to look for.                                                          *)
Span(p) == IF p \in Leaves THEN {leaf[p].key} ELSE {a \in Words : Inside(a, p)}

Rest(query, frame) ==
  {a \in Words : /\ Inside(a, frame.node)
                 /\ LeftOf(query, SliceIndex(a, node[frame.node].shift), frame.nib)}

AllOnSide(query, S) == \A a \in S : OnSide(query, a)

(* All keys in S are met before all that the frames have to look for. *)
Before(query, S, frames) ==
  \A b \in S : \A i \in DOMAIN frames : \A a \in Rest(query, frames[i]) : Closer(query, b, a)

Stacked(query, frames) ==
  \A i \in DOMAIN frames : \A a \in Rest(query, frames[i]) :
     /\ OnSide(query, a)
     /\ \A j \in DOMAIN frames : i < j => \A b \in Rest(query, frames[j]) : Closer(query, b, a)

LEMMA SpanIn ==
  ASSUME Typed, NEW p \in Nodes \cup Leaves
  PROVE  /\ Span(p) \subseteq Words
         /\ p \in Nodes => \A a : a \in Span(p) <=> a \in Words /\ Inside(a, p)
BY LeafTyped, NullApart DEF Span

(* What belongs below a child belongs below the node, there. *)
LEMMA ChildSpan ==
  ASSUME Grace, Ranked, NEW n \in Lasting, NEW i \in Slots, NEW m, m = node[n].child[i], m # Null
  PROVE  /\ m \in Lasting \cup Leaves
         /\ \A a \in Span(m) : a \in Words /\ Belongs(a, n, i)
<1>0. Typed /\ n \in Nodes
  BY DEF Grace, Core, Lasting
<1>1. m \in Lasting \cup Leaves /\ Fits(n, i, m)
  BY LastingKid DEF Ranked
<1>2. CASE m \in Leaves
  BY <1>0, <1>1, <1>2, LeafTyped DEF Span, Fits
<1>3. CASE m \in Lasting /\ m \notin Leaves
  <2>1. m \in Nodes
    BY <1>3 DEF Lasting
  <2>2. ASSUME NEW a \in Span(m)
        PROVE  a \in Words /\ Belongs(a, n, i)
    <3>1. a \in Words /\ Inside(a, m) /\ a \in Nat
      BY <1>0, <2>1, SpanIn, WordsNat
    <3> QED BY <1>0, <1>1, <2>1, <3>1, BelongsHigher
  <2> QED BY <1>1, <2>2
<1> QED BY <1>1, <1>2, <1>3

(* The leaves below a node have keys that belong there. *)
LEMMA BelowSpan ==
  ASSUME Grace, Ranked, NEW n \in Lasting, NEW l \in Leaves, l \in Sub(node, n)
  PROVE  \E i \in Slots : /\ l \in Sub(node, node[n].child[i]) /\ Belongs(leaf[l].key, n, i)
                          /\ node[n].child[i] # Null
<1>0. Typed /\ n \in Nodes /\ l # n
  BY NullApart DEF Grace, Core, Lasting
<1>1. PICK i \in Slots : l \in Sub(node, node[n].child[i])
  BY <1>0, SubOfNode
<1>2. Fits(n, i, l)
  BY <1>1, LastingFits
<1>3. node[n].child[i] # Null
  BY <1>1, SubOfLeaf, NullApart
<1> QED BY <1>1, <1>2, <1>3 DEF Fits

LEMMA BeforeLess ==
  ASSUME NEW query, NEW S, NEW T, NEW frames, T \subseteq S, Before(query, S, frames)
  PROVE  Before(query, T, frames)
BY DEF Before

(* A frame for what is left of the key sought in its own node. *)
LEMMA InnerRest ==
  ASSUME Typed, NEW query, Near(query), NEW n \in Nodes, Inside(query[2], n), NEW frame,
         frame = [node |-> n, nib |-> SliceIndex(query[2], node[n].shift)]
  PROVE  \A a \in Rest(query, frame) : a \in Span(n) /\ OnSide(query, a)
<1> SUFFICES ASSUME NEW a \in Rest(query, frame)
             PROVE  a \in Span(n) /\ OnSide(query, a)
  OBVIOUS
<1>1. query[2] \in Nat /\ query[1] \in {"le", "ge"}
  BY QueryIs DEF Near
<1>2. /\ a \in Words /\ a \in Nat /\ Inside(a, n)
      /\ LeftOf(query, SliceIndex(a, node[n].shift), SliceIndex(query[2], node[n].shift))
  BY WordsNat DEF Rest
<1>3. CASE query[1] = "le"
  <2>1. a < query[2]
    BY <1>1, <1>2, <1>3, SliceOrder DEF LeftOf
  <2> QED BY <1>1, <1>2, <1>3, <2>1, SpanIn DEF OnSide
<1>4. CASE query[1] = "ge"
  <2>1. SliceIndex(a, node[n].shift) > SliceIndex(query[2], node[n].shift)
    BY <1>2, <1>4 DEF LeftOf
  <2>2. SliceIndex(query[2], node[n].shift) < SliceIndex(a, node[n].shift)
    <3>1. SliceIndex(query[2], node[n].shift) \in Nat /\ SliceIndex(a, node[n].shift) \in Nat
      BY <1>1, <1>2, SliceNat
    <3> QED BY <2>1, <3>1
  <2>3. query[2] < a
    BY <1>1, <1>2, <2>2, SliceOrder
  <2> QED BY <1>1, <1>2, <1>4, <2>3, SpanIn DEF OnSide
<1> QED BY <1>1, <1>3, <1>4

(* Keys to the left of another's slice are met later. *)
LEMMA LeftLater ==
  ASSUME Typed, NEW query, Near(query), NEW n \in Nodes, NEW a \in Nat, NEW b \in Nat,
         Inside(a, n), Inside(b, n),
         LeftOf(query, SliceIndex(a, node[n].shift), SliceIndex(b, node[n].shift))
  PROVE  Closer(query, b, a)
<1>1. SliceIndex(b, node[n].shift) \in Nat /\ SliceIndex(a, node[n].shift) \in Nat
  BY SliceNat
<1>2. CASE query[1] = "le"
  BY <1>2, SliceOrder DEF LeftOf, Closer
<1>3. CASE query[1] = "ge"
  <2>1. SliceIndex(b, node[n].shift) < SliceIndex(a, node[n].shift)
    BY <1>1, <1>3 DEF LeftOf
  <2>2. b < a
    BY <2>1, SliceOrder
  <2> QED BY <1>3, <2>2 DEF Closer
<1> QED BY <1>2, <1>3 DEF Near

LEMMA NotBoth ==
  ASSUME NEW query, Near(query), NEW a \in Nat, NEW b \in Nat, Index!Nearer(query, a, b)
  PROVE  ~ Closer(query, b, a)
BY DEF Index!Nearer, Closer, Near

(***************************************************************************)
(* A reader comes to the keys on its side, the closest first               *)
(***************************************************************************)
Live == Counted /\ ~ Overtaken

Spans ==
  Live =>
    /\ reader.pc \in {"near", "edge", "again", "aside"} =>
         Near(reader.query) /\ Stacked(reader.query, reader.frames)
    /\ reader.pc \in {"near", "edge", "again"} =>
         Before(reader.query, Span(reader.at), reader.frames)
    /\ reader.pc \in {"edge", "again"} => AllOnSide(reader.query, Span(reader.at))
    /\ reader.pc = "value" => OnSide(reader.query, leaf[reader.at].key)
    /\ reader.pc = "get" => reader.query[1] = "get"

LEMMA RestSame ==
  ASSUME NEW query, NEW frame,
         node'[frame.node].path = node[frame.node].path,
         node'[frame.node].shift = node[frame.node].shift
  PROVE  Rest(query, frame)' = Rest(query, frame)
BY DEF Rest, Inside

LEMMA FramesSame ==
  ASSUME NEW query, NEW frames,
         \A i \in DOMAIN frames : Rest(query, frames[i])' = Rest(query, frames[i])
  PROVE  /\ Stacked(query, frames)' <=> Stacked(query, frames)
         /\ \A S : Before(query, S, frames)' <=> Before(query, S, frames)
BY DEF Stacked, Before

LEMMA ReadsSame ==
  ASSUME UNCHANGED <<node, leaf>>
  PROVE  /\ \A query, frames : Stacked(query, frames)' <=> Stacked(query, frames)
         /\ \A query, S, frames : Before(query, S, frames)' <=> Before(query, S, frames)
         /\ \A p : Span(p)' = Span(p)
         /\ \A query, frame : Rest(query, frame)' = Rest(query, frame)
<1>1. \A query, frame : Rest(query, frame)' = Rest(query, frame)
  BY RestSame
<1>2. \A p : Span(p)' = Span(p)
  BY DEF Span, Inside
<1> QED BY <1>1, <1>2, FramesSame

LEMMA SpansNear ==
  ASSUME UNCHANGED <<node, leaf>>, NEW query, query = reader.query, NEW p, NEW frames,
         Near(query), Stacked(query, frames), Before(query, Span(p), frames),
         Visit("near", p, frames)
  PROVE  Spans'
<1>1. reader'.pc = "near" /\ reader'.query = query /\ reader'.at = p /\ reader'.frames = frames
  BY DEF Visit
<1>2. Stacked(query, frames)' /\ Before(query, Span(p), frames)'
  BY ReadsSame
<1> QED BY <1>1, <1>2 DEF Spans, Near

LEMMA SpansEdge ==
  ASSUME UNCHANGED <<node, leaf>>, NEW query, query = reader.query, NEW p, NEW frames,
         Near(query), Stacked(query, frames), Before(query, Span(p), frames),
         AllOnSide(query, Span(p)), EdgeFrom(p, frames)
  PROVE  Spans'
<1>1. reader'.pc = "edge" /\ reader'.query = query /\ reader'.at = p /\ reader'.frames = frames
  BY DEF EdgeFrom
<1>2. Stacked(query, frames)' /\ Before(query, Span(p), frames)' /\ AllOnSide(query, Span(p))'
  BY ReadsSame DEF AllOnSide
<1> QED BY <1>1, <1>2 DEF Spans, Near

LEMMA SpansAnswered ==
  ASSUME NEW value, Answered(value)
  PROVE  Spans'
BY DEF Answered, Spans

LEMMA SpansBack ==
  ASSUME UNCHANGED <<node, leaf>>, NEW query, query = reader.query, NEW frames,
         Near(query), Stacked(query, frames), ComeBack(frames)
  PROVE  Spans'
<1>1. CASE frames = <<>>
  BY <1>1, SpansAnswered DEF ComeBack
<1>2. CASE frames # <<>>
  <2>1. reader'.pc = "aside" /\ reader'.query = query /\ reader'.frames = frames
    BY <1>2 DEF ComeBack
  <2>2. Stacked(query, frames)'
    BY ReadsSame
  <2> QED BY <2>1, <2>2 DEF Spans, Near
<1> QED BY <1>1, <1>2

LEMMA SpansValue ==
  ASSUME UNCHANGED <<node, leaf>>, NEW query, query = reader.query, NEW p, NEW frames,
         OnSide(query, leaf[p].key), Visit("value", p, frames)
  PROVE  Spans'
<1>1. reader'.pc = "value" /\ reader'.query = query /\ reader'.at = p
  BY DEF Visit
<1> QED BY <1>1 DEF Spans, OnSide

LEMMA SpansGet ==
  ASSUME NEW query, query = reader.query, NEW p, query[1] = "get", Visit("get", p, <<>>)
  PROVE  Spans'
BY DEF Visit, Spans

(* A frame is put on top of others. *)
LEMMA StackedMore ==
  ASSUME NEW query, NEW frames \in Frames, NEW frame, Stacked(query, frames),
         AllOnSide(query, Rest(query, frame)), Before(query, Rest(query, frame), frames)
  PROVE  /\ Stacked(query, Append(frames, frame))
         /\ \A S : /\ Before(query, S, frames)
                   /\ \A b \in S : \A a \in Rest(query, frame) : Closer(query, b, a)
                   => Before(query, S, Append(frames, frame))
<1> DEFINE more == Append(frames, frame)
           n == Len(frames)
<1>1. n \in Nat /\ DOMAIN frames = 1 .. n
  BY DEF Frames
<1>2. DOMAIN more = 1 .. n + 1
  BY DEF Frames
<1>3. more[n + 1] = frame /\ \A i \in 1 .. n : more[i] = frames[i]
  BY DEF Frames
<1> HIDE DEF more, n
<1>4. Stacked(query, more)
  <2> SUFFICES ASSUME NEW i \in DOMAIN more, NEW a \in Rest(query, more[i])
               PROVE  /\ OnSide(query, a)
                      /\ \A j \in DOMAIN more : i < j =>
                            \A b \in Rest(query, more[j]) : Closer(query, b, a)
    BY DEF Stacked
  <2>1. CASE i \in 1 .. n
    <3>1. i \in DOMAIN frames /\ a \in Rest(query, frames[i])
      BY <1>1, <1>3, <2>1
    <3>2. ASSUME NEW j \in DOMAIN more, i < j, NEW b \in Rest(query, more[j])
          PROVE  Closer(query, b, a)
      <4>1. CASE j \in 1 .. n
        <5>1. j \in DOMAIN frames /\ b \in Rest(query, frames[j])
          BY <1>1, <1>3, <3>2, <4>1
        <5> QED BY <3>1, <3>2, <5>1 DEF Stacked
      <4>2. CASE j = n + 1
        BY <1>3, <3>1, <3>2, <4>2 DEF Before
      <4> QED BY <1>1, <1>2, <4>1, <4>2
    <3> QED BY <3>1, <3>2 DEF Stacked
  <2>2. CASE i = n + 1
    BY <1>1, <1>2, <1>3, <2>2 DEF AllOnSide
  <2> QED BY <1>1, <1>2, <2>1, <2>2
<1>5. ASSUME NEW S, Before(query, S, frames),
             \A b \in S : \A a \in Rest(query, frame) : Closer(query, b, a)
      PROVE  Before(query, S, more)
  <2> SUFFICES ASSUME NEW b \in S, NEW i \in DOMAIN more, NEW a \in Rest(query, more[i])
               PROVE  Closer(query, b, a)
    BY DEF Before
  <2>1. CASE i \in 1 .. n
    BY <1>1, <1>3, <1>5, <2>1 DEF Before
  <2>2. CASE i = n + 1
    BY <1>3, <1>5, <2>2
  <2> QED BY <1>1, <1>2, <2>1, <2>2
<1> QED BY <1>4, <1>5 DEF more

(* The top frame is taken from the others. *)
LEMMA StackedLess ==
  ASSUME NEW query, NEW frames \in Frames, frames # <<>>, Stacked(query, frames),
         NEW last, last = Len(frames), NEW outer, outer = SubSeq(frames, 1, last - 1)
  PROVE  /\ Stacked(query, outer)
         /\ AllOnSide(query, Rest(query, frames[last]))
         /\ Before(query, Rest(query, frames[last]), outer)
         /\ last \in DOMAIN frames
         /\ DOMAIN outer \subseteq DOMAIN frames /\ \A i \in DOMAIN outer : outer[i] = frames[i]
         /\ \A i \in DOMAIN frames : i = last \/ i \in DOMAIN outer
<1>1. last \in Nat \ {0} /\ DOMAIN frames = 1 .. last
  BY EmptySeq DEF Frames
<1>2. DOMAIN outer = 1 .. last - 1 /\ \A i \in DOMAIN outer : outer[i] = frames[i]
  BY <1>1 DEF Frames
<1>3. /\ last \in DOMAIN frames /\ DOMAIN outer \subseteq DOMAIN frames
      /\ \A i \in DOMAIN frames : i = last \/ i \in DOMAIN outer
      /\ \A i \in DOMAIN outer : i < last
  BY <1>1, <1>2
<1>4. Stacked(query, outer)
  BY <1>2, <1>3 DEF Stacked
<1>5. AllOnSide(query, Rest(query, frames[last]))
  BY <1>3 DEF Stacked, AllOnSide
<1>6. Before(query, Rest(query, frames[last]), outer)
  BY <1>2, <1>3 DEF Stacked, Before
<1> QED BY <1>2, <1>3, <1>4, <1>5, <1>6

LEMMA LiveIs ==
  ASSUME Grace, ReaderInv, Live
  PROVE  \E w \in Nat : /\ w = reader.wrs1 + DeletedLife /\ removeCount < w
                        /\ \A x \in Visited : /\ x \in Nodes \cup Leaves /\ Safe(x, w)
                                              /\ x \in Lasting \cup Leaves
<1>1. reader.wrs1 \in Nat /\ DeletedLife \in Nat /\ removeCount \in Nat /\ Typed
  BY VisitedIn, LifeNat DEF ReaderInv, Live, Grace, Core, Typed
<1>2. PICK w \in Nat : w = reader.wrs1 + DeletedLife
  BY <1>1
<1>3. removeCount < w
  BY <1>1, <1>2 DEF Live, Overtaken
<1>4. \A x \in Visited : x \in Nodes \cup Leaves /\ Safe(x, w)
  BY <1>2, VisitedIn DEF ReaderInv, ReaderSafe, Live
<1>5. \A x \in Visited : x \in Lasting \cup Leaves
  BY <1>1, <1>4, SafeIn
<1> QED BY <1>2, <1>3, <1>4, <1>5

LEMMA Stands ==
  ASSUME Grace, ReaderInv, Live
  PROVE  /\ reader.pc \in {"get", "near", "value", "edge", "again"} =>
              /\ reader.at \in Visited /\ reader.at \in Lasting \cup Leaves
              /\ reader.query \in Queries
         /\ reader.pc \in {"near", "value", "edge", "again", "aside"} =>
              /\ reader.frames \in Frames /\ reader.query \in Queries
              /\ \A i \in DOMAIN reader.frames :
                    /\ reader.frames[i] \in [node : Nodes, nib : Slots]
                    /\ reader.frames[i].node \in Visited /\ reader.frames[i].node \in Lasting
         /\ reader.pc \in {"edge", "again"} => reader.at \in Lasting /\ reader.nib \in Slots
         /\ reader.pc = "aside" => reader.frames # <<>>
<1>0. ReaderTyped /\ \A x \in Visited : x \in Lasting \cup Leaves
  BY LiveIs DEF ReaderInv
<1>1. ASSUME "frames" \in DOMAIN reader, reader.frames \in Frames
      PROVE  \A i \in DOMAIN reader.frames :
                    /\ reader.frames[i] \in [node : Nodes, nib : Slots]
                    /\ reader.frames[i].node \in Visited /\ reader.frames[i].node \in Lasting
  <2> SUFFICES ASSUME NEW i \in DOMAIN reader.frames
               PROVE  /\ reader.frames[i] \in [node : Nodes, nib : Slots]
                      /\ reader.frames[i].node \in Visited /\ reader.frames[i].node \in Lasting
    OBVIOUS
  <2> DEFINE F == [node : Nodes, nib : Slots]
  <2>1. \A f \in F : f.node \in Nodes
    OBVIOUS
  <2>2. reader.frames \in Seq(F)
    BY <1>1 DEF Frames
  <2> HIDE DEF F
  <2>3. reader.frames[i] \in F
    BY <2>2
  <2>4. reader.frames[i].node \in Visited
    BY <1>1 DEF Visited, FrameNodes
  <2> QED BY <1>0, <2>1, <2>3, <2>4, NullApart DEF F
<1>2. CASE reader.pc \in {"get", "near"}
  <2>1. reader \in [pc : {"get", "near"}, query : Queries, wrs1 : Nat,
                    at : Nodes \cup Leaves, frames : Frames]
    BY <1>0, <1>2, ReaderCases
  <2>2. reader.at \in Visited
    BY <2>1 DEF Visited
  <2> QED BY <1>0, <1>1, <1>2, <2>1, <2>2
<1>3. CASE reader.pc = "value"
  <2>1. reader \in [pc : {"value"}, query : Queries, wrs1 : Nat, at : Leaves, frames : Frames]
    BY <1>0, <1>3, ReaderCases
  <2>2. reader.at \in Visited
    BY <2>1 DEF Visited
  <2> QED BY <1>0, <1>1, <1>3, <2>1, <2>2
<1>4. CASE reader.pc \in {"edge", "again"}
  <2>1. reader \in [pc : {"edge", "again"}, query : Queries, wrs1 : Nat,
                    at : Nodes, frames : Frames, nib : Slots]
    BY <1>0, <1>4, ReaderCases
  <2>2. reader.at \in Visited
    BY <2>1 DEF Visited
  <2> QED BY <1>0, <1>1, <1>4, <2>1, <2>2, NullApart
<1>5. CASE reader.pc = "aside"
  <2>1. reader \in [pc : {"aside"}, query : Queries, wrs1 : Nat, frames : Frames \ {<<>>}]
    BY <1>0, <1>5, ReaderCases
  <2> QED BY <1>1, <1>5, <2>1
<1> QED BY <1>2, <1>3, <1>4, <1>5

LEMMA NextSlot ==
  ASSUME NEW query, Near(query), NEW nib \in Slots,
         nib # (IF query[1] = "le" THEN 0 ELSE Nib),
         NEW next, next = IF query[1] = "le" THEN nib - 1 ELSE nib + 1
  PROVE  /\ next \in Slots /\ LeftOf(query, next, nib)
         /\ \A i \in Slots : LeftOf(query, i, nib) <=> i = next \/ LeftOf(query, i, next)
BY NibNat DEF Slots, LeftOf, Near

LEMMA LastSlot ==
  ASSUME NEW query, Near(query), NEW nib \in Slots,
         nib = (IF query[1] = "le" THEN 0 ELSE Nib)
  PROVE  \A i \in Slots : ~ LeftOf(query, i, nib)
BY NibNat DEF Slots, LeftOf, Near

LEMMA FirstSlot ==
  ASSUME NEW query, Near(query)
  PROVE  \A i \in Slots : LET nib == IF query[1] = "le" THEN Nib ELSE 0 IN
                          i = nib \/ LeftOf(query, i, nib)
BY NibNat DEF Slots, LeftOf, Near

(* The node or leaf met beside a frame's slot: its keys are the frame's. *)
LEMMA BesideSpan ==
  ASSUME Grace, Ranked, NEW query, Near(query), NEW frame \in [node : Nodes, nib : Slots],
         frame.node \in Lasting, NEW next \in Slots, LeftOf(query, next, frame.nib),
         NEW m, m = node[frame.node].child[next], m # Null
  PROVE  Span(m) \subseteq Rest(query, frame)
<1> SUFFICES ASSUME NEW a \in Span(m)
             PROVE  a \in Rest(query, frame)
  OBVIOUS
<1>1. a \in Words /\ Belongs(a, frame.node, next)
  BY ChildSpan
<1> QED BY <1>1 DEF Belongs, Rest

LEMMA SliceOf ==
  ASSUME Typed, NEW n \in Nodes, NEW a \in Words
  PROVE  SliceIndex(a, node[n].shift) \in Slots
BY WordsNat, NodeTyped, SliceInSlots

(* The frame with its slot moved on has less to look for. *)
LEMMA RestMoves ==
  ASSUME Typed, NEW query, Near(query), NEW frame \in [node : Nodes, nib : Slots],
         frame.nib # (IF query[1] = "le" THEN 0 ELSE Nib),
         NEW next, next = IF query[1] = "le" THEN frame.nib - 1 ELSE frame.nib + 1,
         NEW moved, moved = [frame EXCEPT !.nib = next]
  PROVE  /\ next \in Slots /\ LeftOf(query, next, frame.nib)
         /\ moved.node = frame.node /\ moved \in [node : Nodes, nib : Slots]
         /\ \A a \in Rest(query, frame) :
               a \in Rest(query, moved) \/ SliceIndex(a, node[frame.node].shift) = next
         /\ Rest(query, moved) \subseteq Rest(query, frame)
         /\ \A a \in Rest(query, moved) : LeftOf(query, SliceIndex(a, node[frame.node].shift), next)
<1>1. frame.nib \in Slots /\ frame.node \in Nodes
  OBVIOUS
<1>2. /\ next \in Slots /\ LeftOf(query, next, frame.nib)
      /\ \A i \in Slots : LeftOf(query, i, frame.nib) <=> i = next \/ LeftOf(query, i, next)
  BY <1>1, NextSlot
<1>3. moved.node = frame.node /\ moved.nib = next /\ moved \in [node : Nodes, nib : Slots]
  BY <1>1, <1>2
<1>4. \A a \in Words : SliceIndex(a, node[frame.node].shift) \in Slots
  BY <1>1, SliceOf
<1> QED BY <1>2, <1>3, <1>4 DEF Rest

LEMMA WalkLive ==
  ASSUME ReaderTyped, Walk, Live', ~ CountAgain
  PROVE  Live
<1> DEFINE Good == Counted' => reader'.wrs1 = reader.wrs1
<1>1. \A pc, p, frames : Visit(pc, p, frames) => Good
  BY DEF Visit
<1>2. \A value : Answered(value) => Good
  BY DEF Answered
<1>3. \A frames : ComeBack(frames) => Good
  BY <1>2 DEF ComeBack
<1>4. \A n, frames : EdgeFrom(n, frames) => Good
  BY DEF EdgeFrom
<1>5. ASSUME EdgeScan \/ EdgeAgain
      PROVE  Good
  <2>1. /\ reader.pc \in {"edge", "again"}
        /\ reader \in [pc : {"edge", "again"}, query : Queries, wrs1 : Nat,
                       at : Nodes, frames : Frames, nib : Slots]
    BY <1>5, ReaderCases DEF EdgeScan, EdgeAgain
  <2>2. \A m : EdgeNext(m) => Good
    BY <1>1, <1>4 DEF EdgeNext
  <2>3. reader' = [reader EXCEPT !.pc = "again"] => Good
    BY <2>1
  <2>4. \A x : reader' = [reader EXCEPT !.nib = x] => Good
    BY <2>1
  <2>5. reader' = [pc |-> "fault"] => Good
    BY DEF Counted
  <2> HIDE DEF Good
  <2>6. CASE EdgeAgain
    BY <2>2, <2>5, <2>6 DEF EdgeAgain
  <2>7. CASE EdgeScan
    BY <1>3, <2>2, <2>3, <2>4, <2>7 DEF EdgeScan
  <2> QED BY <1>5, <2>6, <2>7
<1>6. Restart \/ Return => Good
  BY DEF Restart, Return, Counted
<1> HIDE DEF Good
<1>7. LoadRoot \/ Descend \/ CompareKey \/ LoadValue => Good
  BY <1>1, <1>2 DEF LoadRoot, Descend, CompareKey, LoadValue
<1>8. NearLeaf \/ NearOutside \/ NearInside => Good
  BY <1>1, <1>3, <1>4 DEF NearLeaf, NearOutside, NearInside
<1>9. Aside => Good
  BY <1>1, <1>3, <1>4 DEF Aside
<1>10. Good
  BY <1>5, <1>6, <1>7, <1>8, <1>9 DEF Walk
<1>11. reader'.wrs1 = reader.wrs1 /\ UNCHANGED removeCount
  BY <1>10 DEF Good, Live, Walk, unread, CountAgain, LoadRoot, Descend, CompareKey, NearLeaf, NearOutside,
     NearInside, Aside, EdgeScan, EdgeAgain, LoadValue, Restart, Return
<1>12. ~ Overtaken
  BY <1>11 DEF Live, Overtaken
<1>13. reader.pc \notin {"idle", "done", "fault", "start"}
  BY DEF Walk, CountAgain, LoadRoot, Descend, CompareKey, NearLeaf, NearOutside, NearInside, Aside,
         EdgeScan, EdgeAgain, LoadValue, Restart, Return
<1>14. Counted
  BY <1>13 DEF ReaderTyped, Counted, Idle
<1> QED BY <1>12, <1>14 DEF Live

LEMMA SuitsIs ==
  ASSUME NEW query, query = reader.query, Near(query), NEW a \in Nat
  PROVE  /\ Suits(a) <=> OnSide(query, a)
         /\ Downward <=> query[1] = "le"
         /\ Sought = query[2] /\ query[2] \in Nat
BY QueryIs DEF Suits, OnSide, Downward, Sought, Near

(* On a node whose path does not suit, no key of that path is on the side. *)
LEMMA OutsideSuits ==
  ASSUME Typed, NEW query, query = reader.query, Near(query), NEW n \in Nodes,
         ~ Inside(Sought, n), NEW a \in Nat, Inside(a, n)
  PROVE  OnSide(query, a) <=> Suits(node[n].path)
<1>1. query[2] \in Nat /\ query[1] \in {"le", "ge"} /\ node[n].path \in Nat /\ Sought = query[2]
  BY SuitsIs, NodeTyped DEF Near
<1>2. /\ node[n].path <= query[2] => a < query[2]
      /\ node[n].path >= query[2] => a > query[2]
  BY <1>1, OutsideOrder
<1>3. Suits(node[n].path) <=> OnSide(query, node[n].path)
  BY <1>1, SuitsIs
<1> HIDE DEF Suits
<1> QED BY <1>1, <1>2, <1>3 DEF OnSide

LEMMA EarlySpans ==
  ASSUME Grace, ReaderInv, Spans, Live, Descend \/ CompareKey \/ LoadValue
  PROVE  Spans'
<1>1. CASE Descend
  <2>1. reader.pc = "get" /\ reader.query[1] = "get"
    BY <1>1 DEF Descend, Spans
  <2> QED BY <1>1, <2>1, SpansAnswered, SpansGet DEF Descend
<1>2. CASE CompareKey
  <2>1. reader.query[1] = "get" /\ UNCHANGED <<node, leaf>>
    BY <1>2 DEF CompareKey, Spans, unread, tree
  <2>2. CASE leaf[reader.at].key = Sought
    <3>1. OnSide(reader.query, leaf[reader.at].key)
      BY <2>1, <2>2 DEF OnSide, Sought
    <3> QED BY <1>2, <2>1, <2>2, <3>1, SpansValue DEF CompareKey
  <2>3. CASE leaf[reader.at].key # Sought
    BY <1>2, <2>3, SpansAnswered DEF CompareKey
  <2> QED BY <2>2, <2>3
<1>3. CASE LoadValue
  BY <1>3, SpansAnswered DEF LoadValue
<1> QED BY <1>1, <1>2, <1>3

(* What is known of a walk to the nearest entry. *)
LEMMA NearKnows ==
  ASSUME Grace, ReaderInv, Spans, Live, reader.pc \in {"near", "edge", "again", "aside"}
  PROVE  /\ Near(reader.query) /\ Stacked(reader.query, reader.frames) /\ reader.frames \in Frames
         /\ reader.pc # "aside" => /\ Before(reader.query, Span(reader.at), reader.frames)
                                   /\ reader.at \in Visited /\ reader.at \in Lasting \cup Leaves
         /\ reader.pc \in {"edge", "again"} => /\ AllOnSide(reader.query, Span(reader.at))
                                               /\ reader.at \in Lasting /\ reader.nib \in Slots
BY Stands DEF Spans

LEMMA NearSpans ==
  ASSUME Grace, Ranked, ReaderInv, Spans, Live, NearLeaf \/ NearOutside \/ NearInside
  PROVE  Spans'
<1> DEFINE q == reader.query
           n == reader.at
           fs == reader.frames
<1>0. Typed /\ reader.pc = "near" /\ UNCHANGED <<node, leaf>>
  BY DEF Grace, Core, NearLeaf, NearOutside, NearInside, unread, tree
<1>1. /\ Near(q) /\ Stacked(q, fs) /\ fs \in Frames /\ Before(q, Span(n), fs)
      /\ n \in Lasting \cup Leaves
  BY <1>0, NearKnows
<1>2. \A x \in Lasting : x \in Nodes
  BY DEF Lasting
<1>3. CASE NearLeaf
  <2>1. n \in Leaves /\ leaf[n].key \in Nat
    BY <1>0, <1>3, LeafTyped DEF NearLeaf
  <2>2. Suits(leaf[n].key) <=> OnSide(q, leaf[n].key)
    BY <1>1, <2>1, SuitsIs
  <2>3. IF Suits(leaf[n].key) THEN Visit("value", n, <<>>) ELSE ComeBack(fs)
    BY <1>3 DEF NearLeaf
  <2> HIDE DEF q, n, fs
  <2> QED BY <1>0, <1>1, <2>2, <2>3, SpansValue, SpansBack DEF q
<1>4. CASE NearOutside
  <2>1. n \in Nodes /\ ~ Inside(Sought, n)
    BY <1>4 DEF NearOutside
  <2>2. IF Suits(node[n].path) THEN EdgeFrom(n, fs) ELSE ComeBack(fs)
    BY <1>4 DEF NearOutside
  <2>3. Suits(node[n].path) => AllOnSide(q, Span(n))
    <3> SUFFICES ASSUME Suits(node[n].path), NEW a \in Span(n)
                 PROVE  OnSide(q, a)
      BY DEF AllOnSide
    <3>1. a \in Nat /\ Inside(a, n)
      BY <1>0, <2>1, SpanIn, WordsNat
    <3> QED BY <1>0, <1>1, <2>1, <3>1, OutsideSuits
  <2> HIDE DEF q, n, fs
  <2> QED BY <1>0, <1>1, <2>2, <2>3, SpansEdge, SpansBack DEF q
<1>5. CASE NearInside
  <2> DEFINE nib == SliceIndex(Sought, node[n].shift)
             frame == [node |-> n, nib |-> nib]
             m == node[n].child[nib]
             more == Append(fs, frame)
  <2>1. n \in Nodes /\ n \in Lasting /\ Inside(Sought, n)
    BY <1>1, <1>5, NullApart DEF NearInside
  <2>2. IF m = Null THEN ComeBack(more) ELSE Visit("near", m, more)
    BY <1>5 DEF NearInside
  <2>3. Sought = q[2] /\ q[2] \in Nat /\ nib \in Slots
    <3>1. Sought = q[2] /\ q[2] \in Nat
      BY <1>1, QueryIs DEF Near, Sought
    <3> QED BY <1>0, <2>1, <3>1, NodeTyped, SliceInSlots
  <2>4. \A a \in Rest(q, frame) : a \in Span(n) /\ OnSide(q, a)
    BY <1>0, <1>1, <2>1, <2>3, InnerRest
  <2>5. AllOnSide(q, Rest(q, frame)) /\ Before(q, Rest(q, frame), fs)
    BY <1>1, <2>4 DEF AllOnSide, Before
  <2>6. /\ Stacked(q, more)
        /\ \A S : Before(q, S, fs) /\ (\A b \in S : \A a \in Rest(q, frame) : Closer(q, b, a))
                  => Before(q, S, more)
    <3> HIDE DEF q, fs, frame
    <3> QED BY <1>1, <2>5, StackedMore
  <2>7. ASSUME m # Null
        PROVE  Before(q, Span(m), more)
    <3>1. \A a \in Span(m) : a \in Words /\ Belongs(a, n, nib)
      <4> HIDE DEF n, nib
      <4> QED BY <2>1, <2>3, <2>7, ChildSpan
    <3>2. Span(m) \subseteq Span(n)
      BY <1>0, <2>1, <3>1, SpanIn DEF Belongs
    <3>3. ASSUME NEW b \in Span(m), NEW a \in Rest(q, frame)
          PROVE  Closer(q, b, a)
      <4>1. b \in Nat /\ Inside(b, n) /\ SliceIndex(b, node[n].shift) = nib
        BY <3>1, WordsNat DEF Belongs
      <4>2. a \in Nat /\ Inside(a, n) /\ LeftOf(q, SliceIndex(a, node[n].shift), nib)
        BY WordsNat DEF Rest
      <4> HIDE DEF q, n, nib
      <4> QED BY <1>0, <1>1, <2>1, <4>1, <4>2, LeftLater
    <3>4. Before(q, Span(m), fs)
      BY <1>1, <3>2, BeforeLess
    <3> HIDE DEF m, q, fs, frame, more
    <3> QED BY <2>6, <3>3, <3>4
  <2>8. q = reader.query
    OBVIOUS
  <2> HIDE DEF q, n, fs, frame, nib, m, more
  <2> QED BY <1>0, <1>1, <2>2, <2>6, <2>7, <2>8, SpansNear, SpansBack
<1> QED BY <1>3, <1>4, <1>5

LEMMA AsideSpans ==
  ASSUME Grace, Ranked, ReaderInv, Spans, Live, Aside
  PROVE  Spans'
<1> DEFINE q == reader.query
           fs == reader.frames
           last == Len(fs)
           frame == fs[last]
           outer == SubSeq(fs, 1, last - 1)
           next == IF q[1] = "le" THEN frame.nib - 1 ELSE frame.nib + 1
           m == node[frame.node].child[next]
           moved == [frame EXCEPT !.nib = next]
           end == IF q[1] = "le" THEN 0 ELSE Nib
<1>0. Typed /\ reader.pc = "aside" /\ UNCHANGED <<node, leaf>>
  BY DEF Grace, Core, Aside, unread, tree
<1>1. Near(q) /\ Stacked(q, fs) /\ fs \in Frames /\ fs # <<>>
  BY <1>0, NearKnows, Stands
<1>2. /\ Stacked(q, outer) /\ AllOnSide(q, Rest(q, frame)) /\ Before(q, Rest(q, frame), outer)
      /\ last \in DOMAIN fs
  <2> HIDE DEF q, fs
  <2> QED BY <1>1, StackedLess
<1>3. outer \in Frames
  <2> HIDE DEF fs
  <2> QED BY <1>1, FramesOuter
<1>4. frame \in [node : Nodes, nib : Slots] /\ frame.node \in Lasting
  BY <1>0, <1>2, Stands
<1>5. IF frame.nib = end THEN ComeBack(outer)
      ELSE IF m = Null THEN ComeBack(Append(outer, moved))
      ELSE IF m \in Leaves THEN Visit("value", m, <<>>)
      ELSE EdgeFrom(m, outer)
  BY DEF Aside, Downward
<1>6. CASE frame.nib = end
  <2>1. ComeBack(outer) /\ q = reader.query
    BY <1>5, <1>6
  <2> HIDE DEF q, outer
  <2> QED BY <1>0, <1>1, <1>2, <2>1, SpansBack
<1>7. CASE frame.nib # end
  <2>0. q = reader.query
    OBVIOUS
  <2>1. /\ next \in Slots /\ LeftOf(q, next, frame.nib)
        /\ Rest(q, moved) \subseteq Rest(q, frame)
    <3> HIDE DEF q, frame
    <3> QED BY <1>0, <1>1, <1>4, <1>7, RestMoves
  <2>2. CASE m = Null
    <3>1. ComeBack(Append(outer, moved))
      BY <1>5, <1>7, <2>2
    <3>2. AllOnSide(q, Rest(q, moved)) /\ Before(q, Rest(q, moved), outer)
      <4> HIDE DEF q, frame, moved, outer
      <4> QED BY <1>2, <2>1 DEF AllOnSide, Before
    <3>3. Stacked(q, Append(outer, moved))
      <4> HIDE DEF q, moved, outer
      <4> QED BY <1>2, <1>3, <3>2, StackedMore
    <3> HIDE DEF q, moved, outer
    <3> QED BY <1>0, <1>1, <2>0, <3>1, <3>3, SpansBack
  <2>3. CASE m # Null
    <3>1. Span(m) \subseteq Rest(q, frame)
      <4> HIDE DEF q, frame, next
      <4> QED BY <1>1, <1>4, <2>1, <2>3, BesideSpan
    <3>2. AllOnSide(q, Span(m)) /\ Before(q, Span(m), outer)
      <4> HIDE DEF q, frame, m, outer
      <4> QED BY <1>2, <3>1 DEF AllOnSide, Before
    <3>3. m \in Leaves => OnSide(q, leaf[m].key)
      <4> HIDE DEF m, q
      <4> QED BY <3>2 DEF AllOnSide, Span
    <3>4. IF m \in Leaves THEN Visit("value", m, <<>>) ELSE EdgeFrom(m, outer)
      BY <1>5, <1>7, <2>3
    <3> HIDE DEF q, m, outer
    <3> QED BY <1>0, <1>1, <1>2, <2>0, <3>2, <3>3, <3>4, SpansValue, SpansEdge
  <2> QED BY <2>2, <2>3
<1> QED BY <1>6, <1>7

LEMMA EdgeSpans ==
  ASSUME Grace, Ranked, ReaderInv, Spans, Live, EdgeScan \/ EdgeAgain
  PROVE  Spans'
<1> DEFINE q == reader.query
           fs == reader.frames
           n == reader.at
           m == node[n].child[reader.nib]
<1>0. Typed /\ reader.pc \in {"edge", "again"} /\ UNCHANGED <<node, leaf>>
  BY DEF Grace, Core, EdgeScan, EdgeAgain, unread, tree
<1>1. /\ Near(q) /\ Stacked(q, fs) /\ fs \in Frames /\ Before(q, Span(n), fs)
      /\ AllOnSide(q, Span(n)) /\ n \in Lasting /\ reader.nib \in Slots
  BY <1>0, NearKnows
<1>2. n \in Nodes
  BY <1>1 DEF Lasting
<1>00. q = reader.query
  OBVIOUS
<1>3. ASSUME m # Null, EdgeNext(m)
      PROVE  Spans'
  <2>1. \A a \in Span(m) : a \in Words /\ Belongs(a, n, reader.nib)
    <3> HIDE DEF n
    <3> QED BY <1>1, <1>3, ChildSpan
  <2>2. Span(m) \subseteq Span(n)
    BY <1>0, <1>2, <2>1, SpanIn DEF Belongs
  <2>3. AllOnSide(q, Span(m)) /\ Before(q, Span(m), fs)
    <3> HIDE DEF q, m, n, fs
    <3> QED BY <1>1, <2>2 DEF AllOnSide, Before
  <2>4. m \in Leaves => OnSide(q, leaf[m].key)
    <3> HIDE DEF m, q
    <3> QED BY <2>3 DEF AllOnSide, Span
  <2>5. IF m \in Leaves THEN Visit("value", m, <<>>) ELSE EdgeFrom(m, fs)
    BY <1>3 DEF EdgeNext
  <2> HIDE DEF q, m, fs, n
  <2> QED BY <1>0, <1>00, <1>1, <2>3, <2>4, <2>5, SpansValue, SpansEdge
<1>4. ASSUME reader'.query = q, reader'.frames = fs, reader'.at = n, reader'.pc \in {"edge", "again"}
      PROVE  Spans'
  <2>1. Stacked(q, fs)' /\ Before(q, Span(n), fs)' /\ AllOnSide(q, Span(n))'
    <3> DEFINE S == Span(n)
    <3>1. \A c, d, e : (Stacked(c, d)' <=> Stacked(c, d)) /\ (Before(c, e, d)' <=> Before(c, e, d))
      BY <1>0, ReadsSame
    <3> QED BY <1>0, <1>1, <1>4, <3>1, ReadsSame DEF AllOnSide
  <2> QED BY <1>1, <1>4, <2>1 DEF Spans, Near
<1>5. reader \in [pc : {"edge", "again"}, query : Queries, wrs1 : Nat,
                  at : Nodes, frames : Frames, nib : Slots]
  BY <1>0, ReaderCases DEF ReaderInv
<1>6. CASE EdgeScan
  <2>1. CASE m # Null
    <3>1. EdgeNext(m) \/ reader' = [reader EXCEPT !.pc = "again"]
      BY <1>6, <2>1 DEF EdgeScan
    <3>2. CASE reader' = [reader EXCEPT !.pc = "again"]
      BY <1>4, <1>5, <3>2
    <3> QED BY <1>3, <2>1, <3>1, <3>2
  <2>2. CASE m = Null /\ reader.nib = (IF Downward THEN 0 ELSE Nib)
    <3>1. ComeBack(fs)
      BY <1>6, <2>2 DEF EdgeScan
    <3> HIDE DEF q, fs
    <3> QED BY <1>0, <1>00, <1>1, <3>1, SpansBack
  <2>3. CASE m = Null /\ reader.nib # (IF Downward THEN 0 ELSE Nib)
    <3>1. PICK x : reader' = [reader EXCEPT !.nib = x]
      BY <1>6, <2>3 DEF EdgeScan
    <3> QED BY <1>0, <1>4, <1>5, <3>1
  <2> QED BY <2>1, <2>2, <2>3
<1>7. CASE EdgeAgain
  <2>1. CASE m = Null
    <3>1. reader' = [pc |-> "fault"]
      BY <1>7, <2>1 DEF EdgeAgain
    <3> QED BY <3>1 DEF Spans
  <2>2. CASE m # Null
    BY <1>3, <1>7, <2>2 DEF EdgeAgain
  <2> QED BY <2>1, <2>2
<1> QED BY <1>6, <1>7

LEMMA WalkSpans ==
  ASSUME Grace, Ranked, ReaderInv, Spans, Walk
  PROVE  Spans'
<1>1. CASE ~ Live'
  BY <1>1 DEF Spans
<1>2. CASE CountAgain \/ Restart \/ Return
  BY <1>2 DEF CountAgain, Restart, Return, Spans
<1>3. CASE LoadRoot
  <2>1. reader.query \in Queries /\ UNCHANGED <<node, leaf>>
    BY <1>3, ReaderCases DEF LoadRoot, ReaderInv, unread, tree
  <2>2. CASE root = Null
    BY <1>3, <2>2, SpansAnswered DEF LoadRoot
  <2>3. CASE root # Null /\ reader.query[1] = "get"
    BY <1>3, <2>3, SpansGet DEF LoadRoot
  <2>4. CASE root # Null /\ reader.query[1] # "get"
    <3>1. Near(reader.query)
      BY <2>1, <2>4, QueryIs DEF Near
    <3>2. Stacked(reader.query, <<>>) /\ Before(reader.query, Span(root), <<>>)
      BY DEF Stacked, Before
    <3>3. Visit("near", root, <<>>)
      BY <1>3, <2>4 DEF LoadRoot
    <3> QED BY <2>1, <3>1, <3>2, <3>3, SpansNear
  <2> QED BY <2>2, <2>3, <2>4
<1>4. CASE Live' /\ ~ (CountAgain \/ Restart \/ Return \/ LoadRoot)
  <2>1. Live
    BY <1>4, WalkLive DEF ReaderInv
  <2> QED BY <1>4, <2>1, EarlySpans, NearSpans, AsideSpans, EdgeSpans DEF Walk
<1> QED BY <1>1, <1>2, <1>3, <1>4

(***************************************************************************)
(* All that a reader can still come to has been seen by its call           *)
(***************************************************************************)
Below(x) == x \in Tree \/ \E v \in Visited : x \in Sub(node, v)

SeenInv ==
  Live => \A x \in Leaves : Below(x) /\ OnSide(reader.query, leaf[x].key) =>
                               Sees(call, leaf[x].key, leaf[x].value)

LEMMA CountGrows ==
  ASSUME Typed, [Next]_vars
  PROVE  removeCount \in Nat /\ removeCount' \in Nat /\ removeCount <= removeCount'
<1>1. removeCount \in Nat
  BY LifeNat DEF Typed
<1>2. removeCount' = removeCount \/ removeCount' = removeCount + 1
  BY NextCases DEF InsertBegin, InsertLeaf, InsertExists, InsertNode, InsertNoNode, InsertLink,
     RemoveBegin, RemoveReclaim, RemoveMiss, RemoveUnlink, RemoveCollapse, Reads, unread
<1> QED BY <1>1, <1>2

(* A reader that nothing has overtaken after a step had not been before it. *)
LEMMA LiveEarlier ==
  ASSUME Grace, ReaderInv, [Next]_vars, UNCHANGED reader, Live'
  PROVE  Live /\ Visited' = Visited
<1>1. removeCount \in Nat /\ removeCount' \in Nat /\ removeCount <= removeCount'
  BY CountGrows DEF Grace, Core
<1>2. Counted /\ Visited' = Visited
  BY DEF Live, Counted, Visited
<1>3. reader.wrs1 \in Nat /\ DeletedLife \in Nat
  BY <1>2, VisitedIn, LifeNat DEF ReaderInv
<1> QED BY <1>1, <1>2, <1>3 DEF Live, Overtaken

LEMMA CountedOpen ==
  ASSUME ReaderTyped, CallInv, Counted
  PROVE  OpenCall(call) /\ Covers(call, entries) /\ call.query = reader.query /\ reader.query \in Queries
         /\ reader.pc \notin {"idle", "done", "fault", "start"}
<1>1. reader.pc \notin {"idle", "done", "fault", "start"}
  BY DEF ReaderTyped, Counted, Idle
<1> QED BY <1>1 DEF CallInv, OpenCall

LEMMA SeenInTree ==
  ASSUME ReaderTyped, CallInv, EntriesKept, Counted, NEW x \in Tree \cap Leaves,
         OnSide(reader.query, leaf[x].key)
  PROVE  Sees(call, leaf[x].key, leaf[x].value)
<1>1. Holds(Tree \cap Leaves, leaf, entries)
  BY HoldsNow
<1>2. OpenCall(call) /\ Covers(call, entries) /\ call.query = reader.query
  BY CountedOpen
<1> QED BY <1>1, <1>2, TreeSeen

LEMMA WriterSeen ==
  ASSUME Grace, EntriesKept', ReaderInv, ReaderTyped', CallInv, CallInv', SeenInv, [Next]_vars, Writes
  PROVE  SeenInv'
<1> SUFFICES ASSUME Live', NEW x \in Leaves, Below(x)', OnSide(reader'.query, leaf'[x].key)
             PROVE  Sees(call', leaf'[x].key, leaf'[x].value)
  BY DEF SeenInv, OnSide
<1>1. Live /\ Visited' = Visited /\ UNCHANGED reader
  BY LiveEarlier DEF Writes
<1>2. PICK w \in Nat : /\ w = reader.wrs1 + DeletedLife /\ removeCount < w
                       /\ \A v \in Visited : v \in Nodes \cup Leaves /\ Safe(v, w)
  BY <1>1, LiveIs
<1>3. CASE x \in Tree'
  <2>1. Holds(Tree' \cap Leaves, leaf', entries')
    BY HoldsNow
  <2>2. /\ OpenCall(call') /\ Covers(call', entries') /\ call'.query = reader'.query
    <3>1. reader.pc \notin {"idle", "done", "fault"}
      BY <1>1, CountedOpen DEF Live, ReaderInv
    <3> QED BY <1>1, <3>1 DEF CallInv, OpenCall, Covers
  <2> QED BY <1>3, <2>1, <2>2, TreeSeen
<1>4. CASE x \notin Tree'
  <2>1. PICK v \in Visited : x \in Sub(node', v)
    BY <1>1, <1>4 DEF Below
  <2>2. FollowsSafe(w)
    BY <1>2, NextFollows
  <2>3. x \in Sub(node, v)
    BY <1>2, <1>4, <2>1, <2>2, BelowGains
  <2>4. Safe(x, w)
    BY <1>2, <2>3, BelowSafe
  <2>5. leaf'[x].key = leaf[x].key /\ leaf'[x].value = leaf[x].value
    BY <1>2, <1>4, <2>4, NextLeaves
  <2>6. Sees(call, leaf[x].key, leaf[x].value)
    BY <1>1, <2>1, <2>3, <2>5 DEF SeenInv, Below
  <2>7. Grows(call, call')
    <3>1. reader.pc \notin {"idle", "done"}
      BY <1>1, CountedOpen DEF Live, ReaderInv
    <3> QED BY <3>1, WriterCall
  <2> QED BY <2>5, <2>6, <2>7, SeesMore
<1> QED BY <1>3, <1>4

(* What can be come to from what a reader meets could be come to before. *)
LEMMA MetBelow ==
  ASSUME Typed, ReaderTyped, NEW v \in Met, NEW x \in Sub(node, v)
  PROVE  Below(x)
<1>0. Visited \subseteq Nodes \cup Leaves
  BY VisitedIn
<1>1. CASE v \in Visited
  BY <1>1 DEF Below
<1>2. CASE v \in {root} \ {Null}
  BY <1>2 DEF Below, Tree
<1>3. CASE v \in UNION {Kids(node, n) : n \in Visited \cap Nodes}
  <2>1. PICK n \in Visited \cap Nodes : v \in Kids(node, n)
    BY <1>3
  <2>2. v \in Sub(node, n)
    BY <2>1, SubStarts, SubGoesOn, NullApart DEF Kids
  <2>3. x \in Sub(node, n)
    BY <2>2, SubWithin
  <2> QED BY <2>1, <2>3 DEF Below
<1> QED BY <1>1, <1>2, <1>3 DEF Met

LEMMA ReaderSeen ==
  ASSUME Grace, EntriesKept, ReaderInv, ReaderTyped', CallInv, CallInv', SeenInv, [Next]_vars,
         Advances, UNCHANGED unread, ~ Writes
  PROVE  SeenInv'
<1> SUFFICES ASSUME Live', NEW x \in Leaves, Below(x)', OnSide(reader'.query, leaf'[x].key)
             PROVE  Sees(call', leaf'[x].key, leaf'[x].value)
  BY DEF SeenInv, OnSide
<1>0. UNCHANGED <<node, root, leaf, entries, removeCount>> /\ Typed /\ Tree' = Tree
  BY DEF unread, tree, Tree, Grace, Core
<1>1. /\ OpenCall(call') /\ Covers(call', entries) /\ call'.query = reader'.query
  <2>1. reader'.pc \notin {"idle", "done", "fault", "start"}
    BY DEF ReaderTyped, Counted, Live, Idle
  <2> QED BY <1>0, <2>1 DEF CallInv, OpenCall, Covers
<1>2. CASE x \in Tree
  <2>1. Holds(Tree \cap Leaves, leaf, entries)
    BY HoldsNow
  <2> QED BY <1>0, <1>1, <1>2, <2>1, TreeSeen
<1>3. CASE x \notin Tree
  <2>1. PICK v \in Visited' : x \in Sub(node, v)
    BY <1>0, <1>3 DEF Below
  <2>2. Counted /\ reader'.wrs1 = reader.wrs1 /\ Visited' \subseteq Met
    BY <2>1 DEF Advances, Live
  <2>3. Below(x) /\ Live
    <3>1. ~ Overtaken
      BY <1>0, <2>2 DEF Live, Overtaken
    <3> QED BY <1>0, <2>1, <2>2, <3>1, MetBelow DEF ReaderInv, Live
  <2>4. Strides
    <3>1. reader.pc \notin {"idle", "done"}
      BY <2>2, CountedOpen DEF ReaderInv
    <3>2. reader'.pc \notin {"idle", "done"}
      BY DEF ReaderTyped, Counted, Live, Idle
    <3>3. ~ Return /\ ~ Leave /\ ~ (\E query \in Queries : Ask(query))
      BY <3>1, <3>2 DEF Return, Leave, Ask, Idle
    <3> QED BY <3>3, StepCases DEF ReaderInv
  <2>5. call' = call /\ reader'.query = reader.query
    <3>1. reader'.pc # "fault"
      BY DEF ReaderTyped, Counted, Live, Idle
    <3> QED BY <2>4, <3>1 DEF Strides
  <2> QED BY <1>0, <2>3, <2>5 DEF SeenInv
<1> QED BY <1>2, <1>3

LEMMA NextSeen ==
  ASSUME Grace, EntriesKept, EntriesKept', ReaderInv, ReaderTyped', CallInv, CallInv', SeenInv, [Next]_vars
  PROVE  SeenInv'
<1>1. CASE Writes
  BY <1>1, WriterSeen
<1>2. CASE ~ Writes
  <2>1. Typed /\ ReaderTyped
    BY DEF Grace, Core, ReaderInv
  <2>2. (Advances /\ UNCHANGED unread) \/ UNCHANGED reader
    BY <2>1, ReadersAdvance
  <2>3. UNCHANGED reader => UNCHANGED unread /\ Advances
    <3>1. ASSUME UNCHANGED reader
          PROVE  FALSE
      <4>1. Strides \/ Return \/ (\E query \in Queries : Ask(query)) \/ Leave
        BY <1>2, <2>1, StepCases
      <4>2. CASE Strides
        BY <1>2, <3>1, <4>2 DEF Strides, Writes, ghosts, unread
      <4>3. CASE Return
        BY <3>1, <4>3 DEF Return
      <4>4. CASE \E query \in Queries : Ask(query)
        BY <3>1, <4>4 DEF Ask, Idle
      <4>5. CASE Leave
        BY <3>1, <4>5 DEF Leave, Idle
      <4> QED BY <4>1, <4>2, <4>3, <4>4, <4>5
    <3> QED BY <3>1
  <2> QED BY <1>2, <2>2, <2>3, ReaderSeen
<1> QED BY <1>1, <1>2

(***************************************************************************)
(* The nearest entry lies ahead of the reader as long as it stays the same *)
(***************************************************************************)
InFrames(query, frames, l) ==
  \E i \in DOMAIN frames : l \in Sub(node, frames[i].node) /\ leaf[l].key \in Rest(query, frames[i])

Turn(query, n, nib, l) ==
  /\ l \in Sub(node, n)
  /\ \/ SliceIndex(leaf[l].key, node[n].shift) = nib
     \/ LeftOf(query, SliceIndex(leaf[l].key, node[n].shift), nib)

Ahead(l) ==
  /\ reader.pc = "get" => l \in Sub(node, reader.at)
  /\ reader.pc = "near" =>
       l \in Sub(node, reader.at) \/ InFrames(reader.query, reader.frames, l)
  /\ reader.pc \in {"edge", "again"} =>
       Turn(reader.query, reader.at, reader.nib, l) \/ InFrames(reader.query, reader.frames, l)
  /\ reader.pc = "aside" => InFrames(reader.query, reader.frames, l)
  /\ reader.pc = "value" => l = reader.at

Best(l) == First(reader.query, Tree \cap Leaves, leaf, l)

AheadInv == Live /\ Steady(call) => \A l : Best(l) => Ahead(l)

AnswerInv == Live /\ reader.pc = "check" => reader.res \in Index!Answers(call)

ReadsRight ==
  /\ Whole /\ ReaderInv /\ Populated /\ CallInv
  /\ Spans /\ SeenInv /\ AheadInv /\ AnswerInv

LEMMA ReadsRightHas ==
  ASSUME ReadsRight
  PROVE  /\ Grace /\ Ranked /\ EntriesKept /\ Core /\ Typed /\ ReaderInv /\ ReaderTyped
         /\ Holds(Tree \cap Leaves, leaf, entries)
BY HoldsNow DEF ReadsRight, Whole, Grace, Core, ReaderInv

LEMMA BestIs ==
  ASSUME ReadsRight, Live, NEW l, Best(l)
  PROVE  /\ l \in Tree /\ l \in Leaves /\ l \notin Nodes /\ l # Null
         /\ OnSide(reader.query, leaf[l].key)
         /\ leaf[l].key \in Words /\ leaf[l].key \in Nat
BY ReadsRightHas, LeafTyped, NullApart DEF Best, First

(* Nothing on the query's side that the reader can come to is closer. *)
LEMMA BestBound ==
  ASSUME ReadsRight, Live, Steady(call), NEW l, Best(l), Near(reader.query),
         NEW x \in Leaves, Below(x), OnSide(reader.query, leaf[x].key)
  PROVE  ~ Closer(reader.query, leaf[x].key, leaf[l].key)
<1>1. /\ OpenCall(call) /\ Covers(call, entries) /\ call.query = reader.query
      /\ Holds(Tree \cap Leaves, leaf, entries)
  BY ReadsRightHas, CountedOpen DEF ReadsRight, Live
<1>2. Sees(call, leaf[x].key, leaf[x].value)
  BY DEF ReadsRight, SeenInv
<1>3. call.query[1] # "get" /\ First(call.query, Tree \cap Leaves, leaf, l)
  BY <1>1 DEF Near, Best
<1>4. Index!Nearer(call.query, leaf[l].key, leaf[x].key)
  BY <1>1, <1>2, <1>3, SteadyBound
<1>5. leaf[l].key \in Nat /\ leaf[x].key \in Nat
  BY BestIs, ReadsRightHas, LeafTyped
<1> QED BY <1>1, <1>4, <1>5, NotBoth

(* Without a nearest entry that stays the same, nothing is an answer. *)
LEMMA NullAnswer ==
  ASSUME ReadsRight, Live, Steady(call) => \A l : ~ Best(l)
  PROVE  Null \in Index!Answers(call)
<1>1. /\ OpenCall(call) /\ Covers(call, entries) /\ call.query = reader.query
      /\ reader.query \in Queries /\ Holds(Tree \cap Leaves, leaf, entries)
  BY ReadsRightHas, CountedOpen DEF ReadsRight, Live
<1>2. ASSUME Steady(call)
      PROVE  FALSE
  <2>1. Index!Exact(call.query, entries) # Null
    BY <1>1, <1>2 DEF Steady, Covers
  <2>2. PICK l : First(call.query, Tree \cap Leaves, leaf, l)
    BY <1>1, <2>1, FirstExists
  <2> QED BY <1>1, <1>2, <2>2 DEF Best
<1>3. CASE call.query[1] = "get"
  <2>1. Null \in call.exact
    BY <1>2, <1>3 DEF Steady
  <2> QED BY <1>3, <2>1 DEF Index!Answers
<1>4. CASE call.query[1] # "get" /\ Cardinality(call.exact) = 1
  <2>1. PICK v : call.exact = {v}
    BY <1>1, <1>4, FS_Singleton DEF OpenCall
  <2>2. v = Null
    BY <1>2, <1>4, <2>1 DEF Steady
  <2>3. Index!Answers(call) = call.exact
    BY <1>4, SameCardinality DEF Index!Answers
  <2> QED BY <2>1, <2>2, <2>3
<1>5. CASE call.query[1] # "get" /\ Cardinality(call.exact) # 1
  <2>1. Index!Answers(call) = call.exact \cup call.loose \cup {Null}
    BY <1>5, SameCardinality DEF Index!Answers
  <2> QED BY <2>1
<1> QED BY <1>3, <1>4, <1>5

(* The value of a leaf that was seen, which is that of the nearest entry if  *)
(* that one stays the same, is an answer.                                    *)
LEMMA ValueAnswer ==
  ASSUME ReadsRight, Live, NEW x \in Leaves, Sees(call, leaf[x].key, leaf[x].value),
         Steady(call) => \A l : Best(l) => l = x
  PROVE  leaf[x].value \in Index!Answers(call)
<1>1. /\ OpenCall(call) /\ Covers(call, entries) /\ call.query = reader.query
      /\ reader.query \in Queries /\ Holds(Tree \cap Leaves, leaf, entries)
  BY ReadsRightHas, CountedOpen DEF ReadsRight, Live
<1>2. CASE call.query[1] = "get"
  BY <1>2 DEF Sees, Index!Answers
<1>3. CASE call.query[1] # "get" /\ Cardinality(call.exact) = 1
  <2>1. PICK v : call.exact = {v}
    BY <1>1, <1>3, FS_Singleton DEF OpenCall
  <2>2. v # Null
    <3>1. PICK k \in Keys : v \in ValuesOf[k]
      BY <2>1 DEF Sees
    <3> QED BY <3>1, ValuesAre
  <2>3. Steady(call)
    BY <1>3, <2>1, <2>2 DEF Steady
  <2>4. Index!Exact(call.query, entries) = v
    BY <1>1, <2>1 DEF Covers
  <2>5. PICK l : First(call.query, Tree \cap Leaves, leaf, l)
    BY <1>1, <2>2, <2>4, FirstExists
  <2>6. leaf[l].value = v
    BY <1>1, <2>4, <2>5, FirstIsExact
  <2>7. l = x
    BY <1>1, <2>3, <2>5 DEF Best
  <2>8. Index!Answers(call) = call.exact
    BY <1>3, SameCardinality DEF Index!Answers
  <2> QED BY <2>1, <2>6, <2>7, <2>8
<1>4. CASE call.query[1] # "get" /\ Cardinality(call.exact) # 1
  <2>1. Index!Answers(call) = call.exact \cup call.loose \cup {Null}
    BY <1>4, SameCardinality DEF Index!Answers
  <2> QED BY <2>1 DEF Sees
<1> QED BY <1>2, <1>3, <1>4

(* A step of the walk leaves the nearest entry where it is. *)
LEMMA BestSame ==
  ASSUME UNCHANGED <<unread, call>>, reader'.query = reader.query
  PROVE  /\ \A l : Best(l)' <=> Best(l)
         /\ Steady(call)' <=> Steady(call)
         /\ \A query, frames, l : InFrames(query, frames, l)' <=> InFrames(query, frames, l)
         /\ \A query, n, nib, l : Turn(query, n, nib, l)' <=> Turn(query, n, nib, l)
         /\ \A p : Sub(node, p)' = Sub(node, p)
<1>1. UNCHANGED <<root, node, leaf>> /\ Tree' = Tree
  BY DEF unread, tree, Tree
<1>2. \A l : Best(l)' <=> Best(l)
  BY <1>1 DEF Best
<1>3. Steady(call)' <=> Steady(call)
  BY DEF Steady
<1>4. \A query, frame : Rest(query, frame)' = Rest(query, frame)
  BY <1>1, ReadsSame
<1>5. \A query, frames, l : InFrames(query, frames, l)' <=> InFrames(query, frames, l)
  BY <1>1, <1>4 DEF InFrames
<1>6. \A query, n, nib, l : Turn(query, n, nib, l)' <=> Turn(query, n, nib, l)
  BY <1>1 DEF Turn
<1> QED BY <1>1, <1>2, <1>3, <1>5, <1>6

LEMMA AheadVisit ==
  ASSUME UNCHANGED <<unread, call>>, NEW pc \in {"get", "near", "value"}, NEW p, NEW frames,
         Visit(pc, p, frames),
         \A l : Steady(call) /\ Best(l) =>
            /\ pc = "get" => l \in Sub(node, p)
            /\ pc = "near" => l \in Sub(node, p) \/ InFrames(reader.query, frames, l)
            /\ pc = "value" => l = p
  PROVE  AheadInv' /\ AnswerInv'
<1>1. /\ reader'.pc = pc /\ reader'.query = reader.query /\ reader'.at = p
      /\ reader'.frames = frames
  BY DEF Visit
<1>2. ASSUME Steady(call)', NEW l, Best(l)'
      PROVE  Ahead(l)'
  <2>1. Steady(call) /\ Best(l)
    BY <1>1, <1>2, BestSame
  <2> QED BY <1>1, <2>1, BestSame DEF Ahead
<1> QED BY <1>1, <1>2 DEF AheadInv, AnswerInv

LEMMA AheadEdge ==
  ASSUME ReadsRight, Live, UNCHANGED <<unread, call>>, NEW m \in Nodes, NEW frames, Near(reader.query),
         EdgeFrom(m, frames),
         \A l : Steady(call) /\ Best(l) => l \in Sub(node, m) \/ InFrames(reader.query, frames, l)
  PROVE  AheadInv' /\ AnswerInv'
<1> DEFINE nib == IF reader.query[1] = "le" THEN Nib ELSE 0
<1>1. /\ reader'.pc = "edge" /\ reader'.query = reader.query /\ reader'.at = m
      /\ reader'.frames = frames /\ reader'.nib = nib
  BY DEF EdgeFrom, Downward
<1>2. ASSUME Steady(call)', NEW l, Best(l)'
      PROVE  Ahead(l)'
  <2>1. Steady(call) /\ Best(l)
    BY <1>1, <1>2, BestSame
  <2>2. l \in Sub(node, m) => Turn(reader.query, m, nib, l)
    <3>1. SliceIndex(leaf[l].key, node[m].shift) \in Slots
      BY <2>1, BestIs, ReadsRightHas, SliceOf
    <3> QED BY <3>1, FirstSlot DEF Turn
  <2>3. Turn(reader.query, m, nib, l) \/ InFrames(reader.query, frames, l)
    BY <2>1, <2>2
  <2> HIDE DEF nib
  <2>4. PICK i : i = nib
    OBVIOUS
  <2>5. Turn(reader.query, m, i, l)' \/ InFrames(reader.query, frames, l)'
    BY <1>1, <2>3, <2>4, BestSame
  <2> QED BY <1>1, <2>4, <2>5 DEF Ahead
<1> QED BY <1>1, <1>2 DEF AheadInv, AnswerInv

LEMMA AheadNull ==
  ASSUME ReadsRight, Live, UNCHANGED <<unread, call>>, Answered(Null),
         \A l : Steady(call) => ~ Best(l)
  PROVE  AheadInv' /\ AnswerInv'
<1>1. reader'.pc = "check" /\ reader'.res = Null /\ call' = call
  BY DEF Answered
<1>2. Null \in Index!Answers(call)
  BY NullAnswer
<1>3. reader'.res \in Index!Answers(call')
  BY <1>1, <1>2
<1>4. AnswerInv'
  BY <1>3 DEF AnswerInv
<1> QED BY <1>1, <1>4 DEF AheadInv, Ahead

LEMMA AheadBack ==
  ASSUME ReadsRight, Live, UNCHANGED <<unread, call>>, NEW frames, ComeBack(frames),
         \A l : Steady(call) /\ Best(l) => InFrames(reader.query, frames, l)
  PROVE  AheadInv' /\ AnswerInv'
<1>1. CASE frames = <<>>
  <2>1. \A l : ~ InFrames(reader.query, frames, l)
    BY <1>1 DEF InFrames
  <2> QED BY <1>1, <2>1, AheadNull DEF ComeBack
<1>2. CASE frames # <<>>
  <2>1. reader'.pc = "aside" /\ reader'.query = reader.query /\ reader'.frames = frames
    BY <1>2 DEF ComeBack
  <2>2. ASSUME Steady(call)', NEW l, Best(l)'
        PROVE  Ahead(l)'
    <3>1. InFrames(reader.query, frames, l)
      BY <2>1, <2>2, BestSame
    <3> QED BY <2>1, <3>1, BestSame DEF Ahead
  <2> QED BY <2>1, <2>2 DEF AheadInv, AnswerInv
<1> QED BY <1>1, <1>2

(* A node or leaf spans the keys of the leaves below it, of which it has one. *)
LEMMA LeafSpan ==
  ASSUME ReadsRight, NEW n \in Lasting \cup Leaves, NEW l \in Leaves, l \in Sub(node, n)
  PROVE  leaf[l].key \in Span(n)
<1>0. Grace /\ Ranked /\ Typed /\ leaf[l].key \in Words
  BY ReadsRightHas, LeafTyped
<1>1. CASE n \in Lasting
  <2>1. PICK i \in Slots : Belongs(leaf[l].key, n, i)
    BY <1>0, <1>1, BelowSpan
  <2>2. n \in Nodes
    BY <1>1 DEF Lasting
  <2> QED BY <1>0, <2>1, <2>2, SpanIn DEF Belongs
<1>2. CASE n \in Leaves
  <2>1. l = n
    BY <1>2, NullApart, SubOfLeaf
  <2> QED BY <1>2, <2>1 DEF Span
<1> QED BY <1>1, <1>2

LEMMA SpanHas ==
  ASSUME ReadsRight, NEW n \in Lasting \cup Leaves
  PROVE  \E x \in Leaves : x \in Sub(node, n) /\ leaf[x].key \in Span(n)
<1>1. CASE n \in Lasting
  <2>1. \E x \in Leaves : x \in Sub(node, n)
    BY <1>1, HasLeaf, ReadsRightHas DEF ReadsRight
  <2> QED BY <2>1, LeafSpan
<1>2. CASE n \in Leaves
  <2>1. n \in Sub(node, n)
    BY <1>2, NullApart, SubStarts
  <2> QED BY <1>2, <2>1, LeafSpan
<1> QED BY <1>1, <1>2

(* The nearest entry is not beyond what the reader meets. *)
LEMMA KidBound ==
  ASSUME ReadsRight, Live, Steady(call), NEW l, Best(l), Near(reader.query),
         NEW v \in Visited, v \in Lasting, NEW i \in Slots, NEW m, m = node[v].child[i], m # Null,
         AllOnSide(reader.query, Span(m)), \A a \in Span(m) : Closer(reader.query, a, leaf[l].key)
  PROVE  FALSE
<1>0. Grace /\ Ranked /\ Typed /\ ReaderTyped /\ v \in Nodes
  BY ReadsRightHas DEF Lasting
<1>1. m \in Lasting \cup Leaves
  BY <1>0, ChildSpan
<1>2. PICK x \in Leaves : x \in Sub(node, m) /\ leaf[x].key \in Span(m)
  BY <1>1, SpanHas
<1>3. m \in Met
  BY <1>0 DEF Met, Kids
<1>4. Below(x)
  BY <1>0, <1>2, <1>3, MetBelow
<1>5. OnSide(reader.query, leaf[x].key)
  BY <1>2 DEF AllOnSide
<1>6. ~ Closer(reader.query, leaf[x].key, leaf[l].key)
  BY <1>4, <1>5, BestBound
<1> QED BY <1>2, <1>6

LEMMA GetRight ==
  ASSUME ReadsRight, Live, Descend \/ CompareKey
  PROVE  AheadInv' /\ AnswerInv'
<1> DEFINE n == reader.at
<1>0. /\ reader.pc = "get" /\ UNCHANGED <<unread, call>> /\ Grace /\ Ranked /\ Typed
      /\ n \in Lasting \cup Leaves /\ reader.query[1] = "get"
  BY ReadsRightHas, Stands DEF Descend, CompareKey, ReadsRight, Spans
<1>1. \A l : Steady(call) /\ Best(l) => /\ l \in Sub(node, n) /\ l \in Leaves
                                        /\ leaf[l].key = Sought
  BY <1>0, BestIs DEF ReadsRight, AheadInv, Ahead, OnSide, Sought
<1>2. CASE Descend
  <2> DEFINE i == SliceIndex(Sought, node[n].shift)
             m == node[n].child[i]
  <2>1. n \in Lasting
    BY <1>0, <1>2, NullApart DEF Descend
  <2>2. ASSUME Steady(call), NEW l, Best(l)
        PROVE  m # Null /\ l \in Sub(node, m)
    <3>1. l \in Sub(node, n) /\ l \in Leaves /\ leaf[l].key = Sought
      BY <1>1, <2>2
    <3>2. PICK j \in Slots : /\ l \in Sub(node, node[n].child[j]) /\ Belongs(leaf[l].key, n, j)
                             /\ node[n].child[j] # Null
      <4> HIDE DEF n
      <4> QED BY <1>0, <2>1, <3>1, BelowSpan
    <3>3. j = i
      BY <3>1, <3>2 DEF Belongs
    <3> QED BY <3>2, <3>3
  <2>3. IF m = Null THEN Answered(Null) ELSE Visit("get", m, <<>>)
    BY <1>2 DEF Descend
  <2> HIDE DEF m
  <2>4. CASE m = Null
    BY <1>0, <2>2, <2>3, <2>4, AheadNull
  <2>5. CASE m # Null
    BY <1>0, <2>2, <2>3, <2>5, AheadVisit
  <2> QED BY <2>4, <2>5
<1>3. CASE CompareKey
  <2>1. n \in Leaves
    BY <1>3 DEF CompareKey
  <2>2. \A l : Steady(call) /\ Best(l) => l = n
    BY <1>1, <2>1, NullApart, SubOfLeaf
  <2>3. IF leaf[n].key = Sought THEN Visit("value", n, <<>>) ELSE Answered(Null)
    BY <1>3 DEF CompareKey
  <2> HIDE DEF n
  <2>4. CASE leaf[n].key = Sought
    BY <1>0, <2>2, <2>3, <2>4, AheadVisit
  <2>5. CASE leaf[n].key # Sought
    BY <1>0, <1>1, <2>2, <2>3, <2>5, AheadNull
  <2> QED BY <2>4, <2>5
<1> QED BY <1>2, <1>3

LEMMA RootRight ==
  ASSUME ReadsRight, Live, LoadRoot
  PROVE  AheadInv' /\ AnswerInv'
<1>0. UNCHANGED <<unread, call>>
  BY DEF LoadRoot
<1>1. \A l : Best(l) => l \in Sub(node, root)
  BY BestIs DEF Tree
<1>2. CASE root = Null
  <2>1. \A l : ~ Best(l)
    BY <1>1, <1>2, SubOfLeaf, NullApart
  <2> QED BY <1>0, <1>2, <2>1, AheadNull DEF LoadRoot
<1>3. CASE root # Null
  <2>1. PICK pc \in {"get", "near"} : Visit(pc, root, <<>>)
    BY <1>3 DEF LoadRoot
  <2> QED BY <1>0, <1>1, <2>1, AheadVisit
<1> QED BY <1>2, <1>3

LEMMA ValueRight ==
  ASSUME ReadsRight, Live, LoadValue
  PROVE  AheadInv' /\ AnswerInv'
<1> DEFINE x == reader.at
<1>0. /\ reader.pc = "value" /\ ReaderTyped /\ reader.at \in Visited
      /\ reader'.pc = "check" /\ reader'.res = leaf[x].value /\ call' = call
  BY ReadsRightHas, Stands DEF LoadValue, Answered
<1>1. x \in Leaves
  BY <1>0, ReaderCases
<1>2. OnSide(reader.query, leaf[x].key)
  BY <1>0 DEF ReadsRight, Spans
<1>3. Below(x)
  BY <1>0, <1>1, SubStarts, NullApart DEF Below
<1>4. Sees(call, leaf[x].key, leaf[x].value)
  BY <1>1, <1>2, <1>3 DEF ReadsRight, SeenInv
<1>5. Steady(call) => \A l : Best(l) => l = x
  BY <1>0 DEF ReadsRight, AheadInv, Ahead
<1>6. leaf[x].value \in Index!Answers(call)
  BY <1>1, <1>4, <1>5, ValueAnswer
<1>7. reader'.res \in Index!Answers(call')
  BY <1>0, <1>6
<1> QED BY <1>0, <1>7 DEF AheadInv, AnswerInv, Ahead

LEMMA NearAhead ==
  ASSUME ReadsRight, Live, reader.pc \in {"near", "edge", "again", "aside"}
  PROVE  /\ Near(reader.query) /\ Stacked(reader.query, reader.frames) /\ reader.frames \in Frames
         /\ Grace /\ Ranked /\ Typed /\ ReaderTyped
         /\ reader.pc # "aside" => /\ Before(reader.query, Span(reader.at), reader.frames)
                                   /\ reader.at \in Visited /\ reader.at \in Lasting \cup Leaves
         /\ reader.pc \in {"edge", "again"} => /\ AllOnSide(reader.query, Span(reader.at))
                                               /\ reader.at \in Lasting /\ reader.nib \in Slots
         /\ Steady(call) => \A l : Best(l) => Ahead(l)
BY NearKnows, ReadsRightHas DEF ReadsRight, AheadInv

(* A leaf in what the frames have to look for is farther than all before them. *)
LEMMA FramesFar ==
  ASSUME NEW query, NEW S, NEW frames, Before(query, S, frames), NEW l, InFrames(query, frames, l)
  PROVE  \A a \in S : Closer(query, a, leaf[l].key)
BY DEF Before, InFrames

LEMMA NearLeafRight ==
  ASSUME ReadsRight, Live, NearLeaf
  PROVE  AheadInv' /\ AnswerInv'
<1> DEFINE q == reader.query
           n == reader.at
           fs == reader.frames
<1>0. /\ reader.pc = "near" /\ UNCHANGED <<unread, call>> /\ n \in Leaves
      /\ IF Suits(leaf[n].key) THEN Visit("value", n, <<>>) ELSE ComeBack(fs)
  BY DEF NearLeaf
<1>1. /\ Near(q) /\ Before(q, Span(n), fs) /\ n \in Visited /\ Typed
      /\ Steady(call) => \A l : Best(l) => Ahead(l)
  BY <1>0, NearAhead
<1>2. Suits(leaf[n].key) <=> OnSide(q, leaf[n].key)
  BY <1>0, <1>1, LeafTyped, SuitsIs
<1>3. ASSUME Steady(call), NEW l, Best(l)
      PROVE  l = n \/ InFrames(q, fs, l)
  BY <1>0, <1>1, <1>3, NullApart, SubOfLeaf DEF Ahead
<1>4. CASE Suits(leaf[n].key)
  <2>1. ASSUME Steady(call), NEW l, Best(l)
        PROVE  l = n
    <3> SUFFICES ASSUME InFrames(q, fs, l)
                 PROVE  FALSE
      BY <1>3, <2>1
    <3>1. leaf[n].key \in Span(n)
      BY <1>0 DEF Span
    <3>2. Closer(q, leaf[n].key, leaf[l].key)
      BY <1>1, <3>1, FramesFar
    <3>3. Below(n)
      BY <1>0, <1>1, SubStarts, NullApart DEF Below
    <3> QED BY <1>0, <1>1, <1>2, <1>4, <2>1, <3>2, <3>3, BestBound
  <2> HIDE DEF n
  <2> QED BY <1>0, <1>4, <2>1, AheadVisit
<1>5. CASE ~ Suits(leaf[n].key)
  <2>1. ASSUME Steady(call), NEW l, Best(l)
        PROVE  InFrames(q, fs, l)
    BY <1>2, <1>3, <1>5, <2>1, BestIs
  <2>2. ComeBack(fs)
    BY <1>0, <1>5
  <2> QED BY <1>0, <2>1, <2>2, AheadBack
<1> QED BY <1>4, <1>5

LEMMA NearOutsideRight ==
  ASSUME ReadsRight, Live, NearOutside
  PROVE  AheadInv' /\ AnswerInv'
<1> DEFINE q == reader.query
           n == reader.at
           fs == reader.frames
<1>0. /\ reader.pc = "near" /\ UNCHANGED <<unread, call>> /\ n \in Nodes /\ ~ Inside(Sought, n)
      /\ IF Suits(node[n].path) THEN EdgeFrom(n, fs) ELSE ComeBack(fs)
  BY DEF NearOutside
<1>1. /\ Near(q) /\ n \in Lasting \cup Leaves /\ Typed
      /\ Steady(call) => \A l : Best(l) => Ahead(l)
  BY <1>0, NearAhead
<1>2. ASSUME Steady(call), NEW l, Best(l)
      PROVE  l \in Sub(node, n) \/ InFrames(q, fs, l)
  BY <1>0, <1>1, <1>2 DEF Ahead
<1>3. CASE Suits(node[n].path)
  <2>1. EdgeFrom(n, fs)
    BY <1>0, <1>3
  <2> QED BY <1>0, <1>1, <1>2, <2>1, AheadEdge
<1>4. CASE ~ Suits(node[n].path)
  <2>1. ASSUME Steady(call), NEW l, Best(l)
        PROVE  InFrames(q, fs, l)
    <3> SUFFICES ASSUME l \in Sub(node, n)
                 PROVE  FALSE
      BY <1>2, <2>1
    <3>1. l \in Leaves /\ OnSide(q, leaf[l].key) /\ leaf[l].key \in Nat
      BY <2>1, BestIs
    <3>2. leaf[l].key \in Span(n)
      BY <1>1, <3>1, LeafSpan
    <3>3. Inside(leaf[l].key, n)
      BY <1>0, <1>1, <3>2, SpanIn
    <3> QED BY <1>0, <1>1, <1>4, <3>1, <3>3, OutsideSuits
  <2>2. ComeBack(fs)
    BY <1>0, <1>4
  <2> QED BY <1>0, <2>1, <2>2, AheadBack
<1> QED BY <1>3, <1>4

LEMMA SidesOfSlice ==
  ASSUME Typed, NEW query, Near(query), NEW n \in Nodes, Inside(query[2], n),
         NEW a \in Words, Inside(a, n), OnSide(query, a)
  PROVE  \/ SliceIndex(a, node[n].shift) = SliceIndex(query[2], node[n].shift)
         \/ LeftOf(query, SliceIndex(a, node[n].shift), SliceIndex(query[2], node[n].shift))
<1> DEFINE i == SliceIndex(a, node[n].shift)
           j == SliceIndex(query[2], node[n].shift)
<1>1. query[2] \in Nat /\ a \in Nat /\ query[1] \in {"le", "ge"}
  BY QueryIs, WordsNat DEF Near
<1>2. i \in Nat /\ j \in Nat
  BY <1>1, SliceNat
<1>3. (i < j => a < query[2]) /\ (j < i => query[2] < a)
  BY <1>1, SliceOrder
<1> HIDE DEF i, j
<1>4. ASSUME query[1] = "le"
      PROVE  i = j \/ LeftOf(query, i, j)
  BY <1>1, <1>2, <1>3, <1>4 DEF OnSide, LeftOf
<1>5. ASSUME query[1] = "ge"
      PROVE  i = j \/ LeftOf(query, i, j)
  BY <1>1, <1>2, <1>3, <1>5 DEF OnSide, LeftOf
<1>6. i = j \/ LeftOf(query, i, j)
  BY <1>1, <1>4, <1>5
<1> QED BY <1>6 DEF i, j

LEMMA FramesMore ==
  ASSUME NEW query, NEW frames \in Frames, NEW frame, NEW l
  PROVE  /\ InFrames(query, frames, l) => InFrames(query, Append(frames, frame), l)
         /\ l \in Sub(node, frame.node) /\ leaf[l].key \in Rest(query, frame)
              => InFrames(query, Append(frames, frame), l)
<1> DEFINE more == Append(frames, frame)
           n == Len(frames)
<1>1. n \in Nat /\ DOMAIN frames = 1 .. n /\ DOMAIN more = 1 .. n + 1
  BY DEF Frames
<1>2. more[n + 1] = frame /\ \A i \in 1 .. n : more[i] = frames[i]
  BY DEF Frames
<1> HIDE DEF more, n
<1>3. InFrames(query, frames, l) => InFrames(query, more, l)
  <2> SUFFICES ASSUME InFrames(query, frames, l)
               PROVE  InFrames(query, more, l)
    OBVIOUS
  <2>1. PICK i \in DOMAIN frames : l \in Sub(node, frames[i].node) /\ leaf[l].key \in Rest(query, frames[i])
    BY DEF InFrames
  <2>2. i \in DOMAIN more /\ more[i] = frames[i]
    BY <1>1, <1>2
  <2> QED BY <2>1, <2>2 DEF InFrames
<1>4. l \in Sub(node, frame.node) /\ leaf[l].key \in Rest(query, frame) => InFrames(query, more, l)
  <2>1. n + 1 \in DOMAIN more
    BY <1>1
  <2> QED BY <1>2, <2>1 DEF InFrames
<1> QED BY <1>3, <1>4 DEF more

LEMMA NearInsideRight ==
  ASSUME ReadsRight, Live, NearInside
  PROVE  AheadInv' /\ AnswerInv'
<1> DEFINE q == reader.query
           n == reader.at
           fs == reader.frames
           nib == SliceIndex(Sought, node[n].shift)
           frame == [node |-> n, nib |-> nib]
           m == node[n].child[nib]
           more == Append(fs, frame)
<1>0. /\ reader.pc = "near" /\ UNCHANGED <<unread, call>> /\ n \in Nodes /\ Inside(Sought, n)
      /\ IF m = Null THEN ComeBack(more) ELSE Visit("near", m, more)
  BY DEF NearInside
<1>1. /\ Near(q) /\ n \in Lasting /\ Typed /\ Grace /\ Ranked /\ fs \in Frames
      /\ Steady(call) => \A l : Best(l) => Ahead(l)
  BY <1>0, NearAhead, NullApart
<1>2. Sought = q[2]
  BY DEF Sought
<1>3. ASSUME Steady(call), NEW l, Best(l)
      PROVE  (m # Null /\ l \in Sub(node, m)) \/ InFrames(q, more, l)
  <2>1. l \in Sub(node, n) \/ InFrames(q, fs, l)
    BY <1>0, <1>1, <1>3 DEF Ahead
  <2>2. CASE InFrames(q, fs, l)
    <3> HIDE DEF q, fs, frame
    <3> QED BY <1>1, <2>2, FramesMore
  <2>3. CASE l \in Sub(node, n)
    <3>1. l \in Leaves /\ OnSide(q, leaf[l].key) /\ leaf[l].key \in Words
      BY <1>3, BestIs
    <3>2. PICK i \in Slots : /\ l \in Sub(node, node[n].child[i]) /\ Belongs(leaf[l].key, n, i)
                             /\ node[n].child[i] # Null
      <4> HIDE DEF n
      <4> QED BY <1>1, <2>3, <3>1, BelowSpan
    <3>3. Inside(leaf[l].key, n) /\ SliceIndex(leaf[l].key, node[n].shift) = i
      BY <3>2 DEF Belongs
    <3>4. i = nib \/ LeftOf(q, i, nib)
      <4> HIDE DEF q, n
      <4> QED BY <1>0, <1>1, <1>2, <3>1, <3>3, SidesOfSlice
    <3>5. CASE i = nib
      BY <3>2, <3>5
    <3>6. CASE LeftOf(q, i, nib)
      <4>1. leaf[l].key \in Rest(q, frame) /\ frame.node = n
        BY <3>1, <3>3, <3>6 DEF Rest
      <4> HIDE DEF q, fs, frame
      <4> QED BY <1>1, <2>3, <4>1, FramesMore
    <3> QED BY <3>4, <3>5, <3>6
  <2> QED BY <2>1, <2>2, <2>3
<1>00. q = reader.query
  OBVIOUS
<1> HIDE DEF q, n, fs, nib, frame, m, more
<1>4. CASE m = Null
  <2>1. \A l : Steady(call) /\ Best(l) => InFrames(reader.query, more, l)
    BY <1>00, <1>3, <1>4
  <2> QED BY <1>0, <1>4, <2>1, AheadBack
<1>5. CASE m # Null
  <2>1. \A l : Steady(call) /\ Best(l) => l \in Sub(node, m) \/ InFrames(reader.query, more, l)
    BY <1>00, <1>3
  <2> QED BY <1>0, <1>5, <2>1, AheadVisit
<1> QED BY <1>4, <1>5

LEMMA AsideRight ==
  ASSUME ReadsRight, Live, Aside
  PROVE  AheadInv' /\ AnswerInv'
<1> DEFINE q == reader.query
           fs == reader.frames
           last == Len(fs)
           frame == fs[last]
           v == frame.node
           outer == SubSeq(fs, 1, last - 1)
           next == IF q[1] = "le" THEN frame.nib - 1 ELSE frame.nib + 1
           m == node[v].child[next]
           moved == [frame EXCEPT !.nib = next]
           end == IF q[1] = "le" THEN 0 ELSE Nib
<1>00. q = reader.query
  OBVIOUS
<1>0. reader.pc = "aside" /\ UNCHANGED <<unread, call>>
  BY DEF Aside
<1>1. /\ Near(q) /\ Stacked(q, fs) /\ fs \in Frames /\ Grace /\ Ranked /\ Typed
      /\ Steady(call) => \A l : Best(l) => Ahead(l)
  BY <1>0, NearAhead
<1>2. fs # <<>> /\ ReaderInv
  BY <1>0, <1>1, Stands, ReadsRightHas
<1>3. /\ AllOnSide(q, Rest(q, frame)) /\ Before(q, Rest(q, frame), outer)
      /\ last \in DOMAIN fs /\ \A i \in DOMAIN outer : outer[i] = fs[i]
      /\ \A i \in DOMAIN fs : i = last \/ i \in DOMAIN outer
  <2>1. PICK f : f = frame
    OBVIOUS
  <2>2. f = fs[last] /\ last = Len(fs) /\ outer = SubSeq(fs, 1, last - 1)
    BY <2>1
  <2>3. /\ AllOnSide(q, Rest(q, f)) /\ Before(q, Rest(q, f), outer)
        /\ last \in DOMAIN fs /\ \A i \in DOMAIN outer : outer[i] = fs[i]
        /\ \A i \in DOMAIN fs : i = last \/ i \in DOMAIN outer
    <3>1. fs \in Frames /\ fs # <<>> /\ Stacked(q, fs)
      BY <1>1, <1>2
    <3> HIDE DEF q, fs, last, outer, frame
    <3>2. AllOnSide(q, Rest(q, fs[last])) /\ Before(q, Rest(q, fs[last]), outer)
      BY <2>2, <3>1, StackedLess
    <3>3. last \in DOMAIN fs
      BY <2>2, <3>1, StackedLess
    <3>4. \A i \in DOMAIN outer : outer[i] = fs[i]
      BY <2>2, <3>1, StackedLess
    <3>5. \A i \in DOMAIN fs : i = last \/ i \in DOMAIN outer
      BY <2>2, <3>1, StackedLess
    <3> QED BY <2>2, <3>2, <3>3, <3>4, <3>5
  <2> HIDE DEF q, fs, last, outer, frame
  <2> QED BY <2>1, <2>3
<1>4. outer \in Frames
  <2> HIDE DEF fs
  <2> QED BY <1>1, <1>2, FramesOuter
<1>5. frame \in [node : Nodes, nib : Slots] /\ v \in Lasting /\ v \in Visited
  BY <1>0, <1>1, <1>2, <1>3, Stands
<1>6. v \in Nodes /\ frame.nib \in Slots
  BY <1>5
<1>7. IF frame.nib = end THEN ComeBack(outer)
      ELSE IF m = Null THEN ComeBack(Append(outer, moved))
      ELSE IF m \in Leaves THEN Visit("value", m, <<>>)
      ELSE EdgeFrom(m, outer)
  BY DEF Aside, Downward
(* The nearest entry is in the top frame or in an outer one. *)
<1>8. ASSUME Steady(call), NEW l, Best(l)
      PROVE  \/ l \in Sub(node, v) /\ leaf[l].key \in Rest(q, frame)
             \/ InFrames(q, outer, l)
  <2>1. InFrames(q, fs, l)
    BY <1>0, <1>1, <1>8 DEF Ahead
  <2>2. PICK i \in DOMAIN fs : l \in Sub(node, fs[i].node) /\ leaf[l].key \in Rest(q, fs[i])
    BY <2>1 DEF InFrames
  <2>3. CASE i = last
    BY <2>2, <2>3
  <2>4. CASE i \in DOMAIN outer
    <3>1. outer[i] = fs[i]
      BY <1>3, <2>4
    <3>2. l \in Sub(node, outer[i].node) /\ leaf[l].key \in Rest(q, outer[i])
      BY <2>2, <3>1
    <3> HIDE DEF q, outer
    <3> QED BY <2>4, <3>2 DEF InFrames
  <2> QED BY <1>3, <2>3, <2>4
<1>9. CASE frame.nib = end
  <2>1. ASSUME Steady(call), NEW l, Best(l)
        PROVE  InFrames(q, outer, l)
    <3> SUFFICES ASSUME leaf[l].key \in Rest(q, frame)
                 PROVE  FALSE
      BY <1>8, <2>1
    <3>1. LeftOf(q, SliceIndex(leaf[l].key, node[v].shift), frame.nib) /\ leaf[l].key \in Words
      BY DEF Rest
    <3>2. SliceIndex(leaf[l].key, node[v].shift) \in Slots
      BY <1>1, <1>6, <3>1, SliceOf
    <3> HIDE DEF q, frame, v
    <3> QED BY <1>1, <1>6, <1>9, <3>1, <3>2, LastSlot
  <2>2. ComeBack(outer)
    BY <1>7, <1>9
  <2> HIDE DEF q, outer
  <2> QED BY <1>0, <1>00, <2>1, <2>2, AheadBack
<1>10. CASE frame.nib # end
  <2>1. /\ next \in Slots /\ LeftOf(q, next, frame.nib) /\ moved.node = v
        /\ \A a \in Rest(q, frame) : a \in Rest(q, moved) \/ SliceIndex(a, node[v].shift) = next
        /\ \A a \in Rest(q, moved) : LeftOf(q, SliceIndex(a, node[v].shift), next)
    <3> HIDE DEF q, frame
    <3> QED BY <1>1, <1>5, <1>10, RestMoves
  <2>2. ASSUME NEW l, l \in Leaves, l \in Sub(node, v), leaf[l].key \in Rest(q, frame),
               leaf[l].key \notin Rest(q, moved)
        PROVE  m # Null /\ l \in Sub(node, m)
    <3>1. PICK i \in Slots : /\ l \in Sub(node, node[v].child[i]) /\ Belongs(leaf[l].key, v, i)
                             /\ node[v].child[i] # Null
      <4> HIDE DEF v
      <4> QED BY <1>1, <1>5, <2>2, BelowSpan
    <3>2. i = next
      BY <2>1, <2>2, <3>1 DEF Belongs
    <3> QED BY <3>1, <3>2
  <2>3. ASSUME Steady(call), NEW l, Best(l)
        PROVE  \/ m # Null /\ l \in Sub(node, m)
               \/ l \in Sub(node, v) /\ leaf[l].key \in Rest(q, moved)
               \/ InFrames(q, outer, l)
    <3>1. l \in Leaves
      BY <2>3, BestIs
    <3> HIDE DEF m, v, q, moved, outer, frame
    <3> QED BY <1>8, <2>2, <2>3, <3>1
  <2>4. CASE m = Null
    <3>1. ASSUME Steady(call), NEW l, Best(l)
          PROVE  InFrames(q, Append(outer, moved), l)
      <4>1. \/ l \in Sub(node, moved.node) /\ leaf[l].key \in Rest(q, moved)
            \/ InFrames(q, outer, l)
        BY <2>1, <2>3, <2>4, <3>1
      <4> HIDE DEF q, outer, moved
      <4> QED BY <1>4, <4>1, FramesMore
    <3>2. ComeBack(Append(outer, moved))
      BY <1>7, <1>10, <2>4
    <3> HIDE DEF q, outer, moved
    <3> QED BY <1>0, <1>00, <3>1, <3>2, AheadBack
  <2>5. CASE m # Null
    <3>1. Span(m) \subseteq Rest(q, frame)
      <4> HIDE DEF q, frame, next
      <4> QED BY <1>1, <1>5, <2>1, <2>5, BesideSpan
    <3>2. AllOnSide(q, Span(m)) /\ Before(q, Span(m), outer)
      <4> HIDE DEF q, frame, m, outer
      <4> QED BY <1>3, <3>1 DEF AllOnSide, Before
    <3>3. \A a \in Span(m) : a \in Words /\ Belongs(a, v, next)
      <4> HIDE DEF v, next
      <4> QED BY <1>1, <1>5, <2>1, <2>5, ChildSpan
    <3>4. m \in Nodes \cup Leaves
      <4> HIDE DEF v, next
      <4> QED BY <1>1, <1>6, <2>1, <2>5, KidIs
    (* What is met beside is the nearest entry, or it is below that. *)
    <3>5. ASSUME Steady(call), NEW l, Best(l), \A a \in Span(m) : Closer(q, a, leaf[l].key)
          PROVE  FALSE
      <4> HIDE DEF v, next, m, q
      <4>1. m = node[v].child[next]
        BY DEF m
      <4> QED BY <1>00, <1>1, <1>5, <2>1, <2>5, <3>2, <3>5, <4>1, KidBound
    <3>6. ASSUME Steady(call), NEW l, Best(l)
          PROVE  l \in Sub(node, m)
      <4>1. CASE leaf[l].key \in Rest(q, moved)
        <5>1. ASSUME NEW a \in Span(m)
              PROVE  Closer(q, a, leaf[l].key)
          <6>1. a \in Nat /\ Inside(a, v) /\ SliceIndex(a, node[v].shift) = next
            BY <3>3, WordsNat DEF Belongs
          <6>2. /\ leaf[l].key \in Nat /\ Inside(leaf[l].key, v)
                /\ LeftOf(q, SliceIndex(leaf[l].key, node[v].shift), next)
            <7>1. leaf[l].key \in Words /\ Inside(leaf[l].key, moved.node)
              BY <4>1 DEF Rest
            <7> HIDE DEF moved, v
            <7> QED BY <2>1, <4>1, <7>1, WordsNat
          <6> HIDE DEF v, next, q
          <6> QED BY <1>1, <1>6, <6>1, <6>2, LeftLater
        <5> QED BY <3>5, <3>6, <5>1
      <4>2. CASE InFrames(q, outer, l)
        <5>1. \A a \in Span(m) : Closer(q, a, leaf[l].key)
          <6> HIDE DEF q, m, outer
          <6> QED BY <3>2, <4>2, FramesFar
        <5> QED BY <3>5, <3>6, <5>1
      <4> HIDE DEF m, v, q, moved, outer, frame
      <4> QED BY <2>3, <3>6, <4>1, <4>2
    <3>7. IF m \in Leaves THEN Visit("value", m, <<>>) ELSE EdgeFrom(m, outer)
      BY <1>7, <1>10, <2>5
    <3> HIDE DEF q, m, outer
    <3>8. CASE m \in Leaves
      <4>1. ASSUME Steady(call), NEW l, Best(l)
            PROVE  l = m
        BY <3>6, <3>8, <4>1, NullApart, SubOfLeaf
      <4> QED BY <1>0, <3>7, <3>8, <4>1, AheadVisit
    <3>9. CASE m \notin Leaves
      <4>1. m \in Nodes /\ EdgeFrom(m, outer) /\ Near(reader.query)
        BY <1>00, <1>1, <3>4, <3>7, <3>9
      <4> QED BY <1>0, <3>6, <4>1, AheadEdge
    <3> QED BY <3>8, <3>9
  <2> QED BY <2>4, <2>5
<1> QED BY <1>9, <1>10

LEMMA EdgeNextRight ==
  ASSUME ReadsRight, Live, reader.pc \in {"edge", "again"}, UNCHANGED <<unread, call>>,
         NEW m, m = node[reader.at].child[reader.nib], m # Null, EdgeNext(m)
  PROVE  AheadInv' /\ AnswerInv'
<1> DEFINE q == reader.query
           fs == reader.frames
           n == reader.at
           nib == reader.nib
<1>1. /\ Near(q) /\ Before(q, Span(n), fs) /\ Grace /\ Ranked /\ Typed
      /\ AllOnSide(q, Span(n)) /\ n \in Lasting /\ nib \in Slots /\ n \in Visited
      /\ Steady(call) => \A l : Best(l) => Ahead(l)
  BY NearAhead
<1>2. n \in Nodes
  BY <1>1 DEF Lasting
<1>3. m = node[n].child[nib]
  OBVIOUS
<1>4. /\ \A a \in Span(m) : a \in Words /\ Belongs(a, n, nib)
      /\ m \in Nodes \cup Leaves
  <2> HIDE DEF n, nib
  <2> QED BY <1>1, <1>2, <1>3, ChildSpan, KidIs
<1>5. Span(m) \subseteq Span(n)
  BY <1>1, <1>2, <1>4, SpanIn DEF Belongs
<1>6. AllOnSide(q, Span(m)) /\ Before(q, Span(m), fs)
  BY <1>1, <1>5 DEF AllOnSide, Before
<1>7. ASSUME Steady(call), NEW l, Best(l), \A a \in Span(m) : Closer(q, a, leaf[l].key)
      PROVE  FALSE
  BY <1>1, <1>3, <1>6, <1>7, KidBound
<1>8. ASSUME Steady(call), NEW l, Best(l)
      PROVE  l \in Sub(node, m)
  <2>1. Turn(q, n, nib, l) \/ InFrames(q, fs, l)
    BY <1>1, <1>8 DEF Ahead
  <2>2. l \in Leaves /\ leaf[l].key \in Nat
    BY <1>8, BestIs
  <2>3. CASE InFrames(q, fs, l)
    BY <1>6, <1>7, <1>8, <2>3, FramesFar
  <2>4. CASE Turn(q, n, nib, l)
    <3>1. l \in Sub(node, n)
      BY <2>4 DEF Turn
    <3>2. PICK i \in Slots : l \in Sub(node, node[n].child[i]) /\ Belongs(leaf[l].key, n, i)
      <4> HIDE DEF n
      <4> QED BY <1>1, <2>2, <3>1, BelowSpan
    <3>3. Inside(leaf[l].key, n) /\ SliceIndex(leaf[l].key, node[n].shift) = i
      BY <3>2 DEF Belongs
    <3>4. i = nib \/ LeftOf(q, i, nib)
      BY <2>4, <3>3 DEF Turn
    <3>5. CASE i = nib
      BY <1>3, <3>2, <3>5
    <3>6. CASE LeftOf(q, i, nib)
      <4>1. ASSUME NEW a \in Span(m)
            PROVE  Closer(q, a, leaf[l].key)
        <5>1. a \in Nat /\ Inside(a, n) /\ SliceIndex(a, node[n].shift) = nib
          BY <1>4, WordsNat DEF Belongs
        <5> HIDE DEF n, nib, q
        <5> QED BY <1>1, <1>2, <2>2, <3>3, <3>6, <5>1, LeftLater
      <4> QED BY <1>7, <1>8, <4>1
    <3> QED BY <3>4, <3>5, <3>6
  <2> QED BY <2>1, <2>3, <2>4
<1>9. IF m \in Leaves THEN Visit("value", m, <<>>) ELSE EdgeFrom(m, fs)
  BY DEF EdgeNext
<1>10. CASE m \in Leaves
  <2>1. ASSUME Steady(call), NEW l, Best(l)
        PROVE  l = m
    BY <1>8, <1>10, <2>1, NullApart, SubOfLeaf
  <2> QED BY <1>9, <1>10, <2>1, AheadVisit
<1>11. CASE m \notin Leaves
  <2>1. m \in Nodes /\ EdgeFrom(m, fs)
    BY <1>4, <1>9, <1>11
  <2> QED BY <1>1, <1>8, <2>1, AheadEdge
<1> QED BY <1>10, <1>11

(* An empty slot is passed by. *)
LEMMA EdgeEmpty ==
  ASSUME ReadsRight, Live, reader.pc \in {"edge", "again"},
         node[reader.at].child[reader.nib] = Null, Steady(call), NEW l, Best(l)
  PROVE  \/ /\ l \in Sub(node, reader.at)
            /\ LeftOf(reader.query, SliceIndex(leaf[l].key, node[reader.at].shift), reader.nib)
            /\ SliceIndex(leaf[l].key, node[reader.at].shift) \in Slots
         \/ InFrames(reader.query, reader.frames, l)
<1> DEFINE q == reader.query
           fs == reader.frames
           n == reader.at
           nib == reader.nib
<1>1. /\ Grace /\ Ranked /\ Typed /\ n \in Lasting /\ nib \in Slots /\ Ahead(l)
  BY NearAhead
<1>2. Turn(q, n, nib, l) \/ InFrames(q, fs, l)
  BY <1>1 DEF Ahead
<1>3. l \in Leaves
  BY BestIs
<1>4. ASSUME Turn(q, n, nib, l)
      PROVE  /\ l \in Sub(node, n)
             /\ LeftOf(q, SliceIndex(leaf[l].key, node[n].shift), nib)
             /\ SliceIndex(leaf[l].key, node[n].shift) \in Slots
  <2>1. l \in Sub(node, n)
    BY <1>4 DEF Turn
  <2>2. PICK i \in Slots : Belongs(leaf[l].key, n, i) /\ node[n].child[i] # Null
    <3> HIDE DEF n
    <3> QED BY <1>1, <1>3, <2>1, BelowSpan
  <2>3. SliceIndex(leaf[l].key, node[n].shift) = i /\ i # nib
    BY <2>2 DEF Belongs
  <2> QED BY <1>4, <2>1, <2>2, <2>3 DEF Turn
<1> QED BY <1>2, <1>4

LEMMA EdgeRight ==
  ASSUME ReadsRight, Live, EdgeScan \/ EdgeAgain
  PROVE  AheadInv' /\ AnswerInv'
<1> DEFINE q == reader.query
           fs == reader.frames
           n == reader.at
           nib == reader.nib
           m == node[n].child[nib]
<1>0. reader.pc \in {"edge", "again"} /\ UNCHANGED <<unread, call>>
  BY DEF EdgeScan, EdgeAgain
<1>1. Near(q) /\ Typed /\ nib \in Slots /\ n \in Lasting /\ ReaderTyped
  BY <1>0, NearAhead
<1>2. reader \in [pc : {"edge", "again"}, query : Queries, wrs1 : Nat,
                  at : Nodes, frames : Frames, nib : Slots]
  BY <1>0, <1>1, ReaderCases
<1>3. ASSUME m # Null, EdgeNext(m)
      PROVE  AheadInv' /\ AnswerInv'
  BY <1>0, <1>3, EdgeNextRight
<1>4. ASSUME NEW x, reader'.nib = x, reader'.query = q, reader'.frames = fs, reader'.at = n,
             reader'.pc \in {"edge", "again"},
             \A l : Steady(call) /\ Best(l) => Turn(q, n, x, l) \/ InFrames(q, fs, l)
      PROVE  AheadInv' /\ AnswerInv'
  <2>1. ASSUME Steady(call)', NEW l, Best(l)'
        PROVE  Ahead(l)'
    <3>1. Steady(call) /\ Best(l)
      BY <1>0, <1>4, <2>1, BestSame
    <3>2. \A c, d, e : (Turn(c, d, e, l)' <=> Turn(c, d, e, l)) /\ (InFrames(c, d, l)' <=> InFrames(c, d, l))
      BY <1>0, <1>4, BestSame
    <3>3. Turn(q, n, x, l) \/ InFrames(q, fs, l)
      BY <1>4, <3>1
    <3>4. PICK c, d, e : c = q /\ d = n /\ e = fs
      OBVIOUS
    <3>5. Turn(c, d, x, l)' \/ InFrames(c, e, l)'
      BY <3>2, <3>3, <3>4
    <3>6. reader'.nib = x /\ reader'.query = c /\ reader'.frames = e /\ reader'.at = d
      BY <1>4, <3>4
    <3> QED BY <1>4, <3>5, <3>6 DEF Ahead
  <2> QED BY <1>4, <2>1 DEF AheadInv, AnswerInv
<1>5. ASSUME m = Null, Steady(call), NEW l, Best(l)
      PROVE  \/ /\ l \in Sub(node, n) /\ LeftOf(q, SliceIndex(leaf[l].key, node[n].shift), nib)
                /\ SliceIndex(leaf[l].key, node[n].shift) \in Slots
             \/ InFrames(q, fs, l)
  BY <1>0, <1>5, EdgeEmpty
<1>6. CASE EdgeScan
  <2>1. CASE m # Null
    <3>1. EdgeNext(m) \/ reader' = [reader EXCEPT !.pc = "again"]
      BY <1>6, <2>1 DEF EdgeScan
    <3>2. CASE reader' = [reader EXCEPT !.pc = "again"]
      <4>1. /\ reader'.nib = reader.nib /\ reader'.query = q /\ reader'.frames = fs /\ reader'.at = n
            /\ reader'.pc = "again"
        BY <1>2, <3>2
      <4>2. \A l : Steady(call) /\ Best(l) => Turn(q, n, nib, l) \/ InFrames(q, fs, l)
        BY <1>0, NearAhead DEF Ahead
      <4>3. PICK x : x = nib
        OBVIOUS
      <4> QED BY <1>4, <4>1, <4>2, <4>3
    <3> QED BY <1>3, <2>1, <3>1, <3>2
  <2>2. CASE m = Null /\ nib = (IF q[1] = "le" THEN 0 ELSE Nib)
    <3>1. ComeBack(fs)
      BY <1>6, <2>2 DEF EdgeScan, Downward
    <3>2. \A i \in Slots : ~ LeftOf(q, i, nib)
      <4> HIDE DEF q, nib
      <4> QED BY <1>1, <2>2, LastSlot
    <3>3. ASSUME Steady(call), NEW l, Best(l)
          PROVE  InFrames(q, fs, l)
      BY <1>5, <2>2, <3>2, <3>3
    <3> QED BY <1>0, <3>1, <3>3, AheadBack
  <2>3. CASE m = Null /\ nib # (IF q[1] = "le" THEN 0 ELSE Nib)
    <3>1. PICK x : x = IF q[1] = "le" THEN nib - 1 ELSE nib + 1
      OBVIOUS
    <3>2. reader' = [reader EXCEPT !.nib = x] /\ reader.pc = "edge"
      BY <1>6, <2>3, <3>1 DEF EdgeScan, Downward
    <3>3. /\ reader'.nib = x /\ reader'.query = q /\ reader'.frames = fs /\ reader'.at = n
          /\ reader'.pc = "edge"
      BY <1>2, <3>2
    <3>4. \A i \in Slots : LeftOf(q, i, nib) <=> i = x \/ LeftOf(q, i, x)
      <4> HIDE DEF q, nib
      <4> QED BY <1>1, <2>3, <3>1, NextSlot
    <3>5. ASSUME Steady(call), NEW l, Best(l)
          PROVE  Turn(q, n, x, l) \/ InFrames(q, fs, l)
      <4>1. \/ /\ l \in Sub(node, n) /\ LeftOf(q, SliceIndex(leaf[l].key, node[n].shift), nib)
               /\ SliceIndex(leaf[l].key, node[n].shift) \in Slots
            \/ InFrames(q, fs, l)
        BY <1>5, <2>3, <3>5
      <4> HIDE DEF q, n, nib, fs
      <4> QED BY <3>4, <4>1 DEF Turn
    <3> QED BY <1>4, <3>3, <3>5
  <2> QED BY <2>1, <2>2, <2>3
<1>7. CASE EdgeAgain
  <2>1. CASE m = Null
    <3>1. reader' = [pc |-> "fault"]
      BY <1>7, <2>1 DEF EdgeAgain
    <3> QED BY <3>1 DEF AheadInv, AnswerInv, Ahead
  <2>2. CASE m # Null
    BY <1>3, <1>7, <2>2 DEF EdgeAgain
  <2> QED BY <2>1, <2>2
<1> QED BY <1>6, <1>7

(* A walk keeps the nearest entry ahead, and ends with an answer. *)
LEMMA WalkRight ==
  ASSUME ReadsRight, Walk
  PROVE  AheadInv' /\ AnswerInv'
<1>1. CASE ~ Live'
  BY <1>1 DEF AheadInv, AnswerInv
<1>2. CASE CountAgain \/ Restart \/ Return
  <2>1. reader'.pc \in {"root", "start", "done"}
    BY <1>2 DEF CountAgain, Restart, Return
  <2> QED BY <2>1 DEF AheadInv, AnswerInv, Ahead
<1>3. CASE Live' /\ ~ (CountAgain \/ Restart \/ Return)
  <2>1. Live
    BY <1>3, ReadsRightHas, WalkLive
  <2>2. CASE LoadRoot
    BY <2>1, <2>2, RootRight
  <2>3. CASE Descend \/ CompareKey
    BY <2>1, <2>3, GetRight
  <2>4. CASE NearLeaf
    BY <2>1, <2>4, NearLeafRight
  <2>5. CASE NearOutside
    BY <2>1, <2>5, NearOutsideRight
  <2>6. CASE NearInside
    BY <2>1, <2>6, NearInsideRight
  <2>7. CASE Aside
    BY <2>1, <2>7, AsideRight
  <2>8. CASE EdgeScan \/ EdgeAgain
    BY <2>1, <2>8, EdgeRight
  <2>9. CASE LoadValue
    BY <2>1, <2>9, ValueRight
  <2> QED BY <1>3, <2>2, <2>3, <2>4, <2>5, <2>6, <2>7, <2>8, <2>9 DEF Walk
<1> QED BY <1>1, <1>2, <1>3

(* A call that begins, or has ended, stands nowhere yet. *)
LEMMA OutsideRight ==
  ASSUME (\E query \in Queries : Ask(query)) \/ Leave
  PROVE  Spans' /\ AheadInv' /\ AnswerInv'
<1>1. reader'.pc \in {"root", "idle"}
  BY DEF Ask, Leave, Idle
<1> QED BY <1>1 DEF Spans, AheadInv, AnswerInv, Ahead

(***************************************************************************)
(* The steps of the writers                                                *)
(***************************************************************************)
(* Where a reader stands keeps its shape as long as the answer may count. *)
LEMMA VisitedShape ==
  ASSUME Grace, ReaderInv, Live, [Next]_vars
  PROVE  \A x \in Visited :
            /\ x \in Nodes => node'[x].path = node[x].path /\ node'[x].shift = node[x].shift
            /\ x \in Leaves => leaf'[x].key = leaf[x].key
<1>1. KeepsShape
  BY NextKeepsShape DEF Grace
<1>2. PICK w \in Nat : /\ removeCount < w
                       /\ \A x \in Visited : x \in Nodes \cup Leaves /\ Safe(x, w)
  BY LiveIs
<1>3. \A x \in Visited : x \in Tree \cup Resting \cup InHand
  BY <1>2, SafeApart
<1> QED BY <1>1, <1>3 DEF KeepsShape

(* What the frames have to look for stays the same. *)
LEMMA FramesShape ==
  ASSUME Grace, ReaderInv, Live, [Next]_vars, reader.pc \in {"near", "edge", "again", "aside"},
         NEW q, NEW f, f = reader.frames
  PROVE  \A i \in DOMAIN f : /\ f[i].node \in Visited /\ f[i].node \in Lasting
                             /\ Rest(q, f[i])' = Rest(q, f[i])
<1> SUFFICES ASSUME NEW i \in DOMAIN f
             PROVE  /\ f[i].node \in Visited /\ f[i].node \in Lasting
                    /\ Rest(q, f[i])' = Rest(q, f[i])
  OBVIOUS
<1>1. f[i].node \in Visited /\ f[i].node \in Lasting
  BY Stands
<1>2. PICK g : g = f[i]
  OBVIOUS
<1>3. node'[g.node].path = node[g.node].path /\ node'[g.node].shift = node[g.node].shift
  BY <1>1, <1>2, VisitedShape DEF Lasting
<1>4. Rest(q, g)' = Rest(q, g)
  BY <1>3, RestSame
<1> QED BY <1>1, <1>2, <1>4

LEMMA WriterSpans ==
  ASSUME Grace, ReaderInv, Spans, [Next]_vars, UNCHANGED reader
  PROVE  Spans'
<1> SUFFICES ASSUME Live'
             PROVE  Spans'
  BY DEF Spans
<1>1. Live
  BY LiveEarlier
<1>2. PICK q, f, p : q = reader.query /\ f = reader.frames /\ p = reader.at
  OBVIOUS
<1>3. ASSUME reader.pc \in {"near", "edge", "again", "aside"}
      PROVE  /\ Near(q)' /\ Stacked(q, f)'
             /\ \A S : Before(q, S, f)' <=> Before(q, S, f)
  <2>1. \A i \in DOMAIN f : Rest(q, f[i])' = Rest(q, f[i])
    BY <1>1, <1>2, <1>3, FramesShape
  <2>2. Near(q) /\ Stacked(q, f)
    BY <1>1, <1>2, <1>3 DEF Spans
  <2> QED BY <2>1, <2>2, FramesSame DEF Near
<1>4. ASSUME reader.pc \in {"near", "edge", "again"}
      PROVE  Span(p)' = Span(p)
  <2>1. p \in Visited /\ p \in Lasting \cup Leaves
    BY <1>1, <1>2, <1>4, Stands
  <2>2. /\ p \in Leaves => leaf'[p].key = leaf[p].key
        /\ p \in Nodes => node'[p].path = node[p].path /\ node'[p].shift = node[p].shift
    BY <1>1, <2>1, VisitedShape
  <2> QED BY <2>1, <2>2 DEF Span, Inside, Lasting
<1>5. ASSUME reader.pc \in {"near", "edge", "again"}
      PROVE  Before(q, Span(p), f)'
  <2>1. PICK S : S = Span(p)
    OBVIOUS
  <2>2. Before(q, S, f)'
    BY <1>1, <1>2, <1>3, <1>5, <2>1 DEF Spans
  <2> QED BY <1>4, <1>5, <2>1, <2>2
<1>6. ASSUME reader.pc \in {"edge", "again"}
      PROVE  AllOnSide(q, Span(p))'
  <2>1. AllOnSide(q, Span(p))
    BY <1>1, <1>2, <1>6 DEF Spans
  <2> QED BY <1>4, <1>6, <2>1 DEF AllOnSide, OnSide
<1>7. ASSUME reader.pc = "value"
      PROVE  OnSide(q, leaf'[p].key)
  <2>1. p \in Visited /\ p \in Leaves
    BY <1>1, <1>2, <1>7, Stands, ReaderCases DEF ReaderInv
  <2>2. OnSide(q, leaf[p].key)
    BY <1>1, <1>2, <1>7 DEF Spans
  <2> QED BY <1>1, <2>1, <2>2, VisitedShape
<1>8. reader.pc = "get" => q[1] = "get"
  BY <1>1, <1>2 DEF Spans
<1>9. q = reader'.query /\ f = reader'.frames /\ p = reader'.at /\ reader'.pc = reader.pc
  BY <1>2
<1> QED BY <1>3, <1>5, <1>6, <1>7, <1>8, <1>9 DEF Spans, OnSide

(* No step both adds a leaf to the tree and takes one from it. *)
LEMMA TreeLeaves ==
  ASSUME Core, [Next]_vars
  PROVE  Tree \cap Leaves \subseteq Tree' \/ Tree' \cap Leaves \subseteq Tree
<1>1. CASE InsertLeaf \/ InsertLink
  BY <1>1, InsertLeafCore, InsertLinkCore
<1>2. CASE RemoveUnlink
  BY <1>2, RemoveUnlinkCore
<1>3. CASE RemoveCollapse
  BY <1>3, RemoveCollapseCore
<1>4. CASE Reads
  BY <1>4, UnreadCore DEF Reads
<1> QED BY <1>1, <1>2, <1>3, <1>4, NextCases, InsertBeginCore, InsertExistsCore, InsertNodeCore,
           InsertNoNodeCore, RemoveBeginCore, RemoveReclaimCore, RemoveMissCore

(* An entry that is there before a step and after it has the same leaf. *)
LEMMA SameLeaf ==
  ASSUME Core, EntriesKept, EntriesKept', [Next]_vars, NEW k \in Tree \cap Leaves,
         NEW l \in Tree' \cap Leaves, leaf[k].key = leaf'[l].key
  PROVE  k = l /\ leaf'[l].key = leaf[l].key
<1>1. \A x \in Tree \cap Leaves : leaf'[x].key = leaf[x].key
  BY NextKeepsShape DEF KeepsShape
<1>2. CASE Tree \cap Leaves \subseteq Tree'
  BY <1>1, <1>2 DEF EntriesKept
<1>3. CASE Tree' \cap Leaves \subseteq Tree
  BY <1>1, <1>3 DEF EntriesKept
<1> QED BY <1>2, <1>3, TreeLeaves

(* The nearest entry, if it stays the same, keeps its leaf. *)
LEMMA WriterBest ==
  ASSUME ReadsRight, EntriesKept', [Next]_vars, Writes, Live', Steady(call'),
         NEW l, First(reader'.query, Tree' \cap Leaves, leaf', l)
  PROVE  /\ Live /\ Steady(call) /\ Best(l)
         /\ l \in Tree' /\ l \in Leaves /\ leaf'[l].key = leaf[l].key
<1>1. Live /\ UNCHANGED reader
  BY ReadsRightHas, LiveEarlier DEF Writes
<1>2. OpenCall(call) /\ Covers(call, entries) /\ call.query = reader.query /\ reader.pc \notin {"idle", "done"}
  BY <1>1, ReadsRightHas, CountedOpen DEF Live, ReadsRight
<1>3. OpenCall(call') /\ Covers(call', entries') /\ Grows(call, call')
  BY <1>2, WriterCall DEF ReadsRight
<1>4. Holds(Tree \cap Leaves, leaf, entries) /\ Holds(Tree' \cap Leaves, leaf', entries')
  BY ReadsRightHas, HoldsNow
<1>5. First(call'.query, Tree' \cap Leaves, leaf', l)
  BY <1>1, <1>2, <1>3 DEF Grows
<1>6. Steady(call) /\ \E k : First(call.query, Tree \cap Leaves, leaf, k) /\ leaf[k].key = leaf'[l].key
  BY <1>2, <1>3, <1>4, <1>5, SteadyKey
<1>7. PICK k : First(call.query, Tree \cap Leaves, leaf, k) /\ leaf[k].key = leaf'[l].key
  BY <1>6
<1>8. k \in Tree \cap Leaves /\ l \in Tree' \cap Leaves
  BY <1>7 DEF First
<1>9. k = l /\ leaf'[l].key = leaf[l].key
  BY <1>7, <1>8, ReadsRightHas, SameLeaf
<1> QED BY <1>1, <1>2, <1>6, <1>7, <1>8, <1>9 DEF Best

LEMMA WriterAhead ==
  ASSUME ReadsRight, EntriesKept', [Next]_vars, Writes
  PROVE  AheadInv'
<1> SUFFICES ASSUME Live', Steady(call'), NEW l, Best(l)'
             PROVE  Ahead(l)'
  BY DEF AheadInv, Steady
<1>0. First(reader'.query, Tree' \cap Leaves, leaf', l)
  BY DEF Best, First, OnSide
<1>1. /\ Live /\ Best(l) /\ Ahead(l) /\ UNCHANGED reader
      /\ l \in Tree' /\ l \in Leaves /\ leaf'[l].key = leaf[l].key
  BY <1>0, WriterBest DEF ReadsRight, AheadInv, Writes
<1>2. Grace /\ ReaderInv
  BY ReadsRightHas
<1>3. PICK w \in Nat : /\ removeCount < w
                       /\ \A x \in Visited : x \in Nodes \cup Leaves /\ Safe(x, w)
  BY <1>1, <1>2, LiveIs
<1>4. FollowsSafe(w)
  BY <1>2, <1>3, NextFollows
<1>5. \A v \in Visited : l \in Sub(node, v) => l \in Sub(node', v)
  BY <1>1, <1>2, <1>3, <1>4, BelowKeeps
<1>6. PICK q, f, p, b : q = reader.query /\ f = reader.frames /\ p = reader.at /\ b = reader.nib
  OBVIOUS
<1>7. ASSUME reader.pc \in {"near", "edge", "again", "aside"}, InFrames(q, f, l)
      PROVE  InFrames(q, f, l)'
  <2>1. PICK i \in DOMAIN f : l \in Sub(node, f[i].node) /\ leaf[l].key \in Rest(q, f[i])
    BY <1>7 DEF InFrames
  <2>2. f[i].node \in Visited /\ Rest(q, f[i])' = Rest(q, f[i])
    BY <1>1, <1>2, <1>6, <1>7, FramesShape
  <2>3. l \in Sub(node', f[i].node) /\ leaf'[l].key \in Rest(q, f[i])'
    BY <1>1, <1>5, <2>1, <2>2
  <2> QED BY <2>3 DEF InFrames
<1>8. ASSUME reader.pc \in {"get", "near"}, l \in Sub(node, p)
      PROVE  l \in Sub(node', p)
  <2>1. p \in Visited
    BY <1>1, <1>2, <1>6, <1>8, Stands
  <2> QED BY <1>5, <1>8, <2>1
<1>9. ASSUME reader.pc \in {"edge", "again"}, Turn(q, p, b, l)
      PROVE  Turn(q, p, b, l)'
  <2>1. p \in Visited /\ p \in Nodes
    BY <1>1, <1>2, <1>6, <1>9, Stands DEF Lasting
  <2>2. node'[p].shift = node[p].shift
    BY <1>1, <1>2, <2>1, VisitedShape
  <2>3. l \in Sub(node', p)
    BY <1>5, <1>9, <2>1 DEF Turn
  <2> QED BY <1>1, <1>9, <2>2, <2>3 DEF Turn, LeftOf
<1>10. /\ q = reader'.query /\ f = reader'.frames /\ p = reader'.at /\ b = reader'.nib
       /\ reader'.pc = reader.pc
  BY <1>1, <1>6
<1>11. /\ reader.pc = "get" => l \in Sub(node, p)
       /\ reader.pc = "near" => l \in Sub(node, p) \/ InFrames(q, f, l)
       /\ reader.pc \in {"edge", "again"} => Turn(q, p, b, l) \/ InFrames(q, f, l)
       /\ reader.pc = "aside" => InFrames(q, f, l)
       /\ reader.pc = "value" => l = p
  BY <1>1, <1>6 DEF Ahead
<1>12. /\ reader.pc = "get" => l \in Sub(node', p)
       /\ reader.pc = "near" => l \in Sub(node', p) \/ InFrames(q, f, l)'
       /\ reader.pc \in {"edge", "again"} => Turn(q, p, b, l)' \/ InFrames(q, f, l)'
       /\ reader.pc = "aside" => InFrames(q, f, l)'
       /\ reader.pc = "value" => l = p
  BY <1>7, <1>8, <1>9, <1>11
<1> QED BY <1>10, <1>12 DEF Ahead

LEMMA WriterAnswer ==
  ASSUME ReadsRight, EntriesKept', [Next]_vars, Writes
  PROVE  AnswerInv'
<1> SUFFICES ASSUME Live', reader'.pc = "check"
             PROVE  reader'.res \in Index!Answers(call')
  BY DEF AnswerInv, Index!Answers
<1>1. Live /\ UNCHANGED reader
  BY ReadsRightHas, LiveEarlier DEF Writes
<1>2. OpenCall(call) /\ Covers(call, entries)
  BY <1>1, ReadsRightHas, CountedOpen DEF Live, ReadsRight
<1>3. OpenCall(call') /\ Grows(call, call')
  BY <1>1, WriterCall DEF ReadsRight
<1>4. call.exact # {}
  BY <1>2 DEF Covers
<1>5. reader.res \in Index!Answers(call)
  BY <1>1 DEF ReadsRight, AnswerInv
<1> QED BY <1>1, <1>2, <1>3, <1>4, <1>5, AnswersGrow

(***************************************************************************)
(* Every step keeps all this                                               *)
(***************************************************************************)
LEMMA NextReadsRight ==
  ASSUME ReadsRight, [Next]_vars
  PROVE  ReadsRight'
<1>0. Grace /\ Ranked /\ EntriesKept /\ ReaderInv /\ ReaderTyped /\ CallInv /\ SeenInv /\ Spans
  BY ReadsRightHas DEF ReadsRight
<1>1. Whole' /\ EntriesKept'
  BY NextWhole DEF ReadsRight, Whole
<1>2. ReaderInv' /\ ReaderTyped'
  BY <1>0, NextGraceInv DEF GraceInv, ReaderInv
<1>3. Populated'
  BY NextPopulated DEF ReadsRight, Whole
<1>4. CallInv'
  BY <1>0, <1>1, NextCall
<1>5. SeenInv'
  BY <1>0, <1>1, <1>2, <1>4, NextSeen
<1>6. Spans' /\ AheadInv' /\ AnswerInv'
  <2>1. CASE Writes
    BY <1>0, <1>1, <2>1, WriterSpans, WriterAhead, WriterAnswer DEF Writes
  <2>2. CASE Walk
    BY <1>0, <2>2, WalkSpans, WalkRight
  <2>3. CASE (\E query \in Queries : Ask(query)) \/ Leave
    BY <2>3, OutsideRight
  <2>4. Writes \/ Walk \/ (\E query \in Queries : Ask(query)) \/ Leave
    <3>1. CASE UNCHANGED vars
      BY <3>1 DEF vars, Writes
    <3>2. CASE Insert \/ Remove
      BY <3>2 DEF Insert, InsertBegin, InsertLeaf, InsertExists, InsertNode, InsertNoNode, InsertLink,
                  Remove, RemoveBegin, RemoveReclaim, RemoveMiss, RemoveUnlink, RemoveCollapse,
                  Write, Writes
    <3> QED BY <3>1, <3>2 DEF Next
  <2> QED BY <2>1, <2>2, <2>3, <2>4
<1> QED BY <1>1, <1>2, <1>3, <1>4, <1>5, <1>6 DEF ReadsRight

LEMMA InitReadsRight ==
  ASSUME Init
  PROVE  ReadsRight
<1>1. reader = Idle
  BY DEF Init
<1>2. Whole /\ ReaderInv /\ Populated /\ CallInv
  BY InitWhole, InitGraceInv, InitPopulated, InitCall DEF GraceInv
<1>3. ~ Live /\ reader.pc = "idle"
  BY <1>1 DEF Live, Counted, Idle
<1> QED BY <1>2, <1>3 DEF ReadsRight, Spans, SeenInv, AheadInv, AnswerInv

(***************************************************************************)
(* The tree and its readers implement the index                            *)
(***************************************************************************)
LEMMA IndexWrites ==
  ASSUME ReadsRight, Insert \/ Remove
  PROVE  Index!Next \/ UNCHANGED <<entries, call>>
<1>1. HandFits /\ Typed
  BY ReadsRightHas DEF ReadsRight, Whole
<1>2. CASE InsertLeaf \/ InsertLink
  <2>1. newKey \in Keys /\ newValue \in ValuesOf[newKey] /\ Write(newKey, newValue)
    BY <1>1, <1>2 DEF HandFits, InsertLeaf, InsertLink
  <2>2. Index!Write(newKey, newValue)
    BY <2>1 DEF Write, Index!Write
  <2> QED BY <2>1, <2>2 DEF Index!Next
<1>3. CASE \E update \in BOOLEAN : InsertExists(update)
  <2>1. PICK update \in BOOLEAN : InsertExists(update)
    BY <1>3
  <2>2. CASE update
    <3>1. newKey \in Keys /\ newValue \in ValuesOf[newKey] /\ Write(newKey, newValue)
      BY <1>1, <2>1, <2>2 DEF HandFits, InsertExists
    <3>2. Index!Write(newKey, newValue)
      BY <3>1 DEF Write, Index!Write
    <3> QED BY <3>1, <3>2 DEF Index!Next
  <2>3. CASE ~ update
    BY <2>1, <2>3 DEF InsertExists, ghosts
  <2> QED BY <2>2, <2>3
<1>4. CASE RemoveUnlink
  <2>1. writer.key \in Keys /\ Write(writer.key, Null)
    BY <1>1, <1>4, WriterCases DEF RemoveUnlink
  <2>2. Index!Write(writer.key, Null)
    BY <2>1 DEF Write, Index!Write
  <2> QED BY <2>1, <2>2 DEF Index!Next
<1>5. CASE \/ \E key \in Keys : \E value \in ValuesOf[key] : InsertBegin(key, value)
           \/ InsertNode \/ InsertNoNode
           \/ \E key \in Keys : RemoveBegin(key)
           \/ RemoveReclaim \/ RemoveMiss \/ RemoveCollapse
  BY <1>5 DEF InsertBegin, InsertNode, InsertNoNode, RemoveBegin, RemoveReclaim, RemoveMiss,
              RemoveCollapse, ghosts
<1> QED BY <1>2, <1>3, <1>4, <1>5 DEF Insert, Remove

LEMMA IndexReturns ==
  ASSUME ReadsRight, Return
  PROVE  Index!Next
<1>1. reader.pc = "check" /\ ~ Overtaken /\ UNCHANGED entries
  BY DEF Return, unread
<1>2. Live
  <2>1. reader \in [pc : {"check"}, query : Queries, wrs1 : Nat, res : Links]
    BY <1>1, ReadsRightHas, ReaderCases
  <2>2. Counted
    BY <2>1 DEF Counted
  <2> QED BY <1>1, <2>2 DEF Live
<1>3. reader.res \in Index!Answers(call)
  BY <1>1, <1>2 DEF ReadsRight, AnswerInv
<1>4. call.pc = "open"
  BY <1>1 DEF ReadsRight, CallInv, OpenCall
<1>5. Index!Answer
  BY <1>1, <1>3, <1>4 DEF Return, Index!Answer
<1> QED BY <1>5 DEF Index!Next

LEMMA IndexSteps ==
  ASSUME ReadsRight, [Next]_vars
  PROVE  [Index!Next]_<<entries, call>>
<1>1. CASE UNCHANGED vars
  BY <1>1 DEF vars, ghosts
<1>2. CASE Insert \/ Remove
  BY <1>2, IndexWrites
<1>3. CASE Return
  BY <1>3, IndexReturns
<1>4. CASE Walk /\ ~ Return
  BY <1>4, ReadsRightHas, WalkStrides DEF Strides, unread
<1>5. CASE \E query \in Queries : Ask(query)
  <2>1. PICK query \in Queries : Ask(query)
    BY <1>5
  <2>2. call = Index!None /\ UNCHANGED entries
    BY <2>1 DEF Ask, ReadsRight, CallInv, Idle, unread
  <2>3. Index!Ask(query)
    BY <2>1, <2>2 DEF Ask, Index!Ask
  <2> QED BY <2>3 DEF Index!Next
<1>6. CASE Leave
  <2>1. Index!Leave
    BY <1>6 DEF Leave, ReadsRight, CallInv, unread, Index!Leave
  <2> QED BY <2>1 DEF Index!Next
<1> QED BY <1>1, <1>2, <1>3, <1>4, <1>5, <1>6 DEF Next

(* What a reader returns was so at some moment of its call: critnib_get,     *)
(* critnib_find_le and critnib_find answer as the abstract index does, and   *)
(* every store that publishes or unlinks a leaf is one write of the index    *)
(* (critnib_insert, critnib_remove and the three readers, which take no      *)
(* lock).                                                                    *)
THEOREM CritnibImplementsIndex == Spec => ImplementsIndex
<1>1. Init => ReadsRight
  BY InitReadsRight
<1>2. ReadsRight /\ [Next]_vars => ReadsRight'
  BY NextReadsRight
<1>3. Init => Index!Init
  BY DEF Init, Index!Init
<1>4. ReadsRight /\ [Next]_vars => [Index!Next]_<<entries, call>>
  BY IndexSteps
<1> QED BY <1>1, <1>2, <1>3, <1>4, PTL DEF Spec, ImplementsIndex, Index!Spec
=============================================================================
