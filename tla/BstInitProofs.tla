--------------------------- MODULE BstInitProofs ---------------------------
(***************************************************************************)
(* Theorems about BstInit, for any number of trees, of passes and of runs  *)
(* and any crossover.  The two threads are always between the same two     *)
(* waits, and each works on the elements of its own side only, because     *)
(* both have overwritten crossover before they draw.                       *)
(***************************************************************************)
EXTENDS BstInit, FiniteSetTheorems, TLAPS

Building == {"trees", "locks", "draw", "fill", "wait3"}

\* The wait of init_bar a thread has passed last.
Phase(p) == IF p = "wait1" THEN 0
            ELSE IF p \in {"clear", "resize", "wait2"} THEN 1
            ELSE IF p \in Building THEN 2 ELSE 3

PhaseInv == Phase(pc[0]) = Phase(pc[1]) /\ pc[1] # "resize"

\* Loop counters are back at 0 when a thread comes to its next loop.
CounterInv ==
  \A n \in Node :
     /\ pc[n] \notin {"resize", "trees", "locks", "draw", "fill"} => i[n] = 0
     /\ pc[n] # "fill" => j[n] = 0

\* Nobody draws the other side.
SideInv ==
  \A n \in Node :
     /\ side[n] = n
     /\ pc[n] \notin {"wait1", "clear"} => crossover[n] = -1

ResizedInv ==
  /\ pc[0] = "resize" => \A k \in 1 .. i[0] : Resizes[k] \in resized
  /\ pc[0] \in {"wait2", "done"} \cup Building => Vectors \X Node \subseteq resized

\* What a thread has made of its side.
MadeInv ==
  \A n \in Node : \A k \in Index :
     /\ pc[n] = "trees" /\ k < i[n] => <<"tree", n, k>> \in made
     /\ pc[n] \in {"locks", "draw", "fill", "wait3", "done"} => <<"tree", n, k>> \in made
     /\ pc[n] = "locks" /\ k < i[n] => <<"lock", n, k>> \in made
     /\ pc[n] \in {"draw", "fill", "wait3", "done"} => <<"lock", n, k>> \in made

TouchedInv == \A e \in Element : touched[e] \subseteq {e[2]}

IInv ==
  NoFault /\ PhaseInv /\ CounterInv /\ SideInv /\ ResizedInv /\ MadeInv /\ TouchedInv
-----------------------------------------------------------------------------
(* What the actions come to.                                               *)

LEMMA Facts ==
  /\ NumDS \in Nat \ {0} /\ Passes \in Nat /\ RunFreq \in Nat \ {0}
  /\ Crossover \in 0 .. 100 /\ \A x \in Draws : x \in Nat /\ x >= 1
  /\ 0 \in Index /\ DOMAIN Resizes = 1 .. 6 /\ \A k \in 1 .. 6 : Resizes[k] \in Vectors \X Node
<1>1. Resizes \in [1 .. 6 -> Vectors \X Node]
  BY DEF Resizes, Vectors, Node
<1>. QED
  BY <1>1, InitAssumption DEF Index

\* init_bar lets the threads go when both have come.
LEMMA BothArrive ==
  ASSUME NEW from, NEW to, Barrier(from, to)
  PROVE  pc[0] = from /\ pc[1] = from /\ pc' = [n \in Node |-> to]
<1> DEFINE S == {n \in Node : pc[n] = from}
<1>1. IsFiniteSet({0}) /\ Cardinality({0}) = 1
  BY FS_Singleton
<1>2. IsFiniteSet(Node) /\ Cardinality(Node) = 2
  <2>1. IsFiniteSet({0} \cup {1}) /\ Cardinality({0} \cup {1}) = 1 + 1
    BY <1>1, FS_AddElement
  <2>2. Node = {0} \cup {1}
    BY DEF Node
  <2>. QED
    BY <2>1, <2>2
<1>3. S \in SUBSET Node /\ Cardinality(S) = 2
  BY DEF Barrier, InitBarCount
<1>4. S = Node
  BY <1>2, <1>3, FS_Subset
<1>5. \A n \in Node : pc[n] = from
  BY <1>4
<1>. QED
  BY <1>5 DEF Barrier, Node

LEMMA WaitCases ==
  ASSUME Wait
  PROVE  /\ \/ pc[0] = "wait1" /\ pc[1] = "wait1" /\ pc' = [n \in Node |-> "clear"]
            \/ pc[0] = "wait2" /\ pc[1] = "wait2" /\ pc' = [n \in Node |-> "trees"]
            \/ pc[0] = "wait3" /\ pc[1] = "wait3" /\ pc' = [n \in Node |-> "done"]
         /\ UNCHANGED <<i, j, side, crossover, resized, made, touched, fault, run>>
  BY BothArrive DEF Wait

\* A draw is below no crossover of a thread that has cleared it.
LEMMA OwnSide ==
  ASSUME SideInv, NEW n \in Node, pc[n] \notin {"wait1", "clear"}, NEW x \in Draws
  PROVE  Drawn(n, x) = n
  BY Facts DEF SideInv, Drawn

LEMMA TreesMade ==
  ASSUME SideInv, NEW n \in Node, MakeTree(n)
  PROVE  Make(n, {<<"tree", n, i[n]>>})
  BY OwnSide DEF MakeTree, Loop, Goto

LEMMA LocksMade ==
  ASSUME SideInv, NEW n \in Node, MakeLock(n)
  PROVE  \E vs \in SUBSET {"lock", "reader"} :
           "lock" \in vs /\ Make(n, {<<v, n, i[n]>> : v \in vs})
<1> DEFINE vs == IF n = 0 THEN {"lock", "reader"} ELSE {"lock"}
<1>1. PICK x \in Draws : Make(n, {<<v, Drawn(n, x), i[n]>> : v \in vs})
  BY DEF MakeLock
<1>2. Drawn(n, x) = n
  BY OwnSide DEF MakeLock, Loop, Goto
<1>3. Make(n, {<<v, n, i[n]>> : v \in vs})
  BY <1>1, <1>2
<1>4. vs \in SUBSET {"lock", "reader"} /\ "lock" \in vs
  OBVIOUS
<1>. QED
  BY <1>3, <1>4
-----------------------------------------------------------------------------
LEMMA PhaseStep ==
  ASSUME TypeOK, PhaseInv, [Next]_vars
  PROVE  PhaseInv'
<1> USE DEF PhaseInv, Phase, Building, Goto, Loop, Node
<1>1. ASSUME NEW n \in Node, ClearCrossover(n) PROVE PhaseInv'
  BY <1>1 DEF ClearCrossover, TypeOK
<1>2. ASSUME Resize PROVE PhaseInv'
  BY <1>2 DEF Resize, TypeOK
<1>3. ASSUME NEW n \in Node, MakeTree(n) \/ MakeLock(n) \/ DrawSide(n) \/ Fill(n)
      PROVE  PhaseInv'
  BY <1>3 DEF MakeTree, MakeLock, DrawSide, Fill, TypeOK
<1>4. ASSUME Wait PROVE PhaseInv'
  BY <1>4, WaitCases
<1>5. ASSUME Rerun PROVE PhaseInv'
  BY <1>5 DEF Rerun, Fresh
<1>6. CASE UNCHANGED vars
  BY <1>6 DEF vars
<1>. QED
  BY <1>1, <1>2, <1>3, <1>4, <1>5, <1>6 DEF Next, Step, Over

\* Where a thread's loops leave its counters.
LEMMA CounterStep ==
  ASSUME TypeOK, CounterInv, [Next]_vars
  PROVE  CounterInv'
<1> USE DEF CounterInv, Goto, Loop
<1>1. /\ pc \in [Node -> Pcs] /\ i \in [Node -> Nat] /\ j \in [Node -> Nat]
      /\ \A n \in Node : j[n] < NumDS
  BY Facts DEF TypeOK, Index
<1>2. ASSUME NEW n \in Node, ClearCrossover(n) \/ DrawSide(n) PROVE CounterInv'
  BY <1>1, <1>2 DEF ClearCrossover, DrawSide
<1>3. ASSUME Resize PROVE CounterInv'
  BY <1>1, <1>3 DEF Resize, Node, Count
<1>4. ASSUME NEW n \in Node, MakeTree(n) \/ MakeLock(n) PROVE CounterInv'
  <2>1. i[n] < NumDS
    BY <1>4, Facts DEF MakeTree, MakeLock, TypeOK, Index
  <2>2. /\ \A m \in Node \ {n} : i'[m] = i[m]
        /\ ~ (i[n] + 1 < NumDS) => i'[n] = 0
    BY <1>1, <1>4, <2>1, Facts DEF MakeTree, MakeLock, Count
  <2>3. /\ pc[n] \in {"trees", "locks"} /\ UNCHANGED j
        /\ \A m \in Node \ {n} : pc'[m] = pc[m]
        /\ i[n] + 1 < NumDS => pc'[n] = pc[n]
        /\ pc'[n] \in {"trees", "locks", "draw", "wait3"}
    BY <1>1, <1>4 DEF MakeTree, MakeLock
  <2>. QED
    BY <2>2, <2>3
<1>5. ASSUME NEW n \in Node, Fill(n) PROVE CounterInv'
  <2>1. i[n] \in 0 .. Passes - 1 /\ j[n] < NumDS /\ pc[n] = "fill"
    BY <1>1, <1>5 DEF Fill, TypeOK
  <2>2. CASE j[n] + 1 = NumDS
    <3>1. i' = Count(n, i, Passes) /\ j' = Count(n, j, NumDS)
      BY <1>5, <2>2 DEF Fill
    <3>2. /\ \A m \in Node \ {n} : i'[m] = i[m] /\ j'[m] = j[m]
          /\ ~ (i[n] + 1 < Passes) => i'[n] = 0
          /\ j'[n] = 0
      BY <1>1, <2>1, <2>2, <3>1, Facts DEF Count
    <3>3. /\ \A m \in Node \ {n} : pc'[m] = pc[m]
          /\ pc'[n] = IF i[n] + 1 < Passes THEN "draw" ELSE "wait3"
      BY <1>1, <1>5, <2>2 DEF Fill
    <3>. QED
      BY <3>2, <3>3
  <2>3. CASE j[n] + 1 # NumDS
    <3>1. /\ \A m \in Node \ {n} : i'[m] = i[m] /\ pc'[m] = pc[m] /\ j'[m] = j[m]
          /\ pc'[n] = "fill"
      BY <1>1, <1>5, <2>1, <2>3, Facts DEF Fill, Count
    <3>. QED
      BY <3>1
  <2>. QED
    BY <2>2, <2>3
<1>6. ASSUME Wait PROVE CounterInv'
  BY <1>6, WaitCases DEF Node
<1>7. ASSUME Rerun PROVE CounterInv'
  BY <1>7 DEF Rerun, Fresh
<1>8. CASE UNCHANGED vars
  BY <1>8 DEF vars
<1>. QED
  BY <1>2, <1>3, <1>4, <1>5, <1>6, <1>7, <1>8 DEF Next, Step, Over

LEMMA SideStep ==
  ASSUME TypeOK, SideInv, [Next]_vars
  PROVE  SideInv'
<1> USE DEF SideInv, TypeOK, Goto, Loop
<1>1. ASSUME NEW n \in Node, ClearCrossover(n) PROVE SideInv'
  BY <1>1 DEF ClearCrossover
<1>2. ASSUME NEW n \in Node, DrawSide(n) PROVE SideInv'
  <2>1. PICK x \in Draws : side' = [side EXCEPT ![n] = Drawn(n, x)]
    BY <1>2 DEF DrawSide
  <2>2. Drawn(n, x) = n
    BY <1>2, OwnSide DEF DrawSide
  <2>. QED
    BY <1>2, <2>1, <2>2 DEF DrawSide
<1>3. ASSUME NEW n \in Node, (n = 0 /\ Resize) \/ MakeTree(n) \/ MakeLock(n) \/ Fill(n)
      PROVE  SideInv'
  <2>1. /\ UNCHANGED <<side, crossover>> /\ pc[n] \notin {"wait1", "clear"}
        /\ \A m \in Node \ {n} : pc'[m] = pc[m]
    BY <1>3 DEF Resize, MakeTree, MakeLock, Fill
  <2>. QED
    BY <2>1
<1>4. ASSUME Wait PROVE SideInv'
  BY <1>4, WaitCases DEF Node
<1>5. ASSUME Rerun PROVE SideInv'
  BY <1>5 DEF Rerun, Fresh
<1>6. CASE UNCHANGED vars
  BY <1>6 DEF vars
<1>. QED
  BY <1>1, <1>2, <1>3, <1>4, <1>5, <1>6 DEF Next, Step, Over
-----------------------------------------------------------------------------
(* What exists, who has used it, and that nothing else is used.            *)

\* Node 0 resizes one vector after the other.
LEMMA ResizedStep ==
  ASSUME TypeOK, PhaseInv, CounterInv, ResizedInv, [Next]_vars
  PROVE  ResizedInv'
<1> USE DEF Goto, Loop, Building
<1>1. ASSUME ClearCrossover(0) PROVE ResizedInv'
  BY <1>1, Facts DEF ClearCrossover, CounterInv, ResizedInv, TypeOK, Node
<1>2. ASSUME Resize PROVE ResizedInv'
  <2>1. /\ i[0] \in Nat /\ i[0] + 1 \in 1 .. 6 /\ pc[0] = "resize"
        /\ pc'[0] = IF i[0] + 1 < 6 THEN "resize" ELSE "wait2"
        /\ i'[0] = IF i[0] + 1 < 6 THEN i[0] + 1 ELSE 0
        /\ resized' = resized \cup {Resizes[i[0] + 1]}
    BY <1>2, Facts DEF Resize, TypeOK, Count, Node
  <2>2. \A k \in 1 .. i[0] + 1 : Resizes[k] \in resized'
    BY <2>1 DEF ResizedInv
  <2>3. CASE i[0] + 1 < 6
    BY <2>1, <2>2, <2>3 DEF ResizedInv
  <2>4. CASE ~ (i[0] + 1 < 6)
    <3>1. \A k \in 1 .. 6 : Resizes[k] \in resized'
      BY <2>1, <2>2, <2>4
    <3>2. /\ <<"tree", 0>> \in resized' /\ <<"tree", 1>> \in resized'
          /\ <<"lock", 0>> \in resized' /\ <<"lock", 1>> \in resized'
          /\ <<"reader", 0>> \in resized' /\ <<"reader", 1>> \in resized'
      BY <3>1 DEF Resizes
    <3>3. Vectors \X Node \subseteq resized'
      BY <3>2 DEF Vectors, Node
    <3>. QED
      BY <2>1, <2>4, <3>3 DEF ResizedInv
  <2>. QED
    BY <2>3, <2>4
<1>3. ASSUME NEW n \in Node,
             (n # 0 /\ ClearCrossover(n)) \/ MakeTree(n) \/ MakeLock(n) \/ DrawSide(n) \/ Fill(n)
      PROVE  ResizedInv'
  <2>1. /\ UNCHANGED resized
        /\ pc'[0] # "resize" \/ (pc'[0] = pc[0] /\ i'[0] = i[0])
        /\ pc'[0] = pc[0] \/ (pc'[0] \in Building /\ pc[0] \in Building)
    BY <1>3 DEF ClearCrossover, MakeTree, MakeLock, DrawSide, Fill, TypeOK, Node, Count
  <2>. QED
    BY <2>1 DEF ResizedInv
<1>4. ASSUME Wait PROVE ResizedInv'
  BY <1>4, WaitCases DEF ResizedInv, Node
<1>5. ASSUME Rerun PROVE ResizedInv'
  BY <1>5 DEF Rerun, Fresh, ResizedInv, Node
<1>6. ASSUME UNCHANGED vars PROVE ResizedInv'
  BY <1>6 DEF vars, ResizedInv
<1>. QED
  BY <1>1, <1>2, <1>3, <1>4, <1>5, <1>6 DEF Next, Step, Over, Node

\* The elements a thread uses are on its side.
LEMMA TouchedStep ==
  ASSUME TypeOK, SideInv, TouchedInv, [Next]_vars
  PROVE  TouchedInv'
<1>1. ASSUME NEW n \in Node, NEW es, Use(n, es), \A e \in es : e[2] = n
      PROVE  TouchedInv'
  BY <1>1 DEF Use, TouchedInv
<1>2. ASSUME NEW n \in Node, MakeTree(n) PROVE TouchedInv'
  <2>1. Use(n, {<<"tree", n, i[n]>>})
    BY <1>2, TreesMade DEF Make
  <2>. QED
    BY <1>1, <2>1
<1>3. ASSUME NEW n \in Node, MakeLock(n) PROVE TouchedInv'
  <2>1. PICK vs \in SUBSET {"lock", "reader"} : Use(n, {<<v, n, i[n]>> : v \in vs})
    BY <1>3, LocksMade DEF Make
  <2>. QED
    BY <1>1, <2>1
<1>4. ASSUME NEW n \in Node, Fill(n) PROVE TouchedInv'
  <2>1. Use(n, {<<"tree", n, j[n]>>})
    BY <1>4 DEF Fill, SideInv
  <2>. QED
    BY <1>1, <2>1
<1>5. ASSUME NEW n \in Node, ClearCrossover(n) \/ Resize \/ DrawSide(n) PROVE TouchedInv'
  BY <1>5 DEF ClearCrossover, Resize, DrawSide, TouchedInv
<1>6. ASSUME Wait \/ UNCHANGED vars PROVE TouchedInv'
  BY <1>6 DEF Wait, vars, TouchedInv
<1>7. ASSUME Rerun PROVE TouchedInv'
  BY <1>7 DEF Rerun, Fresh, TouchedInv
<1>. QED
  BY <1>2, <1>3, <1>4, <1>5, <1>6, <1>7 DEF Next, Step, Over

\* Past the second wait the vectors have their size, past the loops over the
\* trees the trees exist.
LEMMA FaultStep ==
  ASSUME TypeOK, ~ fault, PhaseInv, SideInv, ResizedInv, MadeInv, [Next]_vars
  PROVE  ~ fault'
<1>1. ASSUME NEW n \in Node, pc[n] \in Building PROVE Vectors \X Node \subseteq resized
  <2>1. pc[0] \in Building
    BY <1>1 DEF PhaseInv, Phase, Building, Node
  <2>. QED
    BY <2>1 DEF ResizedInv
<1>2. ASSUME NEW n \in Node, MakeTree(n) PROVE ~ fault'
  <2>1. pc[n] \in Building /\ <<"tree", n>> \in Vectors \X Node
    BY <1>2 DEF MakeTree, Loop, Goto, Building, Vectors
  <2>2. Make(n, {<<"tree", n, i[n]>>})
    BY <1>2, TreesMade
  <2>3. <<"tree", n>> \in resized
    BY <1>1, <2>1
  <2>4. \A e \in {<<"tree", n, i[n]>>} : <<e[1], e[2]>> \in resized
    BY <2>3
  <2>. QED
    BY <2>2, <2>4 DEF Make
<1>3. ASSUME NEW n \in Node, MakeLock(n) PROVE ~ fault'
  <2>1. pc[n] \in Building
    BY <1>3 DEF MakeLock, Loop, Goto, Building
  <2>2. PICK vs \in SUBSET {"lock", "reader"} : Make(n, {<<v, n, i[n]>> : v \in vs})
    BY <1>3, LocksMade
  <2>3. \A e \in {<<v, n, i[n]>> : v \in vs} : <<e[1], e[2]>> \in Vectors \X Node
    BY <2>2 DEF Vectors
  <2>. QED
    BY <1>1, <2>1, <2>2, <2>3 DEF Make
<1>4. ASSUME NEW n \in Node, Fill(n) PROVE ~ fault'
  <2>1. pc[n] = "fill" /\ j[n] \in Index /\ side[n] = n
    BY <1>4 DEF Fill, Goto, TypeOK, SideInv
  <2>2. <<"tree", side[n], j[n]>> \in made
    BY <2>1 DEF MadeInv
  <2>. QED
    BY <1>4, <2>2 DEF Fill
<1>5. ASSUME NEW n \in Node, ClearCrossover(n) \/ Resize \/ DrawSide(n) PROVE ~ fault'
  BY <1>5 DEF ClearCrossover, Resize, DrawSide
<1>6. Wait \/ Rerun \/ UNCHANGED vars => ~ fault'
  BY DEF Wait, Rerun, vars
<1>. QED
  BY <1>2, <1>3, <1>4, <1>5, <1>6 DEF Next, Step, Over

LEMMA MadeStep ==
  ASSUME TypeOK, PhaseInv, CounterInv, SideInv, MadeInv, [Next]_vars
  PROVE  MadeInv'
<1> USE DEF Goto, Loop, Index
<1>1. /\ pc \in [Node -> Pcs] /\ i \in [Node -> Nat] /\ NumDS \in Nat \ {0}
      /\ 0 \in Node /\ 1 \in Node
  BY Facts DEF TypeOK, Node
<1>2. ASSUME NEW n \in Node, MakeTree(n) PROVE MadeInv'
  <2>1. made' = made \cup {<<"tree", n, i[n]>>}
    BY <1>2, TreesMade DEF Make
  <2>2. /\ pc[n] = "trees" /\ pc'[n] = IF i[n] + 1 < NumDS THEN "trees" ELSE "locks"
        /\ i'[n] = IF i[n] + 1 < NumDS THEN i[n] + 1 ELSE 0
        /\ \A m \in Node \ {n} : pc'[m] = pc[m] /\ i'[m] = i[m]
    BY <1>1, <1>2 DEF MakeTree, Count
  <2>3. ASSUME NEW k \in Index, k < i[n] + 1 PROVE <<"tree", n, k>> \in made'
    <3>1. k \in Nat /\ i[n] \in Nat
      BY <1>1
    <3>2. k < i[n] \/ k = i[n]
      BY <2>3, <3>1
    <3>. QED
      BY <2>1, <2>2, <3>2 DEF MadeInv
  <2>4. ASSUME NEW k \in Index
        PROVE  /\ pc'[n] = "trees" /\ k < i'[n] => <<"tree", n, k>> \in made'
               /\ pc'[n] # "trees" => pc'[n] = "locks" /\ i'[n] = 0 /\ <<"tree", n, k>> \in made'
    <3>1. CASE i[n] + 1 < NumDS
      BY <2>2, <2>3, <3>1
    <3>2. CASE ~ (i[n] + 1 < NumDS)
      <4>1. k < i[n] + 1
        BY <1>1, <3>2
      <4>. QED
        BY <2>2, <2>3, <3>2, <4>1
    <3>. QED
      BY <3>1, <3>2
  <2>5. \A k \in Index : ~ (k < 0)
    BY <1>1
  <2>6. \A m \in Node \ {n} : pc'[m] = pc[m] /\ i'[m] = i[m] /\ made \subseteq made'
    BY <2>1, <2>2
  <2>. QED
    BY <2>4, <2>5, <2>6 DEF MadeInv
<1>3. ASSUME NEW n \in Node, MakeLock(n) PROVE MadeInv'
  <2>1. made \subseteq made' /\ <<"lock", n, i[n]>> \in made'
    BY <1>3, LocksMade DEF Make
  <2>2. /\ pc[n] = "locks"
        /\ pc'[n] = IF i[n] + 1 < NumDS THEN "locks"
                    ELSE IF Passes = 0 THEN "wait3" ELSE "draw"
        /\ i'[n] = IF i[n] + 1 < NumDS THEN i[n] + 1 ELSE 0
        /\ \A m \in Node \ {n} : pc'[m] = pc[m] /\ i'[m] = i[m]
    BY <1>1, <1>3 DEF MakeLock, Count
  <2>3. ASSUME NEW k \in Index, k < i[n] + 1 PROVE <<"lock", n, k>> \in made'
    <3>1. k \in Nat /\ i[n] \in Nat
      BY <1>1
    <3>2. k < i[n] \/ k = i[n]
      BY <2>3, <3>1
    <3>. QED
      BY <2>1, <2>2, <3>2 DEF MadeInv
  <2>4. \A k \in Index : <<"tree", n, k>> \in made'
    BY <2>1, <2>2 DEF MadeInv
  <2>5. ASSUME NEW k \in Index
        PROVE  /\ pc'[n] = "locks" /\ k < i'[n] => <<"lock", n, k>> \in made'
               /\ pc'[n] # "locks" => pc'[n] \in {"draw", "wait3"} /\ <<"lock", n, k>> \in made'
    <3>1. CASE i[n] + 1 < NumDS
      BY <2>2, <2>3, <3>1
    <3>2. CASE ~ (i[n] + 1 < NumDS)
      <4>1. k < i[n] + 1
        BY <1>1, <3>2
      <4>. QED
        BY <2>2, <2>3, <3>2, <4>1
    <3>. QED
      BY <3>1, <3>2
  <2>6. \A m \in Node \ {n} : pc'[m] = pc[m] /\ i'[m] = i[m] /\ made \subseteq made'
    BY <2>1, <2>2
  <2>. QED
    BY <2>4, <2>5, <2>6 DEF MadeInv
<1>4. ASSUME NEW n \in Node, ClearCrossover(n) \/ (n = 0 /\ Resize) PROVE MadeInv'
  <2>1. /\ UNCHANGED made /\ pc'[n] \in {"resize", "wait2"}
        /\ \A m \in Node \ {n} : pc'[m] = pc[m] /\ i'[m] = i[m]
    BY <1>1, <1>4 DEF ClearCrossover, Resize, Count
  <2>. QED
    BY <2>1 DEF MadeInv
<1>5. ASSUME NEW n \in Node, DrawSide(n) \/ Fill(n) PROVE MadeInv'
  <2>1. /\ UNCHANGED made
        /\ pc[n] \in {"draw", "fill"} /\ pc'[n] \in {"draw", "fill", "wait3"}
        /\ \A m \in Node \ {n} : pc'[m] = pc[m] /\ i'[m] = i[m]
    BY <1>1, <1>5 DEF DrawSide, Fill, Count
  <2>. QED
    BY <2>1 DEF MadeInv
<1>6. ASSUME Wait PROVE MadeInv'
  <2>1. UNCHANGED <<i, made>>
    BY <1>6, WaitCases
  <2>2. CASE pc' = [n \in Node |-> "clear"]
    BY <2>1, <2>2 DEF MadeInv
  <2>3. CASE pc[0] = "wait2" /\ pc[1] = "wait2" /\ pc' = [n \in Node |-> "trees"]
    <3>1. \A n \in Node : i[n] = 0
      BY <2>3 DEF CounterInv, Node
    <3>2. \A k \in Index : ~ (k < 0)
      BY <1>1
    <3>. QED
      BY <2>1, <2>3, <3>1, <3>2 DEF MadeInv
  <2>4. CASE pc[0] = "wait3" /\ pc[1] = "wait3" /\ pc' = [n \in Node |-> "done"]
    <3>1. \A n \in Node : pc[n] = "wait3"
      BY <2>4 DEF Node
    <3>. QED
      BY <2>1, <2>4, <3>1 DEF MadeInv
  <2>. QED
    BY <1>6, <2>2, <2>3, <2>4, WaitCases
<1>7. ASSUME Rerun PROVE MadeInv'
  BY <1>7 DEF Rerun, Fresh, MadeInv
<1>8. ASSUME UNCHANGED vars PROVE MadeInv'
  BY <1>8 DEF vars, MadeInv
<1>. QED
  BY <1>2, <1>3, <1>4, <1>5, <1>6, <1>7, <1>8 DEF Next, Step, Over

LEMMA TypeStep ==
  ASSUME TypeOK, PhaseInv, CounterInv, SideInv, [Next]_vars
  PROVE  TypeOK'
<1> USE DEF Goto, Loop, Pcs
<1>1. /\ pc \in [Node -> Pcs] /\ i \in [Node -> Nat] /\ j \in [Node -> Index]
      /\ 0 \in Node /\ 1 \in Node /\ Crossover \in -1 .. 100
      /\ NumDS \in Nat \ {0} /\ Passes \in Nat /\ Index = 0 .. NumDS - 1
  BY Facts DEF TypeOK, Node, Index
<1>2. ASSUME NEW n \in Node, NEW es \in SUBSET Element, Use(n, es)
      PROVE  touched' \in [Element -> SUBSET Node] /\ UNCHANGED run
  BY <1>2 DEF Use, TypeOK
<1>3. ASSUME NEW n \in Node, NEW es \in SUBSET Element, Make(n, es)
      PROVE  /\ touched' \in [Element -> SUBSET Node] /\ made' \subseteq Element
             /\ fault' \in BOOLEAN /\ UNCHANGED run
  BY <1>2, <1>3 DEF Make, TypeOK
<1>4. ASSUME NEW n \in Node, ClearCrossover(n) PROVE TypeOK'
  <2>0. crossover' \in [Node -> -1 .. 100]
    <3>1. crossover \in [Node -> -1 .. 100] /\ -1 \in -1 .. 100
      BY DEF TypeOK
    <3>. QED
      BY <1>4, <3>1 DEF ClearCrossover
  <2>1. /\ pc' \in [Node -> Pcs]
        /\ \A m \in Node \ {n} : pc'[m] = pc[m]
        /\ pc'[n] \in {"resize", "wait2"}
    BY <1>1, <1>4 DEF ClearCrossover
  <2>2. i[n] = 0 /\ 0 + 1 \in DOMAIN Resizes
    BY <1>4, Facts DEF ClearCrossover, CounterInv
  <2>. QED
    BY <1>4, <2>0, <2>1, <2>2 DEF ClearCrossover, TypeOK
<1>5. ASSUME Resize PROVE TypeOK'
  <2>1. i[0] + 1 \in 1 .. 6
    BY <1>5, Facts DEF Resize, TypeOK, Node
  <2>2. /\ i' \in [Node -> Nat] /\ pc' \in [Node -> Pcs]
        /\ \A m \in Node \ {0} : pc'[m] = pc[m] /\ i'[m] = i[m]
        /\ pc'[0] = "wait2" \/ (pc'[0] = "resize" /\ i'[0] + 1 \in 1 .. 6)
    BY <1>1, <1>5, <2>1 DEF Resize, Count
  <2>3. resized' \subseteq Vectors \X Node
    BY <1>5, <2>1, Facts DEF Resize, TypeOK
  <2>. QED
    BY <1>5, <2>2, <2>3, Facts DEF Resize, TypeOK
<1>6. ASSUME NEW n \in Node, MakeTree(n) PROVE TypeOK'
  <2>1. i[n] \in Index
    BY <1>6 DEF MakeTree, TypeOK
  <2>2. {<<"tree", n, i[n]>>} \in SUBSET Element
    BY <2>1 DEF Element, Vectors
  <2>3. /\ touched' \in [Element -> SUBSET Node] /\ made' \subseteq Element
        /\ fault' \in BOOLEAN /\ UNCHANGED run
    BY <1>3, <1>6, <2>2, TreesMade
  <2>4. /\ i' \in [Node -> Nat] /\ i'[n] \in Index /\ pc' \in [Node -> Pcs]
        /\ pc'[n] \in {"trees", "locks"}
        /\ \A m \in Node \ {n} : pc'[m] = pc[m] /\ i'[m] = i[m]
    BY <1>1, <1>6, <2>1 DEF MakeTree, Count
  <2>. QED
    BY <1>6, <2>3, <2>4 DEF MakeTree, TypeOK
<1>7. ASSUME NEW n \in Node, MakeLock(n) PROVE TypeOK'
  <2>1. i[n] \in Index /\ pc[n] = "locks"
    BY <1>7 DEF MakeLock, TypeOK
  <2>2. PICK vs \in SUBSET {"lock", "reader"} : Make(n, {<<v, n, i[n]>> : v \in vs})
    BY <1>7, LocksMade
  <2>3. {<<v, n, i[n]>> : v \in vs} \in SUBSET Element
    BY <2>1, <2>2 DEF Element, Vectors
  <2>4. /\ touched' \in [Element -> SUBSET Node] /\ made' \subseteq Element
        /\ fault' \in BOOLEAN /\ UNCHANGED run
    BY <1>3, <2>2, <2>3
  <2>5. /\ i' \in [Node -> Nat] /\ i'[n] \in Index /\ pc' \in [Node -> Pcs]
        /\ \/ pc'[n] \in {"locks", "wait3"}
           \/ pc'[n] = "draw" /\ i'[n] = 0 /\ Passes # 0
        /\ \A m \in Node \ {n} : pc'[m] = pc[m] /\ i'[m] = i[m]
    BY <1>1, <1>7, <2>1 DEF MakeLock, Count
  <2>6. pc'[n] = "draw" => i'[n] \in 0 .. Passes - 1
    BY <1>1, <2>5
  <2>. QED
    BY <1>7, <2>4, <2>5, <2>6 DEF MakeLock, TypeOK
<1>8. ASSUME NEW n \in Node, DrawSide(n) PROVE TypeOK'
  <2>0. side' \in [Node -> Node]
    <3>1. PICK x \in Draws : side' = [side EXCEPT ![n] = Drawn(n, x)]
      BY <1>8 DEF DrawSide
    <3>2. Drawn(n, x) = n
      BY <1>8, OwnSide DEF DrawSide
    <3>. QED
      BY <3>1, <3>2 DEF TypeOK
  <2>1. /\ pc' \in [Node -> Pcs] /\ pc[n] = "draw" /\ pc'[n] = "fill"
        /\ \A m \in Node \ {n} : pc'[m] = pc[m]
    BY <1>1, <1>8 DEF DrawSide
  <2>. QED
    BY <1>8, <2>0, <2>1 DEF DrawSide, TypeOK
<1>9. ASSUME NEW n \in Node, Fill(n) PROVE TypeOK'
  <2>1. i[n] \in 0 .. Passes - 1 /\ j[n] \in 0 .. NumDS - 1 /\ side[n] = n /\ pc[n] = "fill"
    BY <1>1, <1>9 DEF Fill, TypeOK, SideInv
  <2>2. {<<"tree", side[n], j[n]>>} \in SUBSET Element
    BY <1>1, <2>1 DEF Element, Vectors
  <2>3. touched' \in [Element -> SUBSET Node] /\ fault' \in BOOLEAN /\ UNCHANGED run
    BY <1>2, <1>9, <2>2 DEF Fill
  <2>4. j' \in [Node -> Index]
    BY <1>1, <1>9, <2>1 DEF Fill, Count
  <2>5. /\ i' \in [Node -> Nat] /\ pc' \in [Node -> Pcs]
        /\ pc'[n] = "wait3" \/ (pc'[n] \in {"draw", "fill"} /\ i'[n] \in 0 .. Passes - 1)
        /\ \A m \in Node \ {n} : pc'[m] = pc[m] /\ i'[m] = i[m]
    <3>1. CASE j[n] + 1 = NumDS
      BY <1>1, <1>9, <2>1, <3>1 DEF Fill, Count
    <3>2. CASE j[n] + 1 # NumDS
      BY <1>1, <1>9, <2>1, <3>2 DEF Fill
    <3>. QED
      BY <3>1, <3>2
  <2>. QED
    BY <1>9, <2>3, <2>4, <2>5 DEF Fill, TypeOK
<1>10. ASSUME Wait PROVE TypeOK'
  <2>1. /\ pc' \in [Node -> Pcs] /\ \A m \in Node : pc'[m] \in {"clear", "trees", "done"}
        /\ UNCHANGED <<i, j, side, crossover, resized, made, touched, fault, run>>
    BY <1>10, WaitCases
  <2>2. \A m \in Node : pc'[m] = "trees" => i[m] \in Index
    BY <1>1, <1>10, <2>1, WaitCases DEF CounterInv, Node
  <2>. QED
    BY <2>1, <2>2 DEF TypeOK
<1>11. ASSUME Rerun PROVE TypeOK'
  <2>1. run' \in 0 .. RunFreq - 1
    BY <1>11, Facts DEF Rerun, TypeOK
  <2>2. 0 \in Index /\ \A n \in Node : n \in Node
    BY <1>1
  <2>3. /\ pc' \in [Node -> Pcs] /\ i' \in [Node -> Nat] /\ j' \in [Node -> Index]
        /\ side' \in [Node -> Node] /\ crossover' \in [Node -> -1 .. 100]
        /\ made' \subseteq Element /\ touched' \in [Element -> SUBSET Node]
        /\ \A n \in Node : pc'[n] = "wait1"
    BY <1>1, <1>11, <2>2 DEF Rerun, Fresh
  <2>. QED
    BY <1>11, <2>1, <2>3 DEF Rerun, TypeOK
<1>12. ASSUME UNCHANGED vars PROVE TypeOK'
  BY <1>12 DEF vars, TypeOK
<1>. QED
  BY <1>4, <1>5, <1>6, <1>7, <1>8, <1>9, <1>10, <1>11, <1>12 DEF Next, Step, Over
-----------------------------------------------------------------------------
(* The theorems.                                                           *)

LEMMA InitInv ==
  ASSUME Init
  PROVE  IInv
<1>1. 0 \in Index /\ 0 \in Node /\ 1 \in Node /\ Crossover \in -1 .. 100
  BY Facts DEF Node
<1>2. run \in 0 .. RunFreq - 1 /\ fault = FALSE
  BY Facts DEF Init
<1>3. /\ pc \in [Node -> Pcs] /\ i \in [Node -> Nat] /\ j \in [Node -> Index]
      /\ side \in [Node -> Node] /\ crossover \in [Node -> -1 .. 100]
      /\ touched \in [Element -> SUBSET Node] /\ resized = {} /\ made = {}
  BY <1>1 DEF Init, Pcs
<1>4. \A n \in Node : pc[n] = "wait1" /\ i[n] = 0 /\ j[n] = 0 /\ side[n] = n
  BY DEF Init
<1>5. NoFault
  BY <1>2, <1>3, <1>4 DEF NoFault, TypeOK
<1>6. PhaseInv /\ CounterInv /\ SideInv /\ ResizedInv /\ MadeInv
  BY <1>1, <1>4 DEF PhaseInv, Phase, CounterInv, SideInv, ResizedInv, MadeInv, Building
<1>7. TouchedInv
  BY DEF TouchedInv, Init
<1>. QED
  BY <1>5, <1>6, <1>7 DEF IInv

LEMMA Invariance == Spec => []IInv
<1>1. Init => IInv
  BY InitInv
<1>2. IInv /\ [Next]_vars => IInv'
  BY TypeStep, PhaseStep, CounterStep, SideStep, ResizedStep, TouchedStep, FaultStep, MadeStep
     DEF IInv, NoFault
<1>. QED
  BY <1>1, <1>2, PTL DEF Spec

\* numa_BST_init writes to no vector before it has its size, beyond no vector's
\* end and into no tree that does not exist, for any number of trees and passes.
THEOREM NoFaultEver == Spec => []NoFault
<1>1. IInv => NoFault
  BY DEF IInv
<1>. QED
  BY <1>1, Invariance, PTL

\* The two threads need no mutex: no element of any vector is used by both.
THEOREM NothingIsShared == Spec => []NoSharedElement
<1>1. ASSUME IInv, NEW e \in Element PROVE Cardinality(touched[e]) <= 1
  <2>1. touched[e] \in SUBSET {e[2]}
    BY <1>1 DEF IInv, TouchedInv
  <2>2. IsFiniteSet({e[2]}) /\ Cardinality({e[2]}) = 1
    BY FS_Singleton
  <2>3. Cardinality(touched[e]) <= Cardinality({e[2]})
    BY <2>1, <2>2, FS_Subset
  <2>. QED
    BY <2>2, <2>3
<1>2. IInv => NoSharedElement
  BY <1>1 DEF NoSharedElement
<1>. QED
  BY <1>2, Invariance, PTL

\* When one thread is done both are, and every tree and mutex BinarySearchTest
\* may draw exists, whatever the draws and the crossover have been.
THEOREM TestFindsAll == Spec => []ReadyForTest
<1>1. ASSUME IInv, NEW n \in Node, pc[n] = "done"
      PROVE  {"tree", "lock"} \X Node \X Index \subseteq made
  <2>1. \A m \in Node : pc[m] = "done"
    BY <1>1 DEF IInv, PhaseInv, Phase, Building, Node, NoFault, TypeOK, Pcs
  <2>2. \A m \in Node, k \in Index : <<"tree", m, k>> \in made /\ <<"lock", m, k>> \in made
    BY <1>1, <2>1 DEF IInv, MadeInv
  <2>3. ASSUME NEW v \in {"tree", "lock"}, NEW m \in Node, NEW k \in Index
        PROVE  <<v, m, k>> \in made
    <3>1. CASE v = "tree"
      BY <2>2, <3>1
    <3>2. CASE v = "lock"
      BY <2>2, <3>2
    <3>. QED
      BY <3>1, <3>2
  <2>. QED
    BY <2>3
<1>2. IInv => ReadyForTest
  BY <1>1 DEF ReadyForTest
<1>. QED
  BY <1>2, Invariance, PTL
=============================================================================
