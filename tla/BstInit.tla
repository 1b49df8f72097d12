------------------------------ MODULE BstInit ------------------------------
(***************************************************************************)
(* numa_BST_init of Exprs/Examples/TestSuite.cpp: before each run          *)
(* main_BST_test starts one thread per node (when it is built with         *)
(* PIN_INIT), and the two build the trees and the mutexes without locking  *)
(* anything: only the barrier init_bar keeps them apart, and a random      *)
(* draw, compared with crossover, says whose side an element is on.        *)
(*                                                                         *)
(* Elements are the slots of the vectors: <<vector, side, index>> is       *)
(* BSTs<side>[index], BST_lk<side>[index] or BST_reader_lk<side>[index].   *)
(***************************************************************************)
EXTENDS Integers, FiniteSets

CONSTANTS NumDS,      \* num_DS/2, the size of the vectors
          Passes,     \* keyspace/2, inserts into each tree
          Crossover,  \* the option -x
          Draws,      \* bound: values of xDist(gen), from 1 .. 100
          RunFreq     \* the option -f

ASSUME InitAssumption ==
  /\ NumDS \in Nat \ {0} /\ Passes \in Nat /\ RunFreq \in Nat \ {0}
  /\ Crossover \in 0 .. 100 /\ Draws \subseteq 1 .. 100 /\ Draws # {}

Node    == {0, 1}  \* the node argument, which names the thread
Index   == 0 .. NumDS - 1
Vectors == {"tree", "lock", "reader"}
Element == Vectors \X Node \X Index

\* The order in which node 0 resizes the vectors.
Resizes == <<<<"tree", 0>>, <<"tree", 1>>, <<"lock", 0>>, <<"lock", 1>>,
             <<"reader", 0>>, <<"reader", 1>>>>

VARIABLES pc, i, j,   \* where a thread is, and its loop counters
          side,       \* the side its current pass inserts into
          crossover,  \* its parameter, which it overwrites
          resized,    \* the vectors that have their size
          made,       \* the elements that have been created in this run
          touched,    \* history: the threads that have used each element
          fault,      \* an element beyond a vector's end, or null, was used
          run         \* the runs main_BST_test has finished

vars == <<pc, i, j, side, crossover, resized, made, touched, fault, run>>

Fresh ==
  /\ pc' = [n \in Node |-> "wait1"] /\ i' = [n \in Node |-> 0]
  /\ j' = [n \in Node |-> 0] /\ side' = [n \in Node |-> n]
  /\ crossover' = [n \in Node |-> Crossover]
  /\ made' = {} /\ touched' = [e \in Element |-> {}]

Init ==
  /\ pc = [n \in Node |-> "wait1"] /\ i = [n \in Node |-> 0]
  /\ j = [n \in Node |-> 0] /\ side = [n \in Node |-> n]
  /\ crossover = [n \in Node |-> Crossover]
  /\ resized = {} /\ made = {} /\ touched = [e \in Element |-> {}]
  /\ fault = FALSE /\ run = 0

Goto(n, from, to) == pc[n] = from /\ pc' = [pc EXCEPT ![n] = to]

\* The loop body runs for counter value k < bound and comes back to "from".
Loop(n, from, to, k, bound) ==
  Goto(n, from, IF k[n] + 1 < bound THEN from ELSE to)

Count(n, k, bound) == [k EXCEPT ![n] = IF @ + 1 < bound THEN @ + 1 ELSE 0]
-----------------------------------------------------------------------------
InitBarOfTest == 4  \* faulty: init_bar made with num_threads, like bar

InitBarCount == 2

BarrierOfOne(from, to) ==  \* faulty: nobody waits for the other thread
  \E n \in Node : pc[n] = from /\ pc' = [pc EXCEPT ![n] = to]

Barrier(from, to) ==
  /\ Cardinality({n \in Node : pc[n] = from}) = InitBarCount
  /\ pc' = [n \in Node |-> IF pc[n] = from THEN to ELSE pc[n]]

Wait ==
  /\ \/ Barrier("wait1", "clear") \/ Barrier("wait2", "trees")
     \/ Barrier("wait3", "done")
  /\ UNCHANGED <<i, j, side, crossover, resized, made, touched, fault, run>>

KeepCrossover(n) ==  \* faulty: the parameter is used as it comes
  /\ Goto(n, "clear", IF n = 0 THEN "resize" ELSE "wait2")
  /\ UNCHANGED <<i, j, side, crossover, resized, made, touched, fault, run>>

\* crossover = -1: no draw is below it any more.
ClearCrossover(n) ==
  /\ Goto(n, "clear", IF n = 0 THEN "resize" ELSE "wait2")
  /\ crossover' = [crossover EXCEPT ![n] = -1]
  /\ UNCHANGED <<i, j, side, resized, made, touched, fault, run>>

Resize ==
  /\ Loop(0, "resize", "wait2", i, 6)
  /\ i' = Count(0, i, 6)
  /\ resized' = resized \cup {Resizes[i[0] + 1]}
  /\ UNCHANGED <<j, side, crossover, made, touched, fault, run>>

\* The side an element goes to when x has been drawn.
Drawn(n, x) == IF x <= crossover[n] THEN 1 - n ELSE n

Use(n, es) ==
  /\ touched' = [e \in Element |-> IF e \in es THEN touched[e] \cup {n} ELSE touched[e]]
  /\ UNCHANGED run

Make(n, es) ==
  /\ Use(n, es)
  /\ fault' = (fault \/ \E e \in es : <<e[1], e[2]>> \notin resized)
  /\ made' = made \cup es

MakeTree(n) ==
  /\ Loop(n, "trees", "locks", i, NumDS)
  /\ i' = Count(n, i, NumDS)
  /\ \E x \in Draws : Make(n, {<<"tree", Drawn(n, x), i[n]>>})
  /\ UNCHANGED <<j, side, crossover, resized>>

MakeLockOfNode0(n) ==  \* faulty: node 1 makes no mutexes, as it makes no reader locks
  /\ Loop(n, "locks", IF Passes = 0 THEN "wait3" ELSE "draw", i, NumDS)
  /\ i' = Count(n, i, NumDS)
  /\ \E x \in Draws :
       Make(n, {<<v, Drawn(n, x), i[n]>> :
                  v \in IF n = 0 THEN {"lock", "reader"} ELSE {}})
  /\ UNCHANGED <<j, side, crossover, resized>>

\* Only the thread of node 0 makes reader locks.
MakeLock(n) ==
  /\ Loop(n, "locks", IF Passes = 0 THEN "wait3" ELSE "draw", i, NumDS)
  /\ i' = Count(n, i, NumDS)
  /\ \E x \in Draws :
       Make(n, {<<v, Drawn(n, x), i[n]>> :
                  v \in IF n = 0 THEN {"lock", "reader"} ELSE {"lock"}})
  /\ UNCHANGED <<j, side, crossover, resized>>

DrawSide(n) ==
  /\ Goto(n, "draw", "fill")
  /\ \E x \in Draws : side' = [side EXCEPT ![n] = Drawn(n, x)]
  /\ UNCHANGED <<i, j, crossover, resized, made, touched, fault, run>>

\* One insert into the tree j of the pass's side; i counts the passes.
Fill(n) ==
  LET e == <<"tree", side[n], j[n]>>
      endOfPass == j[n] + 1 = NumDS IN
  /\ Goto(n, "fill", IF ~endOfPass THEN "fill"
                     ELSE IF i[n] + 1 < Passes THEN "draw" ELSE "wait3")
  /\ j' = Count(n, j, NumDS)
  /\ i' = IF endOfPass THEN Count(n, i, Passes) ELSE i
  /\ Use(n, {e}) /\ fault' = (fault \/ e \notin made)
  /\ UNCHANGED <<side, crossover, resized, made>>

\* main_BST_test joins both, runs the test, and main may call it again: the
\* vectors keep their size, the old trees and locks are overwritten.
Rerun ==
  /\ \A n \in Node : pc[n] = "done"
  /\ run + 1 < RunFreq /\ run' = run + 1
  /\ Fresh /\ UNCHANGED <<resized, fault>>

Over == (\A n \in Node : pc[n] = "done") /\ run + 1 = RunFreq /\ UNCHANGED vars

Step(n) ==
  \/ ClearCrossover(n) \/ (n = 0 /\ Resize)
  \/ MakeTree(n) \/ MakeLock(n) \/ DrawSide(n) \/ Fill(n)

Next == (\E n \in Node : Step(n)) \/ Wait \/ Rerun \/ Over

Spec == Init /\ [][Next]_vars
FairSpec == Spec /\ (\A n \in Node : WF_vars(Step(n))) /\ WF_vars(Wait) /\ WF_vars(Rerun)
-----------------------------------------------------------------------------
(* Properties.                                                             *)

Pcs == {"wait1", "clear", "resize", "wait2", "trees", "locks", "draw", "fill",
        "wait3", "done"}

\* The variables have the types of the code's, and the loop counters stay
\* within the vectors and the passes: the loops use no index out of range.
TypeOK ==
  /\ pc \in [Node -> Pcs] /\ side \in [Node -> Node]
  /\ crossover \in [Node -> -1 .. 100]
  /\ i \in [Node -> Nat] /\ j \in [Node -> Index]
  /\ \A n \in Node :
       /\ pc[n] \in {"trees", "locks"} => i[n] \in Index
       /\ pc[n] = "resize" => i[n] + 1 \in DOMAIN Resizes
       /\ pc[n] \in {"draw", "fill"} => i[n] \in 0 .. Passes - 1
  /\ resized \subseteq Vectors \X Node /\ made \subseteq Element
  /\ touched \in [Element -> SUBSET Node]
  /\ fault \in BOOLEAN /\ run \in 0 .. RunFreq - 1

\* No thread uses an element of a vector that has not got its size or an index
\* out of its range, or inserts into a tree that does not exist.
NoFault == TypeOK /\ ~fault

\* The threads hold no locks, and need none: within a run no element is used
\* by both of them.
NoSharedElement == \A e \in Element : Cardinality(touched[e]) <= 1

\* When both threads are done every tree and every mutex the test locks has
\* been made, so BinarySearchTest finds all of them whatever it draws.
ReadyForTest ==
  (\E n \in Node : pc[n] = "done") => {"tree", "lock"} \X Node \X Index \subseteq made

\* The initialisation of every run comes to its end.
Initialised == <>(run + 1 = RunFreq /\ \A n \in Node : pc[n] = "done")
=============================================================================
