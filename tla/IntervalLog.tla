---------------------------- MODULE IntervalLog ----------------------------
(***************************************************************************)
(* How BinarySearchTest (Exprs/Examples/TestSuite.cpp) counts operations,  *)
(* and how main_BST_test (main.cpp) reports them, over run_freq runs.      *)
(*                                                                         *)
(* A thread counts its iterations, copies the count into the next slot of  *)
(* its own vector localOps when an interval is over, and finally adds the  *)
(* vector to the one of its node under globalLK.  What an iteration does   *)
(* to the trees is in module BstTransactions; here it either counts or is  *)
(* skipped (the continue of a transaction between a tree and itself).      *)
(*                                                                         *)
(* An iteration touches nothing of another thread, so it is one step.      *)
(* Time is in whole seconds since a thread's startTimer.  It matters only  *)
(* where the code reads the clock: a thread keeps the last value it read,  *)
(* and the next one is any later value.                                    *)
(***************************************************************************)
EXTENDS Integers, Sequences, FiniteSets

CONSTANTS Threads0, Threads1,  \* the threads of node 0 and of node 1
          NumThreads,          \* the option -t, the count bar is made with
          Duration, Interval,  \* the options -D and -i
          RunFreq,             \* the option -f
          InitOps,             \* what the uninitialised counter may hold
          NoThread,
          MaxOps,              \* bound: iterations counted by one thread
          MaxTime              \* bound: the latest time a thread reads

Threads == Threads0 \cup Threads1
Nodes   == {0, 1}
Node(t) == IF t \in Threads0 THEN 0 ELSE 1

\* main starts num_threads/2 threads for each node.  An interval longer than
\* the duration would leave the vectors without a slot.
ASSUME LogAssumption ==
  /\ Duration \in Nat /\ Interval \in 1 .. Duration
  /\ MaxTime \in Nat /\ MaxTime >= Duration
  /\ RunFreq \in Nat \ {0} /\ MaxOps \in Nat /\ InitOps \subseteq Nat
  /\ Cardinality(Threads0) = NumThreads \div 2
  /\ Cardinality(Threads1) = NumThreads \div 2
  /\ Threads0 \cap Threads1 = {} /\ NoThread \notin Threads

Slots == Duration \div Interval
Slot  == 1 .. Slots
Zeros == [i \in Slot |-> 0]

VARIABLES
  pc, clock, ops, localOps,
  logged,     \* intervalIdx of each thread
  index,      \* the slot the merge loop of each thread is at
  loaded,     \* what that loop has read of the slot's sum
  globalLK,   \* the thread that holds globalLK
  globalOps,  \* globalOps0 and globalOps1
  nodeOps,    \* ops0 and ops1
  reported,   \* num_ops0 and num_ops1, a pair for each run
  base,       \* history: what ops held when the thread started
  merged,     \* history: the sums of what the threads of a node had to add
  executed    \* history: the operations the threads of a node had executed

own    == <<ops, localOps, logged, base>>
merge  == <<index, loaded>>
shared == <<globalLK, globalOps, nodeOps, reported, merged, executed>>
vars   == <<pc, clock, own, merge, shared>>

Init ==
  /\ pc = [t \in Threads |-> "start"]
  /\ clock = [t \in Threads |-> 0]
  /\ ops \in [Threads -> InitOps]
  /\ base = ops
  /\ localOps = [t \in Threads |-> Zeros]
  /\ logged = [t \in Threads |-> 0]
  /\ index = [t \in Threads |-> 1]
  /\ loaded = [t \in Threads |-> 0]
  /\ globalLK = NoThread
  /\ globalOps = [n \in Nodes |-> Zeros]
  /\ nodeOps = [n \in Nodes |-> 0]
  /\ reported = <<>>
  /\ merged = [n \in Nodes |-> Zeros]
  /\ executed = [n \in Nodes |-> 0]

Goto(t, from, to) == pc[t] = from /\ pc' = [pc EXCEPT ![t] = to]
-----------------------------------------------------------------------------
(* The barrier bar lets the threads go when num_threads of them wait.      *)

Arrive(t) ==
  /\ \/ Goto(t, "start", "startBar")
     \/ Goto(t, "unlocked", "endBar")
  /\ UNCHANGED <<clock, own, merge, shared>>

ReleaseLate(from, to) ==  \* faulty: the barrier counts main in
  /\ Cardinality({t \in Threads : pc[t] = from}) = NumThreads + 1
  /\ pc' = [t \in Threads |-> IF pc[t] = from THEN to ELSE pc[t]]

Release(from, to) ==
  /\ Cardinality({t \in Threads : pc[t] = from}) = NumThreads
  /\ pc' = [t \in Threads |-> IF pc[t] = from THEN to ELSE pc[t]]

Barrier ==
  /\ Release("startBar", "loop") \/ Release("endBar", "done")
  /\ UNCHANGED <<clock, own, merge, shared>>
-----------------------------------------------------------------------------
(* The loop.                                                               *)

Later(t, c) == {d \in 0 .. MaxTime : d >= c}

DueAtStart(t, c) == c >= logged[t] * Interval  \* faulty: nextLogTime = startTimer

\* now >= nextLogTime, which moves by one interval with every slot written.
Due(t, c) == c >= (logged[t] + 1) * Interval

\* The iteration before the counter is incremented is skipped over.
Skip(t) ==
  /\ pc[t] = "loop"
  /\ \E c \in Later(t, clock[t]) : c < Duration /\ clock' = [clock EXCEPT ![t] = c]
  /\ UNCHANGED <<pc, own, merge, shared>>

LogEvery(t, c) ==  \* faulty: every interval that is over gets the count
  LET over == {i \in Slot : i * Interval <= c} IN
  /\ ops' = [ops EXCEPT ![t] = @ + 1]
  /\ localOps' = [localOps EXCEPT ![t] =
                    [i \in Slot |-> IF i \in over THEN ops[t] + 1 ELSE @[i]]]
  /\ logged' = [logged EXCEPT ![t] = Cardinality(over)]

\* ops++, and at most one slot is written, even when several intervals are over.
CountAndLog(t, c) ==
  /\ ops' = [ops EXCEPT ![t] = @ + 1]
  /\ IF Due(t, c)
     THEN /\ localOps' = [localOps EXCEPT ![t][logged[t] + 1] = ops[t] + 1]
          /\ logged' = [logged EXCEPT ![t] = @ + 1]
     ELSE UNCHANGED <<localOps, logged>>

\* The clock is read twice: for the loop condition and for the log.
Work(t) ==
  /\ pc[t] = "loop" /\ ops[t] < base[t] + MaxOps
  /\ \E c \in Later(t, clock[t]) : c < Duration /\
       \E d \in Later(t, c) :
          CountAndLog(t, d) /\ clock' = [clock EXCEPT ![t] = d]
  /\ UNCHANGED <<pc, base, merge, shared>>

LeaveLoop(t) ==
  /\ Goto(t, "loop", "lock")
  /\ \E c \in Later(t, clock[t]) : c >= Duration /\ clock' = [clock EXCEPT ![t] = c]
  /\ UNCHANGED <<own, merge, shared>>
-----------------------------------------------------------------------------
(* The merge under globalLK: += loads a sum and stores it.                 *)

LockUnguarded(t) ==  \* faulty: the merge loop is entered without the mutex
  /\ Goto(t, "lock", "load")
  /\ globalLK' = t
  /\ UNCHANGED <<clock, own, merge, globalOps, nodeOps, reported, merged, executed>>

Lock(t) ==
  /\ Goto(t, "lock", "load")
  /\ globalLK = NoThread /\ globalLK' = t
  /\ UNCHANGED <<clock, own, merge, globalOps, nodeOps, reported, merged, executed>>

Load(t) ==
  /\ Goto(t, "load", "store")
  /\ loaded' = [loaded EXCEPT ![t] = globalOps[Node(t)][index[t]]]
  /\ UNCHANGED <<clock, own, index, shared>>

Store(t) ==
  /\ Goto(t, "store", IF index[t] < Slots THEN "load" ELSE "publish")
  /\ globalOps' = [globalOps EXCEPT ![Node(t)][index[t]] = loaded[t] + localOps[t][index[t]]]
  /\ index' = [index EXCEPT ![t] = @ + 1]
  /\ UNCHANGED <<clock, own, loaded, globalLK, nodeOps, reported, merged, executed>>

PublishFirst(t) ==  \* faulty: the first sum instead of the last
  /\ Goto(t, "publish", "unlock")
  /\ nodeOps' = [nodeOps EXCEPT ![Node(t)] = globalOps[Node(t)][1]]
  /\ merged' = [merged EXCEPT ![Node(t)] = [i \in Slot |-> @[i] + localOps[t][i]]]
  /\ executed' = [executed EXCEPT ![Node(t)] = @ + ops[t] - base[t]]
  /\ UNCHANGED <<clock, own, merge, globalLK, globalOps, reported>>

\* ops0 or ops1 becomes the last sum.
Publish(t) ==
  /\ Goto(t, "publish", "unlock")
  /\ nodeOps' = [nodeOps EXCEPT ![Node(t)] = globalOps[Node(t)][Slots]]
  /\ merged' = [merged EXCEPT ![Node(t)] = [i \in Slot |-> @[i] + localOps[t][i]]]
  /\ executed' = [executed EXCEPT ![Node(t)] = @ + ops[t] - base[t]]
  /\ UNCHANGED <<clock, own, merge, globalLK, globalOps, reported>>

Unlock(t) ==
  /\ Goto(t, "unlock", "unlocked")
  /\ globalLK' = NoThread
  /\ UNCHANGED <<clock, own, merge, globalOps, nodeOps, reported, merged, executed>>
-----------------------------------------------------------------------------
(* main_BST_test joins the threads and appends ops0 and ops1; main calls   *)
(* it run_freq times.  New threads come with new counters and vectors; the *)
(* sums in globalOps0 and globalOps1 go on from where they are.            *)

JoinAll ==
  /\ \A t \in Threads : pc[t] = "done"
  /\ reported' = Append(reported, <<nodeOps[0], nodeOps[1]>>)
  /\ UNCHANGED <<globalLK, globalOps, nodeOps, merged, executed>>

AnotherRun == Len(reported) + 1 < RunFreq

NextRun ==
  /\ JoinAll /\ AnotherRun
  /\ pc' = [t \in Threads |-> "start"]
  /\ clock' = [t \in Threads |-> 0]
  /\ ops' \in [Threads -> InitOps] /\ base' = ops'
  /\ localOps' = [t \in Threads |-> Zeros]
  /\ logged' = [t \in Threads |-> 0]
  /\ index' = [t \in Threads |-> 1]
  /\ loaded' = [t \in Threads |-> 0]

LastRun ==
  /\ JoinAll /\ ~AnotherRun
  /\ pc' = [t \in Threads |-> "over"]
  /\ UNCHANGED <<clock, own, merge>>

\* main prints the rows and returns.
Over == (\A t \in Threads : pc[t] = "over") /\ UNCHANGED vars

Step(t) ==
  \/ Arrive(t) \/ Skip(t) \/ Work(t) \/ LeaveLoop(t)
  \/ Lock(t) \/ Load(t) \/ Store(t) \/ Publish(t) \/ Unlock(t)

Next == (\E t \in Threads : Step(t)) \/ Barrier \/ NextRun \/ LastRun \/ Over

Spec == Init /\ [][Next]_vars

\* Threads run, a thread's time passes (LeaveLoop), and a thread that waits
\* for globalLK while others take it once each gets it.
Fairness ==
  /\ \A t \in Threads : WF_vars(Step(t)) /\ WF_vars(LeaveLoop(t))
  /\ WF_vars(Barrier) /\ WF_vars(NextRun) /\ WF_vars(LastRun)

FairSpec == Spec /\ Fairness
-----------------------------------------------------------------------------
(* Properties.                                                             *)

Pcs == {"start", "startBar", "loop", "lock", "load", "store", "publish",
        "unlock", "unlocked", "endBar", "done", "over"}

Merging == {"load", "store", "publish", "unlock"}

\* The variables have the types of the code's, and no vector changes its size.
TypeOK ==
  /\ pc \in [Threads -> Pcs] /\ clock \in [Threads -> 0 .. MaxTime]
  /\ ops \in [Threads -> Nat] /\ base \in [Threads -> InitOps]
  /\ localOps \in [Threads -> [Slot -> Nat]] /\ logged \in [Threads -> Nat]
  /\ index \in [Threads -> 1 .. Slots + 1] /\ loaded \in [Threads -> Nat]
  /\ globalLK \in Threads \cup {NoThread}
  /\ globalOps \in [Nodes -> [Slot -> Nat]] /\ nodeOps \in [Nodes -> Nat]
  /\ reported \in Seq(Nat \X Nat)
  /\ merged \in [Nodes -> [Slot -> Nat]] /\ executed \in [Nodes -> Nat]

\* When the interval divides the duration, localOps[intervalIdx] is never
\* written past the end of the vector, however late a thread reads its clock.
LogInBounds ==
  Duration % Interval = 0 => \A t \in Threads : logged[t] <= Slots

\* One thread at a time is in the merge, the one that holds globalLK.  Whenever
\* nobody is, the sums of both nodes hold exactly what the threads so far had in
\* their vectors, and ops0 and ops1 are the last sums: no addition is lost,
\* repeated or made to the other node's vector.
NothingLost ==
  /\ \A t \in Threads : (pc[t] \in Merging) <=> (globalLK = t)
  /\ globalLK = NoThread =>
       globalOps = merged /\ nodeOps = [n \in Nodes |-> merged[n][Slots]]

\* A thread's log is a cumulative count: every slot it has written counts at
\* least one operation more than the slot before, none counts an operation
\* that has not been executed, and the slots it has not reached are 0.
LogIsCumulative ==
  \A t \in Threads : \A i \in Slot :
     IF i <= logged[t]
     THEN /\ localOps[t][i] \in base[t] + 1 .. ops[t]
          /\ i > 1 => localOps[t][i - 1] < localOps[t][i]
     ELSE localOps[t][i] = 0

\* The totals main_BST_test appends after a run are those of all threads of
\* all runs so far, and no later run takes them back.
ReportsAreTotals ==
  [][\A k \in DOMAIN reported' \ DOMAIN reported :
        /\ reported'[k] = <<merged[0][Slots], merged[1][Slots]>>
        /\ k > 1 => /\ reported[k - 1][1] <= reported'[k][1]
                    /\ reported[k - 1][2] <= reported'[k][2]]_vars

\* With an even number of threads every run ends and main gets to print.
Termination == NumThreads % 2 = 0 => <>(\A t \in Threads : pc[t] = "over")
-----------------------------------------------------------------------------
(* What the header of the printed rows says of them, and the code does not *)
(* guarantee.                                                              *)

\* The counts of a row are operations that were executed.
RowsCountOperations ==
  globalLK = NoThread => \A n \in Nodes : globalOps[n][Slots] <= executed[n]
=============================================================================
