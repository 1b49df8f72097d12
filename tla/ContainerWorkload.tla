------------------------- MODULE ContainerWorkload -------------------------
(***************************************************************************)
(* ArrayTest, StackTest, QueueTest and LinkedListTest of                   *)
(* Exprs/Examples/TestSuite.cpp, whichever of them main was asked to run:  *)
(* threads work on the containers of two sides, mostly on those of their   *)
(* own node, each container under its mutex, then add their counts to ops0 *)
(* or ops1 under globalLK.                                                 *)
(*                                                                         *)
(* A call on a container reads its state and later writes it: two steps,   *)
(* between which the other threads run.  Of a container only the number of *)
(* its nodes is kept; module LinkedContainers has the rest.                *)
(***************************************************************************)
EXTENDS Integers, FiniteSets

CONSTANTS Threads0, Threads1,  \* the threads whose node argument is 0 and 1
          NumThreads,          \* the option -t, the count bar is made with
          NumDS,               \* containers on each side
          NoThread, NoCall,
          Prefill,             \* bound: nodes of a container at the start
          MaxOps               \* bound: iterations of one thread

Threads == Threads0 \cup Threads1
Node(t) == IF t \in Threads0 THEN 0 ELSE 1
Side    == {0, 1}

Tests      == {"array", "stack", "queue", "ll"}
Containers == Side \X (0 .. NumDS - 1)
Call       == [op : {"insert", "remove", "set"}, on : Containers]

ASSUME WorkloadAssumption ==
  /\ NumDS \in Nat \ {0} /\ NumThreads \in Nat /\ Prefill \in Nat /\ MaxOps \in Nat
  /\ IsFiniteSet(Threads)
  /\ Threads0 \cap Threads1 = {} /\ NoThread \notin Threads /\ NoCall \notin Call

VARIABLES test,      \* the test main runs
          pc,
          call,      \* the call each thread is making
          seen,      \* what it has read of the container's state
          owner,     \* of each container's mutex
          nodes,     \* the number of nodes in each container
          ops,       \* the local counter of each thread
          globalLK,  \* the owner of globalLK
          nodeOps,   \* ops0 and ops1
          put, taken \* history: nodes put into and taken from each container

calls    == <<call, seen, owner, nodes, put, taken>>
counters == <<globalLK, nodeOps>>
vars     == <<test, pc, calls, ops, counters>>

Init ==
  /\ test \in Tests
  /\ pc = [t \in Threads |-> "start"]
  /\ call = [t \in Threads |-> NoCall]
  /\ seen = [t \in Threads |-> 0]
  /\ owner = [c \in Containers |-> NoThread]
  /\ nodes \in [Containers -> 0 .. Prefill]
  /\ ops = [t \in Threads |-> 0]
  /\ globalLK = NoThread
  /\ nodeOps = [n \in Side |-> 0]
  /\ put = nodes
  /\ taken = [c \in Containers |-> 0]

Goto(t, from, to) == pc[t] = from /\ pc' = [pc EXCEPT ![t] = to]
-----------------------------------------------------------------------------
(* The barrier: StackTest and LinkedListTest wait before the loop too.     *)

WaitsAtStart == test \in {"stack", "ll"}

Begin(t) ==
  /\ Goto(t, "start", IF WaitsAtStart THEN "startBar" ELSE "loop")
  /\ UNCHANGED <<test, calls, ops, counters>>

Release(from, to) ==
  /\ Cardinality({t \in Threads : pc[t] = from}) = NumThreads
  /\ pc' = [t \in Threads |-> IF pc[t] = from THEN to ELSE pc[t]]

Barrier ==
  /\ Release("startBar", "loop") \/ Release("endBar", "done")
  /\ UNCHANGED <<test, calls, ops, counters>>
-----------------------------------------------------------------------------
(* One iteration.                                                          *)

\* A thread crosses over to the other side's containers when x < crossover;
\* ArrayTest never does and sets an element of the one array of its side.
CallsOf(t) ==
  IF test = "array" THEN {[op |-> "set", on |-> <<Node(t), 0>>]}
  ELSE [op : {"insert", "remove"}, on : Containers]

Choose(t) ==
  /\ Goto(t, "loop", "lock") /\ ops[t] < MaxOps
  /\ \E c \in CallsOf(t) : call' = [call EXCEPT ![t] = c]
  /\ UNCHANGED <<test, seen, owner, nodes, put, taken, ops, counters>>

LockOwnSide(t) ==  \* faulty: the mutex of the thread's side, not the container's
  /\ Goto(t, "lock", "read")
  /\ owner[<<Node(t), call[t].on[2]>>] = NoThread
  /\ owner' = [owner EXCEPT ![<<Node(t), call[t].on[2]>>] = t]
  /\ UNCHANGED <<test, call, seen, nodes, put, taken, ops, counters>>

Lock(t) ==
  /\ Goto(t, "lock", "read")
  /\ owner[call[t].on] = NoThread
  /\ owner' = [owner EXCEPT ![call[t].on] = t]
  /\ UNCHANGED <<test, call, seen, nodes, put, taken, ops, counters>>

Read(t) ==
  /\ Goto(t, "read", "write")
  /\ seen' = [seen EXCEPT ![t] = nodes[call[t].on]]
  /\ UNCHANGED <<test, call, owner, nodes, put, taken, ops, counters>>

\* pop, del and removeHead of an empty container return -1.
Write(t) ==
  LET c == call[t].on IN
  /\ Goto(t, "write", "unlock")
  /\ \/ /\ call[t].op = "insert"
        /\ nodes' = [nodes EXCEPT ![c] = seen[t] + 1]
        /\ put' = [put EXCEPT ![c] = @ + 1]
        /\ UNCHANGED taken
     \/ /\ call[t].op = "remove" /\ seen[t] > 0
        /\ nodes' = [nodes EXCEPT ![c] = seen[t] - 1]
        /\ taken' = [taken EXCEPT ![c] = @ + 1]
        /\ UNCHANGED put
     \/ /\ call[t].op = "set" \/ (call[t].op = "remove" /\ seen[t] = 0)
        /\ UNCHANGED <<nodes, put, taken>>
  /\ UNCHANGED <<test, call, seen, owner, ops, counters>>

UnlockOwnSide(t) ==  \* faulty: a thread that has crossed over keeps the mutex
  /\ Goto(t, "unlock", "loop")
  /\ owner' = [owner EXCEPT ![<<Node(t), call[t].on[2]>>] = NoThread]
  /\ call' = [call EXCEPT ![t] = NoCall]
  /\ seen' = [seen EXCEPT ![t] = 0]
  /\ ops' = [ops EXCEPT ![t] = @ + 1]
  /\ UNCHANGED <<test, nodes, put, taken, counters>>

\* The mutex is given back and the iteration counted.
Unlock(t) ==
  /\ Goto(t, "unlock", "loop")
  /\ owner' = [owner EXCEPT ![call[t].on] = NoThread]
  /\ call' = [call EXCEPT ![t] = NoCall]
  /\ seen' = [seen EXCEPT ![t] = 0]
  /\ ops' = [ops EXCEPT ![t] = @ + 1]
  /\ UNCHANGED <<test, nodes, put, taken, counters>>

\* The duration is over.
LeaveLoop(t) ==
  /\ Goto(t, "loop", "lockGlobal")
  /\ UNCHANGED <<test, calls, ops, counters>>
-----------------------------------------------------------------------------
(* The total under globalLK: += reads it and writes it.                    *)

LockGlobal(t) ==
  /\ Goto(t, "lockGlobal", "load")
  /\ globalLK = NoThread /\ globalLK' = t
  /\ UNCHANGED <<test, calls, ops, nodeOps>>

Load(t) ==
  /\ Goto(t, "load", "store")
  /\ seen' = [seen EXCEPT ![t] = nodeOps[Node(t)]]
  /\ UNCHANGED <<test, call, owner, nodes, put, taken, ops, counters>>

StoreAll(t) ==  \* faulty: = instead of +=
  /\ Goto(t, "store", "unlockGlobal")
  /\ nodeOps' = [nodeOps EXCEPT ![Node(t)] = ops[t]]
  /\ UNCHANGED <<test, calls, ops, globalLK>>

Store(t) ==
  /\ Goto(t, "store", "unlockGlobal")
  /\ nodeOps' = [nodeOps EXCEPT ![Node(t)] = seen[t] + ops[t]]
  /\ UNCHANGED <<test, calls, ops, globalLK>>

UnlockGlobal(t) ==
  /\ Goto(t, "unlockGlobal", "endBar")
  /\ globalLK' = NoThread
  /\ UNCHANGED <<test, calls, ops, nodeOps>>

\* main has joined every thread and prints ops0 and ops1.
Joined == (\A t \in Threads : pc[t] = "done") /\ UNCHANGED vars

Step(t) ==
  \/ Begin(t) \/ Choose(t) \/ LeaveLoop(t)
  \/ Lock(t) \/ Read(t) \/ Write(t) \/ Unlock(t)
  \/ LockGlobal(t) \/ Load(t) \/ Store(t) \/ UnlockGlobal(t)

Next == (\E t \in Threads : Step(t)) \/ Barrier \/ Joined

Spec == Init /\ [][Next]_vars

\* Threads run; one that tests the loop condition again and again finds the
\* duration over.
Fairness ==
  /\ \A t \in Threads : WF_vars(Step(t)) /\ SF_vars(LeaveLoop(t))
  /\ WF_vars(Barrier)

FairSpec == Spec /\ Fairness
-----------------------------------------------------------------------------
(* Properties.                                                             *)

Pcs == {"start", "startBar", "loop", "lock", "read", "write", "unlock",
        "lockGlobal", "load", "store", "unlockGlobal", "endBar", "done"}

\* The variables have the types of the code's, and a thread is making a call
\* exactly between choosing it and giving the mutex back.
TypeOK ==
  /\ test \in Tests /\ pc \in [Threads -> Pcs]
  /\ call \in [Threads -> Call \cup {NoCall}]
  /\ \A t \in Threads : (call[t] # NoCall) <=> pc[t] \in {"lock", "read", "write", "unlock"}
  /\ seen \in [Threads -> Nat] /\ ops \in [Threads -> Nat]
  /\ owner \in [Containers -> Threads \cup {NoThread}]
  /\ globalLK \in Threads \cup {NoThread}
  /\ nodeOps \in [Side -> Nat] /\ nodes \in [Containers -> Nat]

\* No call's effect is lost and none works on a state that another call has
\* changed since it was read: the nodes in a container are those put into it
\* and not taken from it.
NodesAccountedFor ==
  /\ TypeOK
  /\ \A c \in Containers : nodes[c] + taken[c] = put[c]

\* A thread has added its count to the total of its node.
Added(t) == pc[t] \in {"unlockGlobal", "endBar", "done"}

Iterations(t) == {t} \X (1 .. ops[t])

Counted(n) == UNION {Iterations(t) : t \in {s \in Threads : Node(s) = n /\ Added(s)}}

\* The totals are the numbers of iterations of the threads that have added
\* theirs, each under its own node whichever side it worked on, except for the
\* one total that is being written.
OpsAccountedFor == \A n \in Side : nodeOps[n] = Cardinality(Counted(n))

\* When the barrier's count is the number of threads started, all are joined.
Termination ==
  NumThreads = Cardinality(Threads) => <>(\A t \in Threads : pc[t] = "done")
=============================================================================
