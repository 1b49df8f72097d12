-------------------------- MODULE BstTransactions --------------------------
(***************************************************************************)
(* BinarySearchTest of Exprs/Examples/TestSuite.cpp: benchmark threads     *)
(* pinned to two NUMA nodes look keys up in the trees of their own node,   *)
(* and move keys between two trees in transactions that hold the locks of  *)
(* both.  A tree <<s, d>> is BSTs<s>[d]; its lock is BST_lk<s>[d].         *)
(*                                                                         *)
(* Every lock(), tree operation and unlock() is a step of its own.  The    *)
(* operation counters and the interval log, which touch neither locks nor  *)
(* trees, are in module IntervalLog.                                       *)
(***************************************************************************)
EXTENDS Naturals, TreeValues

CONSTANTS Threads0, Threads1,  \* the threads whose node argument is 0 and 1
          NumDS,               \* num_DS/2, the number of trees on each side
          NoThread, NoJob

Threads == Threads0 \cup Threads1
DS      == 0 .. NumDS - 1
Side    == {0, 1}
Tree    == Side \X DS

ASSUME TransactionAssumption ==
  /\ NumDS \in Nat
  /\ NoThread \notin Threads
  /\ Threads0 \cap Threads1 = {}

\* One iteration of the loop: which locks it takes and in which order, which
\* tree it removes the key from and which it inserts the key into.
Job == [kind : {"lookup", "transfer"}, fst : Tree, snd : Tree,
        src : Tree, dst : Tree, key : Keys]

VARIABLES pc,     \* where each thread is
          job,    \* the locals of each thread's current iteration
          owner,  \* the thread that holds each tree's mutex
          trees   \* the contents of each tree

vars == <<pc, job, owner, trees>>

Init ==
  /\ pc = [t \in Threads |-> "start"]
  /\ job = [t \in Threads |-> NoJob]
  /\ owner = [l \in Tree |-> NoThread]
     \* numa_BST_init inserts random keys into every tree, numa_BST_single_init
     \* into those of the first half only
  /\ trees \in [Tree -> TreeValue]

Goto(t, from, to) == pc[t] = from /\ pc' = [pc EXCEPT ![t] = to]
-----------------------------------------------------------------------------
(* What an iteration may do.                                               *)

LookupJobs(side) ==
  {[kind |-> "lookup", fst |-> l, snd |-> l, src |-> l, dst |-> l, key |-> k] :
      l \in {side} \X DS, k \in Keys}

\* txn % 4 in {0, 1}: side 0 is locked before side 1, the key goes either way.
CrossJobs ==
  {[kind |-> "transfer", fst |-> <<0, a>>, snd |-> <<1, b>>,
    src |-> IF toSide1 THEN <<0, a>> ELSE <<1, b>>,
    dst |-> IF toSide1 THEN <<1, b>> ELSE <<0, a>>, key |-> k] :
      a \in DS, b \in DS, toSide1 \in BOOLEAN, k \in Keys}

\* txn % 4 in {2, 3}: two trees of one side, the lower index locked first.
\* The iteration in which both indices are the same does nothing (continue).
SameSideJob(s, a, b, k) ==
  [kind |-> "transfer",
   fst |-> <<s, IF a < b THEN a ELSE b>>, snd |-> <<s, IF a < b THEN b ELSE a>>,
   src |-> <<s, a>>, dst |-> <<s, b>>, key |-> k]

UnorderedJob(s, a, b, k) ==  \* faulty: locks in the order the indices were drawn
  [SameSideJob(s, a, b, k) EXCEPT !.fst = <<s, a>>, !.snd = <<s, b>>]

UnorderedJobs ==  \* faulty: see UnorderedJob
  {UnorderedJob(d[1], d[2], d[3], d[4]) :
      d \in {e \in Side \X DS \X DS \X Keys : e[2] # e[3]}}

SameSideJobs ==
  {SameSideJob(d[1], d[2], d[3], d[4]) :
      d \in {e \in Side \X DS \X DS \X Keys : e[2] # e[3]}}

Pick(t) ==
  /\ Goto(t, "loop", "lock1")
  /\ \E j \in LookupJobs(IF t \in Threads0 THEN 0 ELSE 1)
              \cup CrossJobs \cup SameSideJobs :
        job' = [job EXCEPT ![t] = j]
  /\ UNCHANGED <<owner, trees>>
-----------------------------------------------------------------------------
Acquire(t, l) ==
  /\ owner[l] = NoThread
  /\ owner' = [owner EXCEPT ![l] = t]
  /\ UNCHANGED <<job, trees>>

Release(t, l) ==
  /\ owner' = [owner EXCEPT ![l] = NoThread]
  /\ UNCHANGED trees

Lock1(t) ==
  /\ Goto(t, "lock1", IF job[t].kind = "lookup" THEN "lookup" ELSE "lock2")
  /\ Acquire(t, job[t].fst)

Lock2Unguarded(t) ==  \* faulty: the second lock is taken from its holder
  /\ Goto(t, "lock2", "remove")
  /\ owner' = [owner EXCEPT ![job[t].snd] = t]
  /\ UNCHANGED <<job, trees>>

Lock2(t) ==
  /\ Goto(t, "lock2", "remove")
  /\ Acquire(t, job[t].snd)

Remove(t) ==
  /\ Goto(t, "remove", "insert")
  /\ trees' = [trees EXCEPT ![job[t].src] = RemoveKey(@, job[t].key)]
  /\ UNCHANGED <<job, owner>>

InsertIntoSource(t) ==  \* faulty: the two trees of the transaction mixed up
  /\ Goto(t, "insert", "unlock1")
  /\ trees' = [trees EXCEPT ![job[t].src] = InsertKey(@, job[t].key)]
  /\ UNCHANGED <<job, owner>>

Insert(t) ==
  /\ Goto(t, "insert", "unlock1")
  /\ trees' = [trees EXCEPT ![job[t].dst] = InsertKey(@, job[t].key)]
  /\ UNCHANGED <<job, owner>>

\* The level a lookup returns is not used.
Lookup(t) ==
  /\ Goto(t, "lookup", "unlock1")
  /\ UNCHANGED <<job, owner, trees>>

Unlock1(t) ==
  /\ Goto(t, "unlock1", IF job[t].kind = "lookup" THEN "loop" ELSE "unlock2")
  /\ Release(t, job[t].fst)
  /\ job' = IF job[t].kind = "lookup" THEN [job EXCEPT ![t] = NoJob] ELSE job

Unlock2Missing(t) ==  \* faulty: the second lock is never given back
  /\ Goto(t, "unlock2", "loop")
  /\ job' = [job EXCEPT ![t] = NoJob]
  /\ UNCHANGED <<owner, trees>>

Unlock2(t) ==
  /\ Goto(t, "unlock2", "loop")
  /\ Release(t, job[t].snd)
  /\ job' = [job EXCEPT ![t] = NoJob]
-----------------------------------------------------------------------------
(* The two waits on the barrier bar, before the loop and after it.  The    *)
(* loop ends when the thread's own clock has passed duration: any test of  *)
(* the loop condition may be that one.                                     *)

ReachStart(t) == Goto(t, "start", "startBar") /\ UNCHANGED <<job, owner, trees>>

LeaveLoop(t) == Goto(t, "loop", "endBar") /\ UNCHANGED <<job, owner, trees>>

StartTogether ==
  /\ \A t \in Threads : pc[t] = "startBar"
  /\ pc' = [t \in Threads |-> "loop"]
  /\ UNCHANGED <<job, owner, trees>>

EndTogether ==
  /\ \A t \in Threads : pc[t] = "endBar"
  /\ pc' = [t \in Threads |-> "done"]
  /\ UNCHANGED <<job, owner, trees>>

\* main_BST_test has joined every thread.
Joined == (\A t \in Threads : pc[t] = "done") /\ UNCHANGED vars

Step(t) ==
  \/ ReachStart(t) \/ Pick(t) \/ LeaveLoop(t)
  \/ Lock1(t) \/ Lock2(t)
  \/ Remove(t) \/ Insert(t) \/ Lookup(t)
  \/ Unlock1(t) \/ Unlock2(t)

Next == (\E t \in Threads : Step(t)) \/ StartTogether \/ EndTogether \/ Joined

Spec == Init /\ [][Next]_vars

\* Threads run (weak fairness), and a thread that tests the loop condition
\* again and again finds its duration over (strong fairness).
Fairness ==
  /\ \A t \in Threads : WF_vars(Step(t)) /\ SF_vars(LeaveLoop(t))
  /\ WF_vars(StartTogether) /\ WF_vars(EndTogether)

FairSpec == Spec /\ Fairness
-----------------------------------------------------------------------------
(* Properties.                                                             *)

Pcs == {"start", "startBar", "loop", "lock1", "lock2", "lookup", "remove",
        "insert", "unlock1", "unlock2", "endBar", "done"}

\* The steps at which a thread has a job.
Busy == {"lock1", "lock2", "lookup", "remove", "insert", "unlock1", "unlock2"}

\* The variables have the types of the code's: a thread inside an iteration
\* has chosen its locks, trees and key, and every tree is well formed, a root
\* existing exactly when a key is stored.
TypeOK ==
  /\ pc \in [Threads -> Pcs]
  /\ job \in [Threads -> Job \cup {NoJob}]
  /\ \A t \in Threads : pc[t] \in Busy => job[t] \in Job
  /\ owner \in [Tree -> Threads \cup {NoThread}]
  /\ trees \in [Tree -> TreeValue]

\* The locks a thread holds at each step.
HeldAt(t) ==
  (IF pc[t] \in {"lock2", "lookup", "remove", "insert", "unlock1"}
   THEN {job[t].fst} ELSE {})
  \cup
  (IF pc[t] \in {"lookup", "remove", "insert", "unlock1", "unlock2"}
   THEN {job[t].snd} ELSE {})

\* The trees a thread is working on: those of its transaction from the first
\* of its two tree operations to the second, or the tree it looks up in.
Touching(t) ==
  IF pc[t] \in {"lookup", "remove", "insert"} THEN {job[t].src, job[t].dst} ELSE {}

\* No thread works on a tree while another is looking up in it or is between
\* the remove and the insert of a transaction on it, and whoever works on a
\* tree is the owner of its mutex; and everything has its type.
ExclusiveAccess ==
  /\ TypeOK
  /\ \A t \in Threads : \A l \in Touching(t) : owner[l] = t
  /\ \A t, u \in Threads : t # u => Touching(t) \cap Touching(u) = {}

\* BST_lk0 before BST_lk1, and the lower index first within a side.
Before(l, m) == l[1] < m[1] \/ (l[1] = m[1] /\ l[2] < m[2])

\* No thread ever waits for a lock that comes before, or is, one it holds.
LockOrder ==
  \A t \in Threads : pc[t] = "lock2" =>
     \A l \in Tree : owner[l] = t => Before(l, job[t].snd)

CanMove(t) ==
  \/ pc[t] \in {"start", "loop", "lookup", "remove", "insert", "unlock1", "unlock2"}
  \/ pc[t] = "lock1" /\ owner[job[t].fst] = NoThread
  \/ pc[t] = "lock2" /\ owner[job[t].snd] = NoThread

\* The threads never all wait for each other: some thread can move, or a
\* barrier has all its threads, or everything is over.
NotStuck ==
  \/ \E t \in Threads : CanMove(t)
  \/ \A t \in Threads : pc[t] = "startBar"
  \/ \A t \in Threads : pc[t] = "endBar"
  \/ \A t \in Threads : pc[t] = "done"

\* Between the insert of a transaction and its first unlock the key is in the
\* destination, and it is not the root of the source, whatever the other
\* threads do in the meantime.
TransferLands ==
  \A t \in Threads : pc[t] = "unlock1" /\ job[t].kind = "transfer" =>
     /\ job[t].key \in trees[job[t].dst].keys
     /\ trees[job[t].src].root # job[t].key

\* A transaction counts from its remove on: a tree that is still to receive
\* the key of a transaction is seen with the key in it.
Receiving(l) == {t \in Threads : pc[t] = "insert" /\ job[t].dst = l}

Committed(l) ==
  IF Receiving(l) = {} THEN trees[l]
  ELSE InsertKey(trees[l], job[CHOOSE t \in Receiving(l) : TRUE].key)

Atomic == INSTANCE AtomicTransfers WITH trees <- [l \in Tree |-> Committed(l)]

\* The interleaved removes and inserts of all threads amount to whole
\* transfers executed one at a time.
Serializable == Atomic!Spec

\* Every thread gets through the loop and the final barrier, so main_BST_test
\* joins them all.
Termination == <>(\A t \in Threads : pc[t] = "done")
=============================================================================
