----------------------- MODULE BstTransactionsProofs -----------------------
(***************************************************************************)
(* Theorems about BstTransactions, for any number of threads, trees and    *)
(* keys.  The inductive invariant says which locks a thread holds at each  *)
(* step; everything else follows from it.                                  *)
(***************************************************************************)
EXTENDS BstTransactions, WellFoundedInduction, TLAPS

\* What a job looks like, from the way the loop body computes its locks.
GoodJob(j) ==
  /\ j \in Job
  /\ j.kind = "lookup" => j.fst = j.snd /\ j.src = j.fst /\ j.dst = j.fst
  /\ j.kind = "transfer" =>
       /\ Before(j.fst, j.snd)
       /\ j.src # j.dst
       /\ {j.src, j.dst} = {j.fst, j.snd}

JobInv ==
  \A t \in Threads :
    /\ pc[t] \in Busy => GoodJob(job[t])
    /\ pc[t] \in {"lock2", "remove", "insert", "unlock2"} => job[t].kind = "transfer"
    /\ pc[t] = "lookup" => job[t].kind = "lookup"

\* A mutex belongs to a thread exactly while the thread is between its lock()
\* and its unlock().
OwnerInv == \A t \in Threads : \A l \in Tree : owner[l] = t <=> l \in HeldAt(t)

\* No thread is before the first barrier once one is past it, and none is past
\* the last one before all are.
PhaseInv ==
  /\ (\E t \in Threads : pc[t] \in {"start", "startBar"}) =>
        \A t \in Threads : pc[t] \in {"start", "startBar"}
  /\ (\E t \in Threads : pc[t] = "done") => \A t \in Threads : pc[t] = "done"

\* The key a transaction is about to insert is not the root of its source.
RemovedInv == \A t \in Threads : pc[t] = "insert" => trees[job[t].src].root # job[t].key

IInv == TypeOK /\ JobInv /\ OwnerInv /\ PhaseInv /\ RemovedInv /\ TransferLands
-----------------------------------------------------------------------------
(* Trees and jobs.                                                         *)

\* insert and remove yield well-formed trees; insert stores the key, remove
\* leaves another key, or none, at the root.
LEMMA TreeOps ==
  ASSUME NEW v \in TreeValue, NEW k \in Keys
  PROVE  /\ InsertKey(v, k) \in TreeValue
         /\ RemoveKey(v, k) \in TreeValue
         /\ k \in InsertKey(v, k).keys
         /\ RemoveKey(v, k).root # k
         /\ EmptyTree \in TreeValue
  BY NoKeyAssumption
  DEF InsertKey, RemoveKey, TreeValue, Contents, WellFormed, EmptyTree

\* Whatever an iteration picks, its locks are in order and are those of the
\* trees it works on.
LEMMA PickedJobs ==
  ASSUME NEW side \in Side,
         NEW j \in LookupJobs(side) \cup CrossJobs \cup SameSideJobs
  PROVE  GoodJob(j)
<1>1. CASE j \in LookupJobs(side)
  BY <1>1 DEF LookupJobs, GoodJob, Job, Tree, Side
<1>2. CASE j \in CrossJobs
  <2>1. PICK a \in DS, b \in DS, toSide1 \in BOOLEAN, k \in Keys :
          j = [kind |-> "transfer", fst |-> <<0, a>>, snd |-> <<1, b>>,
               src |-> IF toSide1 THEN <<0, a>> ELSE <<1, b>>,
               dst |-> IF toSide1 THEN <<1, b>> ELSE <<0, a>>, key |-> k]
    BY <1>2 DEF CrossJobs
  <2>2. <<0, a>> \in Tree /\ <<1, b>> \in Tree
    BY DEF Tree, Side
  <2>3. Before(<<0, a>>, <<1, b>>) /\ <<0, a>> # <<1, b>>
    BY DEF Before
  <2>. QED
    BY <2>1, <2>2, <2>3 DEF GoodJob, Job
<1>3. CASE j \in SameSideJobs
  <2>1. PICK s \in Side, a \in DS, b \in DS, k \in Keys :
          a # b /\ j = SameSideJob(s, a, b, k)
    BY <1>3 DEF SameSideJobs
  <2>2. /\ <<s, a>> \in Tree /\ <<s, b>> \in Tree
        /\ <<s, a>> # <<s, b>>
    BY <2>1 DEF Tree
  <2>3. a \in Nat /\ b \in Nat
    BY TransactionAssumption DEF DS
  <2>4. CASE a < b
    BY <2>1, <2>2, <2>4 DEF SameSideJob, GoodJob, Job, Before
  <2>5. CASE b < a
    BY <2>1, <2>2, <2>3, <2>5 DEF SameSideJob, GoodJob, Job, Before
  <2>. QED
    BY <2>1, <2>3, <2>4, <2>5
<1>. QED
  BY <1>1, <1>2, <1>3
-----------------------------------------------------------------------------
(* Types.                                                                  *)

\* Every variable keeps its type, whatever the step.
LEMMA TypeStep == TypeOK /\ JobInv /\ [Next]_vars => TypeOK'
<1> SUFFICES ASSUME TypeOK, JobInv, [Next]_vars PROVE TypeOK'
  OBVIOUS
<1> USE DEF TypeOK, Pcs, Busy, Goto
<1>1. ASSUME NEW t \in Threads, ReachStart(t) \/ LeaveLoop(t) PROVE TypeOK'
  BY <1>1 DEF ReachStart, LeaveLoop
<1>2. ASSUME NEW t \in Threads, Pick(t) PROVE TypeOK'
  <2>1. PICK j \in LookupJobs(IF t \in Threads0 THEN 0 ELSE 1)
                    \cup CrossJobs \cup SameSideJobs :
          job' = [job EXCEPT ![t] = j]
    BY <1>2 DEF Pick
  <2>2. j \in Job
    BY PickedJobs DEF Side, GoodJob
  <2>. QED
    BY <1>2, <2>1, <2>2 DEF Pick
<1>3. ASSUME NEW t \in Threads, Lock1(t) PROVE TypeOK'
  BY <1>3 DEF Lock1, Acquire
<1>4. ASSUME NEW t \in Threads, Lock2(t) PROVE TypeOK'
  BY <1>4 DEF Lock2, Acquire
<1>5. ASSUME NEW t \in Threads, Remove(t) PROVE TypeOK'
  <2>1. /\ job[t].src \in Tree
        /\ RemoveKey(trees[job[t].src], job[t].key) \in TreeValue
    BY <1>5, TreeOps DEF Remove, Job
  <2>2. trees' \in [Tree -> TreeValue]
    BY <1>5, <2>1 DEF Remove
  <2>. QED
    BY <1>5, <2>2 DEF Remove
<1>6. ASSUME NEW t \in Threads, Insert(t) PROVE TypeOK'
  <2>1. /\ job[t].dst \in Tree
        /\ InsertKey(trees[job[t].dst], job[t].key) \in TreeValue
    BY <1>6, TreeOps DEF Insert, Job
  <2>2. trees' \in [Tree -> TreeValue]
    BY <1>6, <2>1 DEF Insert
  <2>. QED
    BY <1>6, <2>2 DEF Insert
<1>7. ASSUME NEW t \in Threads, Lookup(t) PROVE TypeOK'
  BY <1>7 DEF Lookup
<1>8. ASSUME NEW t \in Threads, Unlock1(t) PROVE TypeOK'
  BY <1>8 DEF Unlock1, Release
<1>9. ASSUME NEW t \in Threads, Unlock2(t) PROVE TypeOK'
  BY <1>9 DEF Unlock2, Release
<1>10. CASE StartTogether \/ EndTogether
  BY <1>10 DEF StartTogether, EndTogether
<1>11. CASE UNCHANGED vars
  BY <1>11 DEF vars
<1>. QED
  BY <1>1, <1>2, <1>3, <1>4, <1>5, <1>6, <1>7, <1>8, <1>9, <1>10, <1>11
  DEF Next, Step, Joined
-----------------------------------------------------------------------------
(* Jobs and phases.                                                        *)

\* The locks of an iteration stay in order and fit the trees it works on, and a
\* transaction never comes to a lookup's steps, nor a lookup to a transaction's.
LEMMA JobStep == TypeOK /\ JobInv /\ [Next]_vars => JobInv'
<1> SUFFICES ASSUME TypeOK, JobInv, [Next]_vars PROVE JobInv'
  OBVIOUS
<1> USE DEF TypeOK, JobInv, Busy, Goto
<1>1. ASSUME NEW t \in Threads, ReachStart(t) \/ LeaveLoop(t) PROVE JobInv'
  BY <1>1 DEF ReachStart, LeaveLoop
<1>2. ASSUME NEW t \in Threads, Pick(t) PROVE JobInv'
  <2>1. PICK j \in LookupJobs(IF t \in Threads0 THEN 0 ELSE 1)
                    \cup CrossJobs \cup SameSideJobs :
          job' = [job EXCEPT ![t] = j]
    BY <1>2 DEF Pick
  <2>2. GoodJob(j)
    BY PickedJobs DEF Side
  <2>. QED
    BY <1>2, <2>1, <2>2 DEF Pick
<1>3. ASSUME NEW t \in Threads, Lock1(t) PROVE JobInv'
  <2>1. job[t].kind \in {"lookup", "transfer"}
    BY <1>3 DEF Lock1, Job
  <2>. QED
    BY <1>3, <2>1 DEF Lock1, Acquire
<1>4. ASSUME NEW t \in Threads, Lock2(t) \/ Remove(t) \/ Insert(t) \/ Lookup(t)
      PROVE  JobInv'
  BY <1>4 DEF Lock2, Acquire, Remove, Insert, Lookup
<1>5. ASSUME NEW t \in Threads, Unlock1(t) PROVE JobInv'
  <2>1. job[t].kind \in {"lookup", "transfer"}
    BY <1>5 DEF Unlock1, Job
  <2>. QED
    BY <1>5, <2>1 DEF Unlock1, Release
<1>6. ASSUME NEW t \in Threads, Unlock2(t) PROVE JobInv'
  BY <1>6 DEF Unlock2, Release
<1>7. CASE StartTogether \/ EndTogether
  BY <1>7 DEF StartTogether, EndTogether
<1>8. CASE UNCHANGED vars
  BY <1>8 DEF vars
<1>. QED
  BY <1>1, <1>2, <1>3, <1>4, <1>5, <1>6, <1>7, <1>8 DEF Next, Step, Joined

\* The barriers keep the threads together: none is past the first while another
\* is before it, none past the last while another is not.
LEMMA PhaseStep == TypeOK /\ PhaseInv /\ [Next]_vars => PhaseInv'
<1> SUFFICES ASSUME TypeOK, PhaseInv, [Next]_vars PROVE PhaseInv'
  OBVIOUS
<1> USE DEF TypeOK, PhaseInv
<1>1. ASSUME NEW t \in Threads, NEW from, NEW to, Goto(t, from, to),
             from \notin {"startBar", "done"}, to # "done",
             from = "start" => to = "startBar",
             from # "start" => to \notin {"start", "startBar"}
      PROVE  PhaseInv'
  BY <1>1 DEF Goto
<1>2. ASSUME NEW t \in Threads, Step(t) PROVE PhaseInv'
  BY <1>1, <1>2 DEF Step, ReachStart, LeaveLoop, Pick, Lock1, Lock2, Remove,
                    Insert, Lookup, Unlock1, Unlock2
<1>3. CASE StartTogether \/ EndTogether
  BY <1>3 DEF StartTogether, EndTogether
<1>4. CASE UNCHANGED vars
  BY <1>4 DEF vars
<1>. QED
  BY <1>2, <1>3, <1>4 DEF Next, Joined
-----------------------------------------------------------------------------
(* Locks.                                                                  *)

\* The lock order is irreflexive: the two locks of a transaction differ.
LEMMA BeforeIrreflexive == \A l \in Tree : ~ Before(l, l)
  BY TransactionAssumption DEF Before, Tree, Side, DS

\* A thread takes a free lock and gives back one it holds, so the owners
\* always agree with the threads' progress.
LEMMA OwnerStep == TypeOK /\ JobInv /\ OwnerInv /\ [Next]_vars => OwnerInv'
<1> SUFFICES ASSUME TypeOK, JobInv, OwnerInv, [Next]_vars PROVE OwnerInv'
  OBVIOUS
<1> USE TransactionAssumption DEF TypeOK, OwnerInv, HeldAt
<1>1. ASSUME NEW t \in Threads,
             ReachStart(t) \/ LeaveLoop(t) \/ Pick(t)
      PROVE  OwnerInv'
  BY <1>1 DEF ReachStart, LeaveLoop, Pick, Goto
<1>2. ASSUME NEW t \in Threads, Lock1(t) PROVE OwnerInv'
  <2>1. /\ job[t].fst \in Tree
        /\ job[t].kind = "lookup" => job[t].snd = job[t].fst
        /\ pc[t] = "lock1"
        /\ owner[job[t].fst] = NoThread
    BY <1>2 DEF Lock1, Goto, Acquire, JobInv, Busy, GoodJob, Job
  <2>. QED
    BY <1>2, <2>1 DEF Lock1, Goto, Acquire
<1>3. ASSUME NEW t \in Threads, Lock2(t) PROVE OwnerInv'
  <2>1. /\ job[t].snd \in Tree
        /\ pc[t] = "lock2"
        /\ owner[job[t].snd] = NoThread
    BY <1>3 DEF Lock2, Goto, Acquire, JobInv, Busy, GoodJob, Job
  <2>. QED
    BY <1>3, <2>1 DEF Lock2, Goto, Acquire
<1>4. ASSUME NEW t \in Threads, Remove(t) \/ Insert(t) \/ Lookup(t) PROVE OwnerInv'
  BY <1>4 DEF Remove, Insert, Lookup, Goto
<1>5. ASSUME NEW t \in Threads, Unlock1(t) PROVE OwnerInv'
  <2>1. /\ job[t].fst \in Tree
        /\ pc[t] = "unlock1"
        /\ \/ job[t].kind = "lookup" /\ job[t].snd = job[t].fst
           \/ job[t].kind = "transfer" /\ job[t].snd # job[t].fst
    <3>1. pc[t] = "unlock1" /\ GoodJob(job[t])
      BY <1>5 DEF Unlock1, Goto, JobInv, Busy
    <3>. QED
      BY <3>1, BeforeIrreflexive DEF GoodJob, Job
  <2>. QED
    BY <1>5, <2>1 DEF Unlock1, Goto, Release
<1>6. ASSUME NEW t \in Threads, Unlock2(t) PROVE OwnerInv'
  BY <1>6 DEF Unlock2, Goto, Release, JobInv, Busy, GoodJob, Job
<1>7. CASE StartTogether \/ EndTogether
  BY <1>7 DEF StartTogether, EndTogether
<1>8. CASE UNCHANGED vars
  BY <1>8 DEF vars
<1>. QED
  BY <1>1, <1>2, <1>3, <1>4, <1>5, <1>6, <1>7, <1>8 DEF Next, Step, Joined

\* The owner of every tree a thread works on is that thread.
LEMMA TouchingIsHeld ==
  ASSUME JobInv, OwnerInv, NEW t \in Threads, NEW l \in Touching(t)
  PROVE  l \in Tree /\ owner[l] = t
<1>1. pc[t] \in {"lookup", "remove", "insert"} /\ l \in {job[t].src, job[t].dst}
  BY DEF Touching
<1>2. GoodJob(job[t])
  BY <1>1 DEF JobInv, Busy
<1>3. l \in {job[t].fst, job[t].snd} /\ l \in Tree
  <2>1. job[t].kind \in {"lookup", "transfer"} /\ job[t].src \in Tree /\ job[t].dst \in Tree
    BY <1>2 DEF GoodJob, Job
  <2>. QED
    BY <1>1, <1>2, <2>1 DEF GoodJob
<1>. QED
  BY <1>1, <1>3 DEF OwnerInv, HeldAt
-----------------------------------------------------------------------------
(* Transactions.                                                           *)

\* What a transaction has done to its two trees stays done while it holds
\* their locks.
LEMMA LandStep ==
  IInv /\ [Next]_vars => RemovedInv' /\ TransferLands'
<1> SUFFICES ASSUME IInv, [Next]_vars PROVE RemovedInv' /\ TransferLands'
  OBVIOUS
<1> USE DEF IInv, RemovedInv, TransferLands
<1>1. ASSUME NEW t \in Threads,
             \/ ReachStart(t) \/ LeaveLoop(t) \/ Pick(t)
             \/ Lock1(t) \/ Lock2(t) \/ Lookup(t) \/ Unlock1(t) \/ Unlock2(t)
      PROVE  RemovedInv' /\ TransferLands'
  <2>1. UNCHANGED trees
    BY <1>1 DEF ReachStart, LeaveLoop, Pick, Lock1, Lock2, Acquire, Lookup,
                Unlock1, Unlock2, Release
  <2>2. \A u \in Threads : pc'[u] = "insert" => pc[u] = "insert" /\ job'[u] = job[u]
    BY <1>1 DEF ReachStart, LeaveLoop, Pick, Lock1, Lock2, Acquire, Lookup,
                Unlock1, Unlock2, Release, Goto, TypeOK
  <2>3. \A u \in Threads : pc'[u] = "unlock1" /\ job'[u].kind = "transfer" =>
                             pc[u] = "unlock1" /\ job'[u] = job[u]
    BY <1>1 DEF ReachStart, LeaveLoop, Pick, Lock1, Lock2, Acquire, Lookup,
                Unlock1, Unlock2, Release, Goto, TypeOK, JobInv
  <2>. QED
    BY <2>1, <2>2, <2>3
<1>2. ASSUME NEW t \in Threads, NEW u \in Threads, t # u,
             NEW l \in Touching(t),
             pc[u] \in {"insert", "unlock1"}, job[u].kind = "transfer"
      PROVE  l # job[u].src /\ l # job[u].dst
  <2>1. owner[l] = t
    BY <1>2, TouchingIsHeld
  <2>2. GoodJob(job[u])
    BY <1>2 DEF JobInv, Busy
  <2>3. owner[job[u].fst] = u /\ owner[job[u].snd] = u
    BY <1>2, <2>2 DEF OwnerInv, HeldAt, GoodJob, Job
  <2>. QED
    BY <1>2, <2>1, <2>2, <2>3 DEF GoodJob
<1>3. ASSUME NEW t \in Threads, Remove(t) PROVE RemovedInv' /\ TransferLands'
  <2>1. /\ pc[t] = "remove" /\ pc' = [pc EXCEPT ![t] = "insert"]
        /\ trees' = [trees EXCEPT ![job[t].src] = RemoveKey(@, job[t].key)]
        /\ UNCHANGED job
        /\ GoodJob(job[t])
    BY <1>3 DEF Remove, Goto, JobInv, Busy
  <2>2. RemoveKey(trees[job[t].src], job[t].key).root # job[t].key
    BY <2>1, TreeOps DEF GoodJob, Job, TypeOK
  <2>3. \A u \in Threads : u # t /\ pc[u] \in {"insert", "unlock1"}
                             /\ job[u].kind = "transfer" =>
           job[t].src # job[u].src /\ job[t].src # job[u].dst
    BY <1>2, <2>1 DEF Touching
  <2>4. \A u \in Threads : pc[u] = "insert" => job[u].kind = "transfer"
    BY DEF JobInv
  <2>. QED
    BY <2>1, <2>2, <2>3, <2>4 DEF TypeOK, GoodJob, Job
<1>4. ASSUME NEW t \in Threads, Insert(t) PROVE RemovedInv' /\ TransferLands'
  <2>1. /\ pc[t] = "insert" /\ pc' = [pc EXCEPT ![t] = "unlock1"]
        /\ trees' = [trees EXCEPT ![job[t].dst] = InsertKey(@, job[t].key)]
        /\ UNCHANGED job
        /\ GoodJob(job[t]) /\ job[t].kind = "transfer"
    BY <1>4 DEF Insert, Goto, JobInv, Busy
  <2>2. job[t].key \in InsertKey(trees[job[t].dst], job[t].key).keys
    BY <2>1, TreeOps DEF GoodJob, Job, TypeOK
  <2>3. \A u \in Threads : u # t /\ pc[u] \in {"insert", "unlock1"}
                             /\ job[u].kind = "transfer" =>
           job[t].dst # job[u].src /\ job[t].dst # job[u].dst
    BY <1>2, <2>1 DEF Touching
  <2>4. \A u \in Threads : pc[u] = "insert" => job[u].kind = "transfer"
    BY DEF JobInv
  <2>. QED
    BY <2>1, <2>2, <2>3, <2>4 DEF TypeOK, GoodJob, Job
<1>5. CASE StartTogether \/ EndTogether
  BY <1>5 DEF StartTogether, EndTogether
<1>6. CASE UNCHANGED vars
  BY <1>6 DEF vars
<1>. QED
  BY <1>1, <1>3, <1>4, <1>5, <1>6 DEF Next, Step, Joined
-----------------------------------------------------------------------------
(* The invariant.                                                          *)

\* The threads start without locks and without a transaction.
LEMMA InitIInv == Init => IInv
  BY TransactionAssumption
  DEF Init, IInv, TypeOK, Pcs, Busy, JobInv, OwnerInv, HeldAt, PhaseInv,
      RemovedInv, TransferLands

\* The parts of the invariant are preserved together.
LEMMA NextIInv == IInv /\ [Next]_vars => IInv'
  BY TypeStep, JobStep, OwnerStep, PhaseStep, LandStep DEF IInv

\* Where each thread is decides which locks it holds and what its transaction
\* has done, in every reachable state.
THEOREM Invariance == Spec => []IInv
  BY InitIInv, NextIInv, PTL DEF Spec

\* Types: a thread inside an iteration has a job, and every tree stays well
\* formed.
THEOREM TypeCorrect == Spec => []TypeOK
<1>1. IInv => TypeOK
  BY DEF IInv
<1>. QED
  BY <1>1, Invariance, PTL

\* The per-tree mutexes give each thread its trees for the whole transaction.
THEOREM Exclusion == Spec => []ExclusiveAccess
<1>1. IInv => ExclusiveAccess
  BY TouchingIsHeld DEF IInv, ExclusiveAccess
<1>. QED
  BY <1>1, Invariance, PTL

\* BinarySearchTest takes the locks of a transaction in one global order.
THEOREM Ordered == Spec => []LockOrder
<1>1. IInv => LockOrder
  <2> SUFFICES ASSUME IInv, NEW t \in Threads, pc[t] = "lock2",
                      NEW l \in Tree, owner[l] = t
               PROVE  Before(l, job[t].snd)
    BY DEF LockOrder
  <2>1. GoodJob(job[t]) /\ job[t].kind = "transfer"
    BY DEF IInv, JobInv, Busy
  <2>2. l = job[t].fst
    BY DEF IInv, OwnerInv, HeldAt
  <2>. QED
    BY <2>1, <2>2 DEF GoodJob
<1>. QED
  BY <1>1, Invariance, PTL

\* A moved key is at its destination, and not the root of its source, until
\* the transaction starts to unlock.
THEOREM Landing == Spec => []TransferLands
<1>1. IInv => TransferLands
  BY DEF IInv
<1>. QED
  BY <1>1, Invariance, PTL
-----------------------------------------------------------------------------
(* Freedom from deadlock: of the threads that wait for a lock, one that    *)
(* waits for the last lock in the global order waits for a thread that     *)
(* does not wait.                                                          *)

Wanted(t) == IF pc[t] = "lock1" THEN job[t].fst ELSE job[t].snd

NatLess == OpToRel(<, Nat)

\* A nonempty set of natural numbers has a least element.
LEMMA LeastNatural ==
  \A S \in SUBSET Nat : S # {} => \E r \in S : \A q \in S : ~ (q < r)
<1>1. IsWellFoundedOn(NatLess, Nat)
  BY NatLessThanWellFounded DEF NatLess
<1>2. \A i, j \in Nat : i < j => <<i, j>> \in NatLess
  BY DEF NatLess, OpToRel
<1>3. TAKE S \in SUBSET Nat
<1>4. HAVE S # {}
<1>5. \E r \in S : \A q \in S : ~ (<<q, r>> \in NatLess)
  BY <1>1, <1>4, WFMin
<1>. QED
  BY <1>2, <1>5

\* A number that decreases along Before.
Rank(l) == 2 * NumDS - (l[1] * NumDS + l[2])

\* Going from a lock to a later one makes the rank smaller.
LEMMA RankDecreases ==
  \A l, m \in Tree : Rank(l) \in Nat /\ (Before(l, m) => Rank(m) < Rank(l))
<1> SUFFICES ASSUME NEW l \in Tree, NEW m \in Tree
             PROVE  Rank(l) \in Nat /\ (Before(l, m) => Rank(m) < Rank(l))
  OBVIOUS
<1>1. NumDS \in Nat
  BY TransactionAssumption
<1>2. /\ l[1] \in {0, 1} /\ l[2] \in Nat /\ l[2] < NumDS
      /\ m[1] \in {0, 1} /\ m[2] \in Nat /\ m[2] < NumDS
  BY <1>1 DEF Tree, Side, DS
<1>3. l[1] * NumDS = (IF l[1] = 0 THEN 0 ELSE NumDS)
  BY <1>1, <1>2
<1>4. m[1] * NumDS = (IF m[1] = 0 THEN 0 ELSE NumDS)
  BY <1>1, <1>2
<1>5. Rank(l) \in Nat
  BY <1>1, <1>2, <1>3 DEF Rank
<1>6. Before(l, m) => Rank(m) < Rank(l)
  BY <1>1, <1>2, <1>3, <1>4 DEF Rank, Before
<1>. QED
  BY <1>5, <1>6

\* Whoever holds a lock that a blocked thread wants either can move, or is
\* itself blocked on a later lock.
LEMMA BlockedByLater ==
  ASSUME IInv, NEW t \in Threads, pc[t] \in {"lock1", "lock2"}, ~ CanMove(t)
  PROVE  /\ Wanted(t) \in Tree
         /\ \E u \in Threads :
               \/ CanMove(u)
               \/ pc[u] = "lock2" /\ ~ CanMove(u) /\ Before(Wanted(t), Wanted(u))
<1>1. Wanted(t) \in Tree /\ owner[Wanted(t)] # NoThread
  BY DEF IInv, JobInv, Busy, GoodJob, Job, Wanted, CanMove
<1>2. PICK u \in Threads : owner[Wanted(t)] = u
  BY <1>1 DEF IInv, TypeOK
<1>3. Wanted(t) \in HeldAt(u)
  BY <1>1, <1>2 DEF IInv, OwnerInv
<1>4. CASE pc[u] = "lock2"
  <2>1. Wanted(t) = job[u].fst
    BY <1>3, <1>4 DEF HeldAt
  <2>2. Before(job[u].fst, job[u].snd)
    BY <1>4 DEF IInv, JobInv, Busy, GoodJob
  <2>. QED
    BY <1>1, <1>4, <2>1, <2>2 DEF Wanted
<1>5. CASE pc[u] # "lock2"
  BY <1>1, <1>3, <1>5 DEF HeldAt, CanMove
<1>. QED
  BY <1>1, <1>4, <1>5

\* Some thread can always move, unless all wait at one barrier or all are done.
THEOREM DeadlockFree == Spec => []NotStuck
<1>1. IInv => NotStuck
  <2> SUFFICES ASSUME IInv, \A t \in Threads : ~ CanMove(t)
               PROVE  \/ \A t \in Threads : pc[t] = "startBar"
                      \/ \A t \in Threads : pc[t] = "endBar"
                      \/ \A t \in Threads : pc[t] = "done"
    BY DEF NotStuck
  <2> DEFINE Waiting == {t \in Threads : pc[t] \in {"lock1", "lock2"}}
             Ranks   == {Rank(Wanted(t)) : t \in Waiting}
  <2>1. Waiting = {}
    <3> SUFFICES ASSUME Waiting # {} PROVE FALSE
      OBVIOUS
    <3>1. \A t \in Waiting : Rank(Wanted(t)) \in Nat
      BY BlockedByLater, RankDecreases
    <3>2. PICK r \in Ranks : \A q \in Ranks : ~ (q < r)
      <4>1. Ranks \in SUBSET Nat /\ Ranks # {}
        BY <3>1
      <4> HIDE DEF Ranks
      <4>. QED
        BY <4>1, LeastNatural
    <3>3. PICK t \in Waiting : r = Rank(Wanted(t))
      OBVIOUS
    <3>4. PICK u \in Threads :
            pc[u] = "lock2" /\ Before(Wanted(t), Wanted(u))
      BY BlockedByLater
    <3>5. Rank(Wanted(u)) < r
      BY <3>3, <3>4, BlockedByLater, RankDecreases
    <3>6. Rank(Wanted(u)) \in Ranks
      BY <3>4
    <3>. QED
      BY <3>2, <3>5, <3>6
  <2>2. \A t \in Threads : pc[t] \in {"startBar", "endBar", "done"}
    BY <2>1 DEF CanMove, IInv, TypeOK, Pcs
  <2>. QED
    BY <2>2 DEF IInv, PhaseInv
<1>. QED
  BY <1>1, Invariance, PTL
-----------------------------------------------------------------------------
(* Refinement: the remove of a transaction is where it takes place.        *)

\* A tree is due to receive the key of at most one transaction.
LEMMA ReceivingIsLocked ==
  ASSUME IInv, NEW l \in Tree, NEW t \in Receiving(l)
  PROVE  owner[l] = t /\ Receiving(l) = {t}
<1>1. \A u \in Receiving(l) : u \in Threads /\ owner[l] = u
  BY TouchingIsHeld DEF Receiving, Touching, IInv
<1>. QED
  BY <1>1

\* A step that leaves the trees alone, and every transaction between its
\* remove and its insert where it is, changes no tree as it is seen.
LEMMA SameCommitted ==
  ASSUME UNCHANGED trees,
         \A t \in Threads : (pc'[t] = "insert") <=> (pc[t] = "insert"),
         \A t \in Threads : pc[t] = "insert" => job'[t] = job[t]
  PROVE  UNCHANGED [l \in Tree |-> Committed(l)]
<1> SUFFICES ASSUME NEW l \in Tree PROVE Committed(l)' = Committed(l)
  OBVIOUS
<1>1. Receiving(l)' = Receiving(l)
  BY DEF Receiving
<1>2. CASE Receiving(l) = {}
  BY <1>1, <1>2 DEF Committed
<1>3. CASE Receiving(l) # {}
  <2>1. PICK t \in Receiving(l) : t = CHOOSE u \in Receiving(l) : TRUE
    BY <1>3
  <2>2. job'[t] = job[t]
    BY <2>1 DEF Receiving
  <2>. QED
    BY <1>1, <1>3, <2>1, <2>2 DEF Committed
<1>. QED
  BY <1>2, <1>3

\* The two specifications agree on what a tree is.
LEMMA SameTrees ==
  /\ Atomic!TreeValue = TreeValue
  /\ \A v, k : Atomic!InsertKey(v, k) = InsertKey(v, k)
  /\ \A v, k : Atomic!RemoveKey(v, k) = RemoveKey(v, k)
<1>1. Atomic!TreeValue = TreeValue
  BY DEF Atomic!TreeValue, Atomic!Contents, Atomic!WellFormed,
         TreeValue, Contents, WellFormed
<1>2. \A v, k : Atomic!InsertKey(v, k) = InsertKey(v, k)
  BY DEF Atomic!InsertKey, InsertKey
<1>3. \A v, k : Atomic!RemoveKey(v, k) = RemoveKey(v, k)
  BY DEF Atomic!RemoveKey, RemoveKey, Atomic!EmptyTree, EmptyTree
<1>. QED
  BY <1>1, <1>2, <1>3

\* At the start no key is on its way, and the trees are seen as they are.
LEMMA InitRefines == Init => Atomic!Init
<1> SUFFICES ASSUME Init PROVE [l \in Tree |-> Committed(l)] \in [Tree -> TreeValue]
  BY SameTrees DEF Atomic!Init
<1>1. \A l \in Tree : Receiving(l) = {}
  BY DEF Init, Receiving
<1>. QED
  BY <1>1 DEF Init, Committed

\* The remove of a transaction is a transfer.
LEMMA RemoveRefines ==
  ASSUME IInv, NEW t \in Threads, Remove(t)
  PROVE  Atomic!Next
<1>0. PICK src \in Tree, dst \in Tree, k \in Keys :
        src # dst /\ src = job[t].src /\ dst = job[t].dst /\ k = job[t].key
  BY DEF Remove, Goto, IInv, JobInv, Busy, GoodJob, Job
<1>1. /\ pc \in [Threads -> Pcs] /\ trees \in [Tree -> TreeValue]
      /\ pc[t] = "remove" /\ pc' = [pc EXCEPT ![t] = "insert"]
      /\ trees' = [trees EXCEPT ![src] = RemoveKey(@, k)]
      /\ UNCHANGED job
  BY <1>0 DEF Remove, Goto, IInv, TypeOK
<1>2. /\ src \in Tree /\ dst \in Tree /\ k \in Keys /\ src # dst
      /\ src = job[t].src /\ dst = job[t].dst /\ k = job[t].key
  BY <1>0
<1>3. Receiving(src) = {} /\ Receiving(dst) = {}
  <2>1. owner[src] = t /\ owner[dst] = t
    BY <1>1, <1>2, TouchingIsHeld DEF Touching, IInv
  <2>2. t \notin Receiving(src) /\ t \notin Receiving(dst)
    BY <1>1 DEF Receiving
  <2>. QED
    BY <1>2, <2>1, <2>2, ReceivingIsLocked
<1>4. \A l \in Tree : Receiving(l)' = IF l = dst THEN {t} ELSE Receiving(l)
  <2> TAKE l \in Tree
  <2>1. CASE l = dst
    BY <1>1, <1>2, <1>3, <2>1 DEF Receiving
  <2>2. CASE l # dst
    BY <1>1, <1>2, <2>2 DEF Receiving
  <2>. QED
    BY <2>1, <2>2
<1>5. /\ Committed(src) = trees[src]
      /\ Committed(dst) = trees[dst]
  BY <1>3 DEF Committed
<1>6. Committed(src)' = RemoveKey(Committed(src), k)
  BY <1>1, <1>2, <1>3, <1>4, <1>5 DEF Committed
<1>7. Committed(dst)' = InsertKey(Committed(dst), k)
  <2>1. Receiving(dst)' = {t}
    BY <1>2, <1>4
  <2>2. trees'[dst] = trees[dst] /\ job'[t].key = k
    BY <1>1, <1>2
  <2>3. (CHOOSE u \in {t} : TRUE) = t
    OBVIOUS
  <2>4. Committed(dst)' = InsertKey(trees'[dst], job'[t].key)
    BY <2>1, <2>3 DEF Committed
  <2>. QED
    BY <1>5, <2>2, <2>4
<1>8. \A l \in Tree : l # src /\ l # dst => Committed(l)' = Committed(l)
  <2> SUFFICES ASSUME NEW l \in Tree, l # src, l # dst
               PROVE  Committed(l)' = Committed(l)
    OBVIOUS
  <2>1. Receiving(l)' = Receiving(l) /\ trees'[l] = trees[l] /\ job' = job
    BY <1>1, <1>2, <1>4
  <2>. QED
    BY <2>1 DEF Committed
<1>9. Atomic!Transfer(src, dst, k)
  <2> DEFINE C == [l \in Tree |-> Committed(l)]
             D == [C EXCEPT ![src] = RemoveKey(@, k), ![dst] = InsertKey(@, k)]
  <2>1. \A l \in Tree : Committed(l)' = D[l]
    <3> TAKE l \in Tree
    <3>1. CASE l = src
      BY <1>2, <1>6, <3>1
    <3>2. CASE l = dst
      BY <1>2, <1>7, <3>2
    <3>3. CASE l # src /\ l # dst
      BY <1>2, <1>8, <3>3
    <3>. QED
      BY <3>1, <3>2, <3>3
  <2>2. D = [l \in Tree |-> D[l]]
    OBVIOUS
  <2>3. C' = D
    BY <2>1, <2>2, Zenon
  <2>. QED
    BY <2>3, SameTrees DEF Atomic!Transfer
<1>. QED
  BY <1>2, <1>9 DEF Atomic!Next

\* The insert of a transaction changes no tree as it is seen.
LEMMA InsertRefines ==
  ASSUME IInv, NEW t \in Threads, Insert(t)
  PROVE  UNCHANGED [l \in Tree |-> Committed(l)]
<1>0. PICK dst \in Tree, k \in Keys : dst = job[t].dst /\ k = job[t].key
  BY DEF Insert, Goto, IInv, JobInv, Busy, GoodJob, Job
<1>1. /\ pc \in [Threads -> Pcs] /\ trees \in [Tree -> TreeValue]
      /\ pc[t] = "insert" /\ pc' = [pc EXCEPT ![t] = "unlock1"]
      /\ trees' = [trees EXCEPT ![dst] = InsertKey(@, k)]
      /\ UNCHANGED job
  BY <1>0 DEF Insert, Goto, IInv, TypeOK
<1>2. dst \in Tree /\ dst = job[t].dst /\ k = job[t].key
  BY <1>0
<1>3. Receiving(dst) = {t}
  BY <1>1, <1>2, ReceivingIsLocked DEF Receiving
<1>4. \A l \in Tree : Receiving(l)' = IF l = dst THEN {} ELSE Receiving(l)
  <2> TAKE l \in Tree
  <2>1. CASE l = dst
    BY <1>1, <1>2, <1>3, <2>1 DEF Receiving
  <2>2. CASE l # dst
    BY <1>1, <1>2, <2>2 DEF Receiving
  <2>. QED
    BY <2>1, <2>2
<1>5. Committed(dst)' = Committed(dst)
  <2>1. (CHOOSE u \in {t} : TRUE) = t
    OBVIOUS
  <2>. QED
    BY <1>1, <1>2, <1>3, <1>4, <2>1 DEF Committed
<1>6. \A l \in Tree : l # dst => Committed(l)' = Committed(l)
  <2> SUFFICES ASSUME NEW l \in Tree, l # dst PROVE Committed(l)' = Committed(l)
    OBVIOUS
  <2>1. Receiving(l)' = Receiving(l) /\ trees'[l] = trees[l] /\ job' = job
    BY <1>1, <1>2, <1>4
  <2>. QED
    BY <2>1 DEF Committed
<1>7. \A l \in Tree : Committed(l)' = Committed(l)
  BY <1>5, <1>6
<1>. QED
  BY <1>7, Zenon

\* Every step is a transfer, or changes no tree as it is seen.
LEMMA NextRefines ==
  IInv /\ [Next]_vars => Atomic!Next \/ UNCHANGED [l \in Tree |-> Committed(l)]
<1> SUFFICES ASSUME IInv, [Next]_vars
             PROVE  Atomic!Next \/ UNCHANGED [l \in Tree |-> Committed(l)]
  OBVIOUS
<1>1. ASSUME NEW t \in Threads,
             \/ ReachStart(t) \/ LeaveLoop(t) \/ Pick(t)
             \/ Lock1(t) \/ Lock2(t) \/ Lookup(t) \/ Unlock1(t) \/ Unlock2(t)
      PROVE  UNCHANGED [l \in Tree |-> Committed(l)]
  <2>1. UNCHANGED trees
    BY <1>1 DEF ReachStart, LeaveLoop, Pick, Lock1, Lock2, Acquire, Lookup,
                Unlock1, Unlock2, Release
  <2>2. \A u \in Threads : (pc'[u] = "insert") <=> (pc[u] = "insert")
    BY <1>1 DEF ReachStart, LeaveLoop, Pick, Lock1, Lock2, Acquire, Lookup,
                Unlock1, Unlock2, Release, Goto, IInv, TypeOK
  <2>3. \A u \in Threads : pc[u] = "insert" => job'[u] = job[u]
    BY <1>1 DEF ReachStart, LeaveLoop, Pick, Lock1, Lock2, Acquire, Lookup,
                Unlock1, Unlock2, Release, Goto, IInv, TypeOK
  <2>. QED
    BY <2>1, <2>2, <2>3, SameCommitted
<1>2. CASE StartTogether \/ EndTogether
  BY <1>2, SameCommitted DEF StartTogether, EndTogether
<1>3. CASE UNCHANGED vars
  BY <1>3, SameCommitted DEF vars
<1>. QED
  BY <1>1, <1>2, <1>3, RemoveRefines, InsertRefines DEF Next, Step, Joined

\* Two-phase locking makes the transactions of all threads atomic: the trees
\* change as if whole transfers were executed one at a time.
THEOREM Refinement == Spec => Serializable
<1>1. IInv /\ [Next]_vars => [Atomic!Next]_([l \in Tree |-> Committed(l)])
  BY NextRefines
<1>. QED
  BY <1>1, InitRefines, Invariance, PTL DEF Spec, Serializable, Atomic!Spec
=============================================================================
