---------------------- MODULE ContainerWorkloadProofs ----------------------
(***************************************************************************)
(* Theorems about ContainerWorkload, for any threads, any number of        *)
(* containers and any number of iterations.  Both rest on the same         *)
(* argument, once for the containers and once for the totals: a mutex is   *)
(* held from the read to the write, so what was read is still there.       *)
(***************************************************************************)
EXTENDS ContainerWorkload, FiniteSetTheorems, TLAPS

Inside == {"read", "write", "unlock"}
Adding == {"load", "store", "unlockGlobal"}

\* A mutex has the owner that is inside a call on its container.
OwnerInv ==
  \A t \in Threads : \A c \in Containers :
     (owner[c] = t) <=> (pc[t] \in Inside /\ call[t].on = c)

GlobalInv == \A t \in Threads : (globalLK = t) <=> (pc[t] \in Adding)

\* What a thread has read and not yet written is current.
SeenInv ==
  \A t \in Threads :
     /\ pc[t] = "write" => seen[t] = nodes[call[t].on]
     /\ pc[t] = "store" => seen[t] = nodeOps[Node(t)]

HistoryInv == put \in [Containers -> Nat] /\ taken \in [Containers -> Nat]

IInv ==
  /\ NodesAccountedFor /\ HistoryInv /\ OwnerInv /\ GlobalInv /\ SeenInv
  /\ OpsAccountedFor
-----------------------------------------------------------------------------
(* Types.                                                                  *)

LEMMA NodeIsSide == \A t \in Threads : Node(t) \in Side
  BY DEF Node, Side

\* What a thread may choose is a call.
LEMMA CallsAreCalls ==
  ASSUME NEW t \in Threads
  PROVE  CallsOf(t) \subseteq Call
<1>1. 0 \in 0 .. NumDS - 1
  BY WorkloadAssumption
<1>. QED
  BY <1>1, NodeIsSide DEF CallsOf, Call, Containers

\* Between the choice of a call and its end a thread has a call.
LEMMA CallInHand ==
  ASSUME TypeOK, NEW t \in Threads, pc[t] \in {"lock"} \cup Inside
  PROVE  call[t] \in Call /\ call[t].on \in Containers
  BY DEF TypeOK, Inside, Call

LEMMA TypeStep ==
  ASSUME TypeOK, HistoryInv, [Next]_vars
  PROVE  TypeOK' /\ HistoryInv'
<1> USE DEF TypeOK, HistoryInv, Goto, calls, counters
<1>1. ASSUME NEW t \in Threads, Begin(t) \/ LeaveLoop(t)
      PROVE  TypeOK' /\ HistoryInv'
  BY <1>1 DEF Begin, LeaveLoop, Pcs
<1>2. ASSUME NEW t \in Threads, Choose(t) PROVE TypeOK' /\ HistoryInv'
  <2>1. PICK c \in Call : call' = [call EXCEPT ![t] = c]
    BY <1>2, CallsAreCalls DEF Choose
  <2>2. pc' = [pc EXCEPT ![t] = "lock"] /\ pc[t] = "loop" /\ c # NoCall
    BY <1>2, WorkloadAssumption DEF Choose
  <2>3. /\ pc' \in [Threads -> Pcs] /\ call' \in [Threads -> Call \cup {NoCall}]
        /\ \A s \in Threads : (call'[s] # NoCall) <=> pc'[s] \in {"lock", "read", "write", "unlock"}
    BY <2>1, <2>2 DEF Pcs
  <2>. QED
    BY <1>2, <2>3 DEF Choose
<1>3. ASSUME NEW t \in Threads, Lock(t) PROVE TypeOK' /\ HistoryInv'
  <2>1. call[t].on \in Containers
    BY <1>3, CallInHand DEF Lock
  <2>. QED
    BY <1>3, <2>1 DEF Lock, Pcs
<1>4. ASSUME NEW t \in Threads, Read(t) PROVE TypeOK' /\ HistoryInv'
  <2>1. call[t].on \in Containers
    BY <1>4, CallInHand DEF Read, Inside
  <2>. QED
    BY <1>4, <2>1 DEF Read, Pcs
<1>5. ASSUME NEW t \in Threads, Write(t) PROVE TypeOK' /\ HistoryInv'
  <2>1. call[t].on \in Containers /\ seen[t] \in Nat
    BY <1>5, CallInHand DEF Write, Inside
  <2>2. /\ pc' \in [Threads -> Pcs]
        /\ \A s \in Threads : (call[s] # NoCall) <=> pc'[s] \in {"lock", "read", "write", "unlock"}
    BY <1>5 DEF Write, Pcs
  <2>3. /\ nodes' \in [Containers -> Nat] /\ put' \in [Containers -> Nat]
        /\ taken' \in [Containers -> Nat]
    <3>1. CASE call[t].op = "insert" /\ UNCHANGED taken
               /\ nodes' = [nodes EXCEPT ![call[t].on] = seen[t] + 1]
               /\ put' = [put EXCEPT ![call[t].on] = @ + 1]
      BY <2>1, <3>1
    <3>2. CASE seen[t] > 0 /\ UNCHANGED put
               /\ nodes' = [nodes EXCEPT ![call[t].on] = seen[t] - 1]
               /\ taken' = [taken EXCEPT ![call[t].on] = @ + 1]
      BY <2>1, <3>2
    <3>3. CASE UNCHANGED <<nodes, put, taken>>
      BY <3>3
    <3>. QED
      BY <1>5, <3>1, <3>2, <3>3 DEF Write
  <2>. QED
    BY <1>5, <2>2, <2>3 DEF Write
<1>6. ASSUME NEW t \in Threads, Unlock(t) PROVE TypeOK' /\ HistoryInv'
  <2>1. call[t].on \in Containers
    BY <1>6, CallInHand DEF Unlock, Inside
  <2>2. /\ pc' \in [Threads -> Pcs] /\ call' \in [Threads -> Call \cup {NoCall}]
        /\ \A s \in Threads : (call'[s] # NoCall) <=> pc'[s] \in {"lock", "read", "write", "unlock"}
    BY <1>6 DEF Unlock, Pcs
  <2>. QED
    BY <1>6, <2>1, <2>2 DEF Unlock
<1>7. ASSUME NEW t \in Threads, LockGlobal(t) \/ UnlockGlobal(t)
      PROVE  TypeOK' /\ HistoryInv'
  BY <1>7 DEF LockGlobal, UnlockGlobal, Pcs
<1>8. ASSUME NEW t \in Threads, Load(t) PROVE TypeOK' /\ HistoryInv'
  BY <1>8, NodeIsSide DEF Load, Pcs
<1>9. ASSUME NEW t \in Threads, Store(t) PROVE TypeOK' /\ HistoryInv'
  <2>1. seen[t] + ops[t] \in Nat
    OBVIOUS
  <2>. QED
    BY <1>9, <2>1, NodeIsSide DEF Store, Pcs
<1>10. ASSUME Barrier PROVE TypeOK' /\ HistoryInv'
  BY <1>10 DEF Barrier, Release, Pcs
<1>11. CASE UNCHANGED vars
  BY <1>11 DEF vars
<1>. QED
  BY <1>1, <1>2, <1>3, <1>4, <1>5, <1>6, <1>7, <1>8, <1>9, <1>10, <1>11 DEF Next, Step, Joined
-----------------------------------------------------------------------------
(* Mutexes and what is read under them.                                    *)

LEMMA OwnerStep ==
  ASSUME TypeOK, OwnerInv, [Next]_vars
  PROVE  OwnerInv'
<1> USE DEF TypeOK, OwnerInv, Inside, Goto
<1>1. ASSUME NEW t \in Threads, Choose(t) PROVE OwnerInv'
  BY <1>1 DEF Choose
<1>2. ASSUME NEW t \in Threads, Lock(t) PROVE OwnerInv'
  <2>1. call[t].on \in Containers /\ NoThread \notin Threads
    BY <1>2, CallInHand, WorkloadAssumption DEF Lock
  <2>. QED
    BY <1>2, <2>1 DEF Lock
<1>3. ASSUME NEW t \in Threads, Unlock(t) PROVE OwnerInv'
  <2>1. call[t].on \in Containers /\ NoThread \notin Threads
    BY <1>3, CallInHand, WorkloadAssumption DEF Unlock
  <2>. QED
    BY <1>3, <2>1 DEF Unlock
<1>4. ASSUME NEW t \in Threads,
             Begin(t) \/ LeaveLoop(t) \/ Read(t) \/ Write(t) \/ LockGlobal(t) \/ Load(t)
             \/ Store(t) \/ UnlockGlobal(t)
      PROVE  OwnerInv'
  <2>1. UNCHANGED <<owner, call>>
    BY <1>4 DEF Begin, LeaveLoop, Read, Write, LockGlobal, Load, Store, UnlockGlobal, calls
  <2>2. \A s \in Threads : (pc'[s] \in Inside) <=> (pc[s] \in Inside)
    BY <1>4 DEF Begin, LeaveLoop, Read, Write, LockGlobal, Load, Store, UnlockGlobal
  <2>. QED
    BY <2>1, <2>2
<1>5. ASSUME Barrier PROVE OwnerInv'
  BY <1>5 DEF Barrier, Release, calls
<1>6. CASE UNCHANGED vars
  BY <1>6 DEF vars, calls
<1>. QED
  BY <1>1, <1>2, <1>3, <1>4, <1>5, <1>6 DEF Next, Step, Joined

LEMMA GlobalStep ==
  ASSUME TypeOK, GlobalInv, [Next]_vars
  PROVE  GlobalInv'
<1> USE DEF TypeOK, GlobalInv, Adding, Goto, calls, counters
<1>1. ASSUME NEW t \in Threads, LockGlobal(t) \/ UnlockGlobal(t) PROVE GlobalInv'
  BY <1>1, WorkloadAssumption DEF LockGlobal, UnlockGlobal
<1>2. ASSUME NEW t \in Threads,
             Begin(t) \/ Choose(t) \/ LeaveLoop(t) \/ Lock(t) \/ Read(t) \/ Write(t)
             \/ Unlock(t) \/ Load(t) \/ Store(t)
      PROVE  GlobalInv'
  <2>1. UNCHANGED globalLK
    BY <1>2 DEF Begin, Choose, LeaveLoop, Lock, Read, Write, Unlock, Load, Store
  <2>2. \A s \in Threads : (pc'[s] \in Adding) <=> (pc[s] \in Adding)
    BY <1>2 DEF Begin, Choose, LeaveLoop, Lock, Read, Write, Unlock, Load, Store
  <2>. QED
    BY <2>1, <2>2
<1>3. ASSUME Barrier PROVE GlobalInv'
  BY <1>3 DEF Barrier, Release
<1>4. CASE UNCHANGED vars
  BY <1>4 DEF vars
<1>. QED
  BY <1>1, <1>2, <1>3, <1>4 DEF Next, Step, Joined

\* The container or the total a thread has read is written by nobody else:
\* whoever writes it is its owner.
LEMMA SeenStep ==
  ASSUME TypeOK, OwnerInv, GlobalInv, SeenInv, [Next]_vars
  PROVE  SeenInv'
<1> USE DEF TypeOK, SeenInv, Goto, calls, counters
<1>1. ASSUME NEW t \in Threads, Write(t) PROVE SeenInv'
  <2>1. call[t].on \in Containers /\ owner[call[t].on] = t
    BY <1>1, CallInHand DEF Write, Inside, OwnerInv
  <2>2. ASSUME NEW s \in Threads \ {t}, pc[s] = "write"
        PROVE  call[s].on \in Containers /\ call[s].on # call[t].on
    <3>1. call[s].on \in Containers /\ owner[call[s].on] = s
      BY <2>2, CallInHand DEF Inside, OwnerInv
    <3>. QED
      BY <2>1, <2>2, <3>1
  <2>3. \A c \in Containers \ {call[t].on} : nodes'[c] = nodes[c]
    BY <1>1, <2>1 DEF Write
  <2>4. /\ pc'[t] = "unlock" /\ \A s \in Threads \ {t} : pc'[s] = pc[s]
        /\ UNCHANGED <<seen, call, nodeOps>>
    BY <1>1 DEF Write
  <2>. QED
    BY <2>2, <2>3, <2>4
<1>2. ASSUME NEW t \in Threads, Store(t) PROVE SeenInv'
  <2>1. globalLK = t
    BY <1>2 DEF Store, GlobalInv, Adding
  <2>2. \A s \in Threads \ {t} : pc[s] # "store"
    BY <2>1 DEF GlobalInv, Adding
  <2>3. /\ pc'[t] = "unlockGlobal" /\ \A s \in Threads \ {t} : pc'[s] = pc[s]
        /\ UNCHANGED <<seen, call, nodes>>
    BY <1>2 DEF Store
  <2>. QED
    BY <2>2, <2>3
<1>3. ASSUME NEW t \in Threads, Read(t) \/ Load(t) PROVE SeenInv'
  BY <1>3 DEF Read, Load
<1>4. ASSUME NEW t \in Threads,
             Begin(t) \/ LeaveLoop(t) \/ Lock(t) \/ LockGlobal(t) \/ UnlockGlobal(t)
      PROVE  SeenInv'
  BY <1>4 DEF Begin, LeaveLoop, Lock, LockGlobal, UnlockGlobal
<1>5. ASSUME NEW t \in Threads, Choose(t) \/ Unlock(t) PROVE SeenInv'
  <2>1. /\ pc'[t] \notin {"write", "store"} /\ UNCHANGED <<nodes, nodeOps>>
        /\ \A s \in Threads \ {t} :
             pc'[s] = pc[s] /\ seen'[s] = seen[s] /\ call'[s] = call[s]
    BY <1>5 DEF Choose, Unlock
  <2>. QED
    BY <2>1
<1>6. ASSUME Barrier PROVE SeenInv'
  BY <1>6 DEF Barrier, Release
<1>7. CASE UNCHANGED vars
  BY <1>7 DEF vars
<1>. QED
  BY <1>1, <1>2, <1>3, <1>4, <1>5, <1>6, <1>7 DEF Next, Step, Joined
-----------------------------------------------------------------------------
(* The nodes.                                                              *)

LEMMA NodesStep ==
  ASSUME NodesAccountedFor, HistoryInv, SeenInv, [Next]_vars
  PROVE  \A c \in Containers : nodes'[c] + taken'[c] = put'[c]
<1> USE DEF NodesAccountedFor, HistoryInv
<1>1. ASSUME NEW t \in Threads, Write(t)
      PROVE  \A c \in Containers : nodes'[c] + taken'[c] = put'[c]
  <2>1. call[t].on \in Containers /\ seen[t] = nodes[call[t].on]
    BY <1>1, CallInHand DEF Write, Goto, Inside, SeenInv
  <2>2. /\ nodes \in [Containers -> Nat] /\ put \in [Containers -> Nat]
        /\ taken \in [Containers -> Nat]
    BY DEF TypeOK
  <2>. QED
    BY <1>1, <2>1, <2>2 DEF Write
<1>2. ASSUME NEW t \in Threads,
             Begin(t) \/ Choose(t) \/ LeaveLoop(t) \/ Lock(t) \/ Read(t) \/ Unlock(t)
             \/ LockGlobal(t) \/ Load(t) \/ Store(t) \/ UnlockGlobal(t)
      PROVE  UNCHANGED <<nodes, put, taken>>
  BY <1>2 DEF Begin, Choose, LeaveLoop, Lock, Read, Unlock, LockGlobal, Load, Store,
              UnlockGlobal, calls
<1>3. Barrier \/ UNCHANGED vars => UNCHANGED <<nodes, put, taken>>
  BY DEF Barrier, vars, calls
<1>. QED
  BY <1>1, <1>2, <1>3 DEF Next, Step, Joined
-----------------------------------------------------------------------------
(* The totals.                                                             *)

Adders(n) == {s \in Threads : Node(s) = n /\ Added(s)}

LEMMA IterationsCount ==
  ASSUME TypeOK, NEW t \in Threads
  PROVE  IsFiniteSet(Iterations(t)) /\ Cardinality(Iterations(t)) = ops[t]
<1>1. ops[t] \in Nat
  BY DEF TypeOK
<1>2. IsFiniteSet(1 .. ops[t]) /\ Cardinality(1 .. ops[t]) = ops[t]
  BY <1>1, FS_Interval
<1>3. IsFiniteSet({t}) /\ Cardinality({t}) = 1
  BY FS_Singleton
<1>4. /\ IsFiniteSet({t} \X (1 .. ops[t]))
      /\ Cardinality({t} \X (1 .. ops[t])) = Cardinality({t}) * Cardinality(1 .. ops[t])
  BY <1>2, <1>3, FS_Product
<1>. QED
  BY <1>1, <1>2, <1>3, <1>4 DEF Iterations

LEMMA CountedFinite ==
  ASSUME TypeOK, NEW n
  PROVE  IsFiniteSet(Counted(n))
<1> DEFINE parts == {Iterations(t) : t \in Adders(n)}
           f == [t \in Adders(n) |-> Iterations(t)]
<1>1. IsFiniteSet(Adders(n))
  BY WorkloadAssumption, FS_Subset DEF Adders
<1>2. f \in Surjection(Adders(n), parts)
  BY DEF Surjection
<1>3. IsFiniteSet(parts)
  BY <1>1, <1>2, FS_Surjection
<1>4. \A p \in parts : IsFiniteSet(p)
  BY IterationsCount DEF Adders
<1>. QED
  BY <1>3, <1>4, FS_UNION DEF Counted, Adders

\* What is counted stays the same while nobody adds.
LEMMA CountedSame ==
  ASSUME NEW n,
         \A s \in Threads : Added(s)' <=> Added(s),
         \A s \in Threads : Added(s) => ops'[s] = ops[s]
  PROVE  Counted(n)' = Counted(n)
<1>1. Adders(n)' = Adders(n)
  BY DEF Adders, Node
<1>2. \A s \in Adders(n) : Iterations(s)' = Iterations(s)
  BY DEF Adders, Iterations
<1>. QED
  BY <1>1, <1>2 DEF Counted, Adders

LEMMA OpsStep ==
  ASSUME TypeOK, SeenInv, OpsAccountedFor, [Next]_vars
  PROVE  OpsAccountedFor'
<1> USE DEF Goto, calls, counters
<1>1. ASSUME NEW t \in Threads, Store(t) PROVE OpsAccountedFor'
  <2> DEFINE n == Node(t)
  <2>1. n \in Side /\ ops[t] \in Nat /\ nodeOps \in [Side -> Nat]
    BY NodeIsSide DEF TypeOK
  <2>2. /\ ~ Added(t) /\ Added(t)' /\ UNCHANGED ops
        /\ \A s \in Threads \ {t} : Added(s)' <=> Added(s)
    BY <1>1 DEF Store, TypeOK, Added
  <2>3. /\ nodeOps'[n] = nodeOps[n] + ops[t]
        /\ \A m \in Side \ {n} : nodeOps'[m] = nodeOps[m]
    BY <1>1, <2>1 DEF Store, SeenInv
  <2>4. Counted(n)' = Counted(n) \cup Iterations(t)
    <3>1. Adders(n)' = Adders(n) \cup {t}
      BY <2>2 DEF Adders, Node
    <3>2. \A s : Iterations(s)' = Iterations(s)
      BY <2>2 DEF Iterations
    <3>. QED
      BY <3>1, <3>2 DEF Counted, Adders
  <2>5. Counted(n) \cap Iterations(t) = {}
    BY <2>2 DEF Counted, Iterations
  <2>6. /\ IsFiniteSet(Counted(n)) /\ IsFiniteSet(Iterations(t))
        /\ Cardinality(Iterations(t)) = ops[t]
    BY CountedFinite, IterationsCount
  <2>7. Cardinality(Counted(n)') = Cardinality(Counted(n)) + ops[t]
    <3>1. Cardinality({}) = 0
      BY FS_EmptySet
    <3>2. Cardinality(Counted(n)) \in Nat
      BY <2>6, FS_CardinalityType
    <3>3. Cardinality(Counted(n) \cup Iterations(t)) =
            Cardinality(Counted(n)) + Cardinality(Iterations(t))
              - Cardinality(Counted(n) \cap Iterations(t))
      BY <2>6, FS_Union
    <3>. QED
      BY <2>1, <2>4, <2>5, <2>6, <3>1, <3>2, <3>3
  <2>8. ASSUME NEW m \in Side \ {n} PROVE Counted(m)' = Counted(m)
    <3>1. Adders(m)' = Adders(m)
      BY <2>2, <2>8 DEF Adders, Node
    <3>2. \A s : Iterations(s)' = Iterations(s)
      BY <2>2 DEF Iterations
    <3>. QED
      BY <3>1, <3>2 DEF Counted, Adders
  <2>. QED
    BY <2>1, <2>3, <2>7, <2>8 DEF OpsAccountedFor
<1>2. ASSUME UNCHANGED nodeOps,
             \A s \in Threads : Added(s)' <=> Added(s),
             \A s \in Threads : Added(s) => ops'[s] = ops[s]
      PROVE  OpsAccountedFor'
  BY <1>2, CountedSame DEF OpsAccountedFor
<1>3. ASSUME NEW t \in Threads,
             Begin(t) \/ Choose(t) \/ LeaveLoop(t) \/ Lock(t) \/ Read(t) \/ Write(t)
             \/ LockGlobal(t) \/ Load(t) \/ UnlockGlobal(t)
      PROVE  OpsAccountedFor'
  <2>1. UNCHANGED <<nodeOps, ops>>
    BY <1>3 DEF Begin, Choose, LeaveLoop, Lock, Read, Write, LockGlobal, Load, UnlockGlobal
  <2>2. \A s \in Threads : Added(s)' <=> Added(s)
    BY <1>3 DEF Begin, Choose, LeaveLoop, Lock, Read, Write, LockGlobal, Load, UnlockGlobal,
                TypeOK, Added
  <2>. QED
    BY <1>2, <2>1, <2>2
<1>4. ASSUME NEW t \in Threads, Unlock(t) PROVE OpsAccountedFor'
  <2>1. /\ UNCHANGED nodeOps /\ ~ Added(t) /\ \A s \in Threads \ {t} : ops'[s] = ops[s]
        /\ \A s \in Threads : Added(s)' <=> Added(s)
    BY <1>4 DEF Unlock, TypeOK, Added
  <2>. QED
    BY <1>2, <2>1
<1>5. ASSUME Barrier PROVE OpsAccountedFor'
  <2>1. UNCHANGED <<nodeOps, ops>> /\ \A s \in Threads : Added(s)' <=> Added(s)
    BY <1>5 DEF Barrier, Release, TypeOK, Added
  <2>. QED
    BY <1>2, <2>1
<1>6. ASSUME UNCHANGED vars PROVE OpsAccountedFor'
  <2>1. UNCHANGED <<nodeOps, ops>> /\ \A s \in Threads : Added(s)' <=> Added(s)
    BY <1>6 DEF vars, Added
  <2>. QED
    BY <1>2, <2>1
<1>. QED
  BY <1>1, <1>3, <1>4, <1>5, <1>6 DEF Next, Step, Joined
-----------------------------------------------------------------------------
(* The theorems.                                                           *)

LEMMA InitInv ==
  ASSUME Init
  PROVE  IInv
<1>1. /\ nodes \in [Containers -> Nat] /\ put = nodes
      /\ taken = [c \in Containers |-> 0] /\ taken \in [Containers -> Nat]
  BY WorkloadAssumption DEF Init
<1>2. TypeOK /\ HistoryInv
  BY <1>1 DEF Init, TypeOK, HistoryInv, Pcs
<1>3. NodesAccountedFor
  BY <1>1, <1>2 DEF NodesAccountedFor
<1>4. OwnerInv /\ GlobalInv /\ SeenInv
  BY WorkloadAssumption DEF Init, OwnerInv, GlobalInv, SeenInv, Inside, Adding
<1>5. OpsAccountedFor
  <2>1. \A n : Counted(n) = {}
    BY DEF Init, Counted, Added
  <2>2. \A n \in Side : nodeOps[n] = 0
    BY DEF Init
  <2>. QED
    BY <2>1, <2>2, FS_EmptySet DEF OpsAccountedFor
<1>. QED
  BY <1>2, <1>3, <1>4, <1>5 DEF IInv

LEMMA Invariance == Spec => []IInv
<1>1. Init => IInv
  BY InitInv
<1>2. IInv /\ [Next]_vars => IInv'
  BY TypeStep, OwnerStep, GlobalStep, SeenStep, NodesStep, OpsStep
     DEF IInv, NodesAccountedFor
<1>. QED
  BY <1>1, <1>2, PTL DEF Spec

\* The container tests lose no node and invent none: whatever thread crosses
\* over to whichever side, each container has the nodes that were put into it
\* and not taken from it.
THEOREM NoNodeIsLost == Spec => []NodesAccountedFor
<1>1. IInv => NodesAccountedFor
  BY DEF IInv
<1>. QED
  BY <1>1, Invariance, PTL

\* ops0 and ops1 count every iteration of every thread of their node that has
\* added its count, and nothing else, for any number of threads and iterations.
THEOREM TotalsAreExact == Spec => []OpsAccountedFor
<1>1. IInv => OpsAccountedFor
  BY DEF IInv
<1>. QED
  BY <1>1, Invariance, PTL

\* No two threads are in a call on the same container at the same time.
Alone ==
  \A s, t \in Threads :
     pc[s] \in Inside /\ pc[t] \in Inside /\ call[s].on = call[t].on => s = t

\* Each call of push, pop, add, del, removeHead and so on runs alone on its
\* container, on whichever side the thread that makes it works.
THEOREM CallsRunAlone == Spec => []Alone
<1>1. ASSUME IInv, NEW s \in Threads, NEW t \in Threads,
             pc[s] \in Inside, pc[t] \in Inside, call[s].on = call[t].on
      PROVE  s = t
  <2>1. call[s].on \in Containers /\ owner[call[s].on] = s /\ owner[call[t].on] = t
    BY <1>1, CallInHand DEF IInv, OwnerInv, NodesAccountedFor
  <2>. QED
    BY <1>1, <2>1
<1>2. IInv => Alone
  BY <1>1 DEF Alone
<1>. QED
  BY <1>2, Invariance, PTL
=============================================================================
