------------------------- MODULE IntervalLogProofs -------------------------
(***************************************************************************)
(* Theorems about IntervalLog, for any threads, duration, interval and     *)
(* number of runs.  The inductive invariant follows the merge slot by      *)
(* slot: behind a thread's index its additions are in the sums of its node *)
(* and not yet in the history, ahead of it they are in neither.            *)
(***************************************************************************)
EXTENDS IntervalLog, TLAPS

InLoop == {"load", "store", "publish"}

MutexInv == \A t \in Threads : (pc[t] \in Merging) <=> (globalLK = t)

\* Where the merge loop of a thread is, and what it has read of the sum.
IndexInv ==
  \A t \in Threads :
     /\ pc[t] \in {"start", "startBar", "loop", "lock"} => index[t] = 1
     /\ pc[t] \in {"load", "store"} => index[t] \in Slot
     /\ pc[t] = "publish" => index[t] = Slots + 1
     /\ pc[t] = "store" => loaded[t] = globalOps[Node(t)][index[t]]

\* What the sums of a node hold.
SumsInv ==
  /\ \A t \in Threads : pc[t] \in InLoop =>
       \A i \in Slot :
          globalOps[Node(t)][i] =
            merged[Node(t)][i] + (IF i < index[t] THEN localOps[t][i] ELSE 0)
  /\ \A n \in Nodes : (\A t \in Threads : pc[t] \in InLoop => Node(t) # n) =>
       globalOps[n] = merged[n]
  /\ \A n \in Nodes : nodeOps[n] = merged[n][Slots]

\* As many intervals are over, by the clock last read, as slots are written.
ClockInv == \A t \in Threads : logged[t] * Interval <= clock[t]

\* What has been reported is part of the sums.
ReportInv ==
  \A k \in DOMAIN reported :
     reported[k][1] <= merged[0][Slots] /\ reported[k][2] <= merged[1][Slots]

CountInv == LogIsCumulative /\ \A t \in Threads : base[t] <= ops[t]

IInv ==
  /\ TypeOK /\ MutexInv /\ IndexInv /\ SumsInv
  /\ ClockInv /\ LogInBounds /\ CountInv /\ ReportInv
-----------------------------------------------------------------------------
(* Numbers.                                                                *)

\* There is at least one slot, and whole slots fill at most the duration.
LEMMA SlotCount ==
  /\ Slots \in Nat \ {0}
  /\ Slots \in Slot
  /\ Duration % Interval = 0 => Duration = Slots * Interval
<1>1. Duration \in Nat /\ Interval \in Nat /\ 0 < Interval /\ Interval <= Duration
  BY LogAssumption
<1>2. Duration = Interval * (Duration \div Interval) + (Duration % Interval)
  BY <1>1
<1>3. Duration \div Interval \in Nat
  BY <1>1
<1>4. Duration % Interval \in 0 .. Interval - 1
  BY <1>1
<1>5. Duration \div Interval # 0
  BY <1>1, <1>2, <1>3, <1>4
<1>. QED
  BY <1>1, <1>2, <1>3, <1>5 DEF Slots, Slot

LEMMA FewerMultiples ==
  ASSUME NEW a \in Nat, NEW b \in Nat, NEW m \in Nat \ {0}, a * m < b * m
  PROVE  a < b
<1> SUFFICES ASSUME b <= a PROVE FALSE
  OBVIOUS
<1>1. PICK k \in Nat : a = b + k
  <2>1. a - b \in Nat /\ a = b + (a - b)
    OBVIOUS
  <2>. QED
    BY <2>1
<1>2. a * m = b * m + k * m
  BY <1>1
<1>3. k * m \in Nat /\ b * m \in Nat
  OBVIOUS
<1>. QED
  BY <1>2, <1>3

\* Writing one cell keeps a table's type, even when there is no such cell.
LEMMA WriteCell ==
  ASSUME NEW R, NEW C, NEW f \in [R -> [C -> Nat]], NEW r \in R, NEW c, NEW v \in Nat
  PROVE  [f EXCEPT ![r][c] = v] \in [R -> [C -> Nat]]
<1>1. f[r] \in [C -> Nat]
  OBVIOUS
<1>2. [f[r] EXCEPT ![c] = v] \in [C -> Nat]
  BY <1>1
<1>. QED
  BY <1>2
-----------------------------------------------------------------------------
(* Types.                                                                  *)

LEMMA TypeStep ==
  ASSUME TypeOK, IndexInv, CountInv, [Next]_vars
  PROVE  TypeOK'
<1> USE DEF TypeOK, Pcs, Goto, own, merge, shared, vars
<1>0. Slots \in Nat \ {0} /\ Zeros \in [Slot -> Nat]
  BY SlotCount DEF Zeros
<1>1. ASSUME NEW t \in Threads, Arrive(t) PROVE TypeOK'
  BY <1>1 DEF Arrive
<1>2. ASSUME NEW t \in Threads, Skip(t) PROVE TypeOK'
  BY <1>2 DEF Skip, Later
<1>3. ASSUME NEW t \in Threads, Work(t) PROVE TypeOK'
  <2>1. PICK d \in 0 .. MaxTime : CountAndLog(t, d) /\ clock' = [clock EXCEPT ![t] = d]
    BY <1>3 DEF Work, Later
  <2>2. /\ ops' \in [Threads -> Nat] /\ clock' \in [Threads -> 0 .. MaxTime]
        /\ ops[t] + 1 \in Nat /\ logged[t] + 1 \in Nat
    BY <2>1 DEF CountAndLog
  <2>3. localOps' \in [Threads -> [Slot -> Nat]] /\ logged' \in [Threads -> Nat]
    <3>1. [localOps EXCEPT ![t][logged[t] + 1] = ops[t] + 1]
            \in [Threads -> [Slot -> Nat]]
      BY <2>2, WriteCell
    <3>. QED
      BY <2>1, <2>2, <3>1 DEF CountAndLog
  <2>. QED
    BY <1>3, <2>2, <2>3 DEF Work
<1>4. ASSUME NEW t \in Threads, LeaveLoop(t) PROVE TypeOK'
  BY <1>4 DEF LeaveLoop, Later
<1>5. ASSUME NEW t \in Threads, Lock(t) PROVE TypeOK'
  BY <1>5 DEF Lock
<1>6. ASSUME NEW t \in Threads, Load(t) PROVE TypeOK'
  BY <1>6 DEF Load, Node, Nodes, IndexInv
<1>7. ASSUME NEW t \in Threads, Store(t) PROVE TypeOK'
  <2>0. index[t] \in Slot
    BY <1>7 DEF Store, IndexInv
  <2>1. index[t] + 1 \in 1 .. Slots + 1 /\ Node(t) \in Nodes
    <3>1. Node(t) \in Nodes
      BY DEF Node, Nodes
    <3>2. index[t] \in Int /\ 1 <= index[t] /\ index[t] <= Slots
      BY <1>0, <2>0 DEF Slot
    <3>. QED
      BY <1>0, <3>1, <3>2
  <2>2. loaded[t] + localOps[t][index[t]] \in Nat
    <3>1. localOps[t] \in [Slot -> Nat] /\ loaded[t] \in Nat
      BY <1>7
    <3>. QED
      BY <2>0, <3>1
  <2>3. globalOps' \in [Nodes -> [Slot -> Nat]]
    <3>1. [globalOps EXCEPT ![Node(t)][index[t]] = loaded[t] + localOps[t][index[t]]]
            \in [Nodes -> [Slot -> Nat]]
      BY <2>1, <2>2, WriteCell
    <3>. QED
      BY <1>7, <3>1 DEF Store
  <2>4. index' \in [Threads -> 1 .. Slots + 1]
    BY <1>7, <2>1 DEF Store
  <2>5. pc' \in [Threads -> Pcs]
    BY <1>7 DEF Store
  <2>. QED
    BY <1>7, <2>3, <2>4, <2>5 DEF Store
<1>8. ASSUME NEW t \in Threads, Publish(t) PROVE TypeOK'
  <2>1. Node(t) \in Nodes /\ Slots \in Slot
    BY SlotCount DEF Node, Nodes
  <2>2. nodeOps' \in [Nodes -> Nat]
    BY <1>8, <2>1 DEF Publish
  <2>3. merged' \in [Nodes -> [Slot -> Nat]]
    <3>1. merged[Node(t)] \in [Slot -> Nat] /\ localOps[t] \in [Slot -> Nat]
      BY <2>1
    <3>2. [i \in Slot |-> merged[Node(t)][i] + localOps[t][i]] \in [Slot -> Nat]
      BY <3>1
    <3>. QED
      BY <1>8, <2>1, <3>2 DEF Publish
  <2>4. executed' \in [Nodes -> Nat]
    <3>1. /\ ops[t] \in Nat /\ base[t] \in Nat /\ base[t] <= ops[t]
          /\ executed[Node(t)] \in Nat
      BY <1>8, <2>1, LogAssumption DEF CountInv
    <3>2. executed[Node(t)] + ops[t] - base[t] \in Nat
      BY <3>1
    <3>. QED
      BY <1>8, <2>1, <3>2 DEF Publish
  <2>. QED
    BY <1>8, <2>2, <2>3, <2>4 DEF Publish
<1>9. ASSUME NEW t \in Threads, Unlock(t) PROVE TypeOK'
  BY <1>9 DEF Unlock
<1>10. ASSUME Barrier PROVE TypeOK'
  BY <1>10 DEF Barrier, Release
<1>11. ASSUME JoinAll PROVE reported' \in Seq(Nat \X Nat)
  <2>1. <<nodeOps[0], nodeOps[1]>> \in Nat \X Nat
    BY DEF Nodes
  <2>. QED
    BY <1>11, <2>1 DEF JoinAll
<1>12. ASSUME NextRun PROVE TypeOK'
  <2>1. /\ ops' \in [Threads -> Nat] /\ base' \in [Threads -> InitOps]
    BY <1>12, LogAssumption DEF NextRun
  <2>2. /\ clock' \in [Threads -> 0 .. MaxTime]
        /\ index' \in [Threads -> 1 .. Slots + 1]
    BY <1>0, <1>12, LogAssumption DEF NextRun
  <2>3. /\ localOps' \in [Threads -> [Slot -> Nat]]
        /\ logged' \in [Threads -> Nat] /\ loaded' \in [Threads -> Nat]
        /\ pc' \in [Threads -> Pcs]
    BY <1>0, <1>12 DEF NextRun
  <2>. QED
    BY <1>11, <1>12, <2>1, <2>2, <2>3 DEF NextRun, JoinAll
<1>13. ASSUME LastRun PROVE TypeOK'
  BY <1>11, <1>13 DEF LastRun, JoinAll
<1>14. ASSUME UNCHANGED vars PROVE TypeOK'
  BY <1>14
<1>. QED
  BY <1>1, <1>2, <1>3, <1>4, <1>5, <1>6, <1>7, <1>8, <1>9, <1>10, <1>12, <1>13,
     <1>14 DEF Next, Step, Over
-----------------------------------------------------------------------------
(* The merge.                                                              *)

\* Only the thread that takes or gives back globalLK enters or leaves the merge.
LEMMA MutexStep ==
  ASSUME TypeOK, MutexInv, [Next]_vars
  PROVE  MutexInv'
<1> USE DEF MutexInv, Merging, Goto, own, merge, shared, vars
<1>1. pc \in [Threads -> Pcs] /\ globalLK \in Threads \cup {NoThread} /\ NoThread \notin Threads
  BY LogAssumption DEF TypeOK
<1>2. ASSUME NEW t \in Threads,
             Arrive(t) \/ Skip(t) \/ Work(t) \/ LeaveLoop(t) \/ Load(t) \/ Store(t)
             \/ Publish(t)
      PROVE  MutexInv'
  <2>1. globalLK' = globalLK
    BY <1>2 DEF Arrive, Skip, Work, LeaveLoop, Load, Store, Publish
  <2>2. \E to \in Pcs : /\ pc' = [pc EXCEPT ![t] = to]
                        /\ pc[t] \in Merging <=> to \in Merging
    BY <1>1, <1>2 DEF Arrive, Skip, Work, LeaveLoop, Load, Store, Publish, Pcs
  <2>. QED
    BY <1>1, <2>1, <2>2
<1>3. ASSUME NEW t \in Threads, Lock(t) PROVE MutexInv'
  BY <1>1, <1>3 DEF Lock
<1>4. ASSUME NEW t \in Threads, Unlock(t) PROVE MutexInv'
  BY <1>1, <1>4 DEF Unlock
<1>5. ASSUME Barrier PROVE MutexInv'
  BY <1>1, <1>5 DEF Barrier, Release
<1>6. ASSUME NextRun \/ LastRun PROVE MutexInv'
  BY <1>1, <1>6 DEF NextRun, LastRun, JoinAll
<1>7. ASSUME UNCHANGED vars PROVE MutexInv'
  BY <1>7
<1>. QED
  BY <1>2, <1>3, <1>4, <1>5, <1>6, <1>7 DEF Next, Step, Over

\* The merge loop goes through the slots one by one, and a sum that has been
\* read stays as it is until its thread writes it.
LEMMA IndexStep ==
  ASSUME TypeOK, MutexInv, IndexInv, [Next]_vars
  PROVE  IndexInv'
<1> USE DEF IndexInv, Goto, own, merge, shared, vars
<1>1. /\ pc \in [Threads -> Pcs] /\ index \in [Threads -> 1 .. Slots + 1]
      /\ loaded \in [Threads -> Nat] /\ globalOps \in [Nodes -> [Slot -> Nat]]
      /\ Slots \in Nat \ {0}
  BY SlotCount DEF TypeOK
<1>2. ASSUME NEW t \in Threads,
             Arrive(t) \/ Skip(t) \/ Work(t) \/ LeaveLoop(t) \/ Publish(t) \/ Unlock(t)
      PROVE  IndexInv'
  BY <1>1, <1>2 DEF Arrive, Skip, Work, LeaveLoop, Publish, Unlock
<1>3. ASSUME NEW t \in Threads, Lock(t) PROVE IndexInv'
  BY <1>1, <1>3 DEF Lock, Slot
<1>4. ASSUME NEW t \in Threads, Load(t) PROVE IndexInv'
  BY <1>1, <1>4 DEF Load
<1>5. ASSUME NEW t \in Threads, Store(t) PROVE IndexInv'
  <2>1. \A s \in Threads \ {t} : pc[s] # "store"
    BY <1>5 DEF Store, MutexInv, Merging
  <2>2. index[t] \in Slot /\ pc[t] = "store"
    BY <1>5 DEF Store
  <2>3. IF index[t] < Slots THEN index[t] + 1 \in Slot ELSE index[t] + 1 = Slots + 1
    BY <1>1, <2>2 DEF Slot
  <2>4. /\ pc' = [pc EXCEPT ![t] = IF index[t] < Slots THEN "load" ELSE "publish"]
        /\ index' = [index EXCEPT ![t] = index[t] + 1]
    BY <1>5 DEF Store
  <2>. QED
    BY <1>1, <2>1, <2>3, <2>4
<1>6. ASSUME Barrier PROVE IndexInv'
  BY <1>1, <1>6 DEF Barrier, Release
<1>7. ASSUME NextRun \/ LastRun PROVE IndexInv'
  BY <1>1, <1>7 DEF NextRun, LastRun, JoinAll
<1>8. ASSUME UNCHANGED vars PROVE IndexInv'
  BY <1>8
<1>. QED
  BY <1>2, <1>3, <1>4, <1>5, <1>6, <1>7, <1>8 DEF Next, Step, Over

\* An addition is in the sums of the thread's node, and only there, from the
\* moment it is stored; the history takes it over when the loop is done.
LEMMA SumsStep ==
  ASSUME TypeOK, MutexInv, IndexInv, SumsInv, [Next]_vars
  PROVE  SumsInv'
<1> USE DEF InLoop, Goto, own, merge, shared, vars
<1>1. /\ pc \in [Threads -> Pcs] /\ index \in [Threads -> 1 .. Slots + 1]
      /\ localOps \in [Threads -> [Slot -> Nat]]
      /\ globalOps \in [Nodes -> [Slot -> Nat]] /\ merged \in [Nodes -> [Slot -> Nat]]
      /\ nodeOps \in [Nodes -> Nat] /\ Slots \in Slot /\ Slots \in Nat
      /\ \A t \in Threads : Node(t) \in Nodes
  BY SlotCount DEF TypeOK, Node, Nodes
<1>2. ASSUME NEW t \in Threads,
             Arrive(t) \/ Skip(t) \/ LeaveLoop(t) \/ Load(t) \/ Unlock(t)
      PROVE  SumsInv'
  BY <1>1, <1>2 DEF SumsInv, Arrive, Skip, LeaveLoop, Load, Unlock
<1>3. ASSUME NEW t \in Threads, Work(t) PROVE SumsInv'
  <2>1. /\ pc[t] = "loop"
        /\ \A s \in Threads \ {t} : localOps'[s] = localOps[s]
        /\ UNCHANGED <<pc, merge, shared>>
    BY <1>1, <1>3 DEF Work, CountAndLog
  <2>. QED
    BY <1>1, <2>1 DEF SumsInv
<1>4. ASSUME NEW t \in Threads, Lock(t) PROVE SumsInv'
  <2>1. \A s \in Threads : pc[s] \notin InLoop
    BY <1>4, LogAssumption DEF Lock, MutexInv, Merging
  <2>2. index[t] = 1
    BY <1>4 DEF Lock, IndexInv
  <2>3. \A i \in Slot : i \in Nat /\ 1 <= i
    BY DEF Slot
  <2>4. globalOps = merged
    BY <1>1, <2>1 DEF SumsInv
  <2>5. \A i \in Slot : ~ (i < index[t]) /\ merged[Node(t)][i] \in Nat
    BY <1>1, <2>2, <2>3
  <2>. QED
    BY <1>1, <1>4, <2>1, <2>4, <2>5 DEF SumsInv, Lock
<1>5. ASSUME NEW t \in Threads, Store(t) PROVE SumsInv'
  <2> DEFINE n == Node(t)
             j == index[t]
  <2>1. /\ pc[t] = "store" /\ j \in Slot /\ loaded[t] = globalOps[n][j]
        /\ \A s \in Threads \ {t} : pc[s] \notin InLoop
    BY <1>5 DEF Store, IndexInv, MutexInv, Merging
  <2>2. /\ pc' = [pc EXCEPT ![t] = IF j < Slots THEN "load" ELSE "publish"]
        /\ index' = [index EXCEPT ![t] = j + 1]
        /\ globalOps' = [globalOps EXCEPT ![n][j] = loaded[t] + localOps[t][j]]
        /\ UNCHANGED <<localOps, merged, nodeOps>>
    BY <1>5 DEF Store
  <2>3. \A i \in Slot : i \in Nat /\ merged[n][i] \in Nat /\ localOps[t][i] \in Nat
    BY <1>1 DEF Slot
  <2>4. \A i \in Slot :
           globalOps'[n][i] =
             merged[n][i] + (IF i < j + 1 THEN localOps[t][i] ELSE 0)
    <3>1. \A i \in Slot :
            globalOps[n][i] = merged[n][i] + (IF i < j THEN localOps[t][i] ELSE 0)
      BY <2>1 DEF SumsInv
    <3>2. ASSUME NEW i \in Slot, i # j
          PROVE  globalOps'[n][i] = globalOps[n][i] /\ (i < j + 1 <=> i < j)
      <4>1. globalOps'[n][i] = globalOps[n][i]
        BY <1>1, <2>2, <3>2
      <4>2. i \in Nat /\ j \in Nat
        BY <2>1, <2>3
      <4>. QED
        BY <3>2, <4>1, <4>2
    <3>3. globalOps'[n][j] = globalOps[n][j] + localOps[t][j]
      BY <1>1, <2>1, <2>2
    <3>4. globalOps[n][j] = merged[n][j] /\ j < j + 1
      BY <2>1, <2>3, <3>1
    <3>. QED
      BY <3>1, <3>2, <3>3, <3>4
  <2>5. \A m \in Nodes \ {n} : globalOps'[m] = globalOps[m]
    BY <1>1, <2>2
  <2>6. /\ pc'[t] \in InLoop /\ index'[t] = j + 1
        /\ \A s \in Threads \ {t} : pc'[s] \notin InLoop
    BY <1>1, <2>1, <2>2
  <2>. QED
    BY <1>1, <2>1, <2>2, <2>4, <2>5, <2>6 DEF SumsInv
<1>6. ASSUME NEW t \in Threads, Publish(t) PROVE SumsInv'
  <2> DEFINE n == Node(t)
  <2>1. /\ pc[t] = "publish" /\ index[t] = Slots + 1
        /\ \A s \in Threads \ {t} : pc[s] \notin InLoop
    BY <1>6 DEF Publish, IndexInv, MutexInv, Merging
  <2>2. /\ pc' = [pc EXCEPT ![t] = "unlock"]
        /\ merged' = [merged EXCEPT ![n] = [i \in Slot |-> merged[n][i] + localOps[t][i]]]
        /\ nodeOps' = [nodeOps EXCEPT ![n] = globalOps[n][Slots]]
        /\ UNCHANGED <<globalOps, index, localOps>>
    BY <1>6 DEF Publish
  <2>3. \A i \in Slot : i < index[t]
    BY <1>1, <2>1 DEF Slot
  <2>4. \A i \in Slot : globalOps[n][i] = merged[n][i] + localOps[t][i]
    BY <2>1, <2>3 DEF SumsInv
  <2>5. globalOps[n] = merged'[n] /\ nodeOps'[n] = merged'[n][Slots]
    <3>1. merged'[n] = [i \in Slot |-> merged[n][i] + localOps[t][i]]
      BY <1>1, <2>2
    <3>2. globalOps[n] = [i \in Slot |-> merged[n][i] + localOps[t][i]]
      BY <1>1, <2>4
    <3>. QED
      BY <1>1, <2>2, <3>1, <3>2
  <2>6. \A m \in Nodes \ {n} :
           globalOps[m] = merged'[m] /\ nodeOps'[m] = merged'[m][Slots]
    BY <1>1, <2>1, <2>2 DEF SumsInv
  <2>7. \A s \in Threads : pc'[s] \notin InLoop
    BY <1>1, <2>1, <2>2
  <2>. QED
    BY <2>2, <2>5, <2>6, <2>7 DEF SumsInv
<1>7. ASSUME Barrier PROVE SumsInv'
  BY <1>1, <1>7 DEF SumsInv, Barrier, Release
<1>8. ASSUME NextRun \/ LastRun PROVE SumsInv'
  <2>1. /\ UNCHANGED <<globalOps, merged, nodeOps>>
        /\ \A s \in Threads : pc[s] \notin InLoop /\ pc'[s] \notin InLoop
    BY <1>8 DEF NextRun, LastRun, JoinAll
  <2>. QED
    BY <2>1 DEF SumsInv
<1>9. ASSUME UNCHANGED vars PROVE SumsInv'
  BY <1>9 DEF SumsInv
<1>. QED
  BY <1>2, <1>3, <1>4, <1>5, <1>6, <1>7, <1>8, <1>9 DEF Next, Step, Over
-----------------------------------------------------------------------------
(* The log.                                                                *)

\* No slot is written before its interval is over, and an iteration begins
\* before the duration is: so there is a slot left for it.
LEMMA BoundsStep ==
  ASSUME TypeOK, ClockInv, LogInBounds, [Next]_vars
  PROVE  ClockInv' /\ LogInBounds'
<1> USE DEF Goto, own, merge, shared, vars
<1>1. /\ clock \in [Threads -> 0 .. MaxTime] /\ logged \in [Threads -> Nat]
      /\ Interval \in Nat \ {0} /\ Duration \in Nat /\ MaxTime \in Nat /\ Slots \in Nat
  BY LogAssumption, SlotCount DEF TypeOK
<1>2. ASSUME NEW t \in Threads, Skip(t) \/ LeaveLoop(t) PROVE ClockInv' /\ LogInBounds'
  <2>1. PICK c \in 0 .. MaxTime : c >= clock[t] /\ clock' = [clock EXCEPT ![t] = c]
    BY <1>2 DEF Skip, LeaveLoop, Later
  <2>2. logged' = logged
    BY <1>2 DEF Skip, LeaveLoop
  <2>3. \A s \in Threads : clock'[s] \in Nat /\ clock'[s] >= clock[s]
    BY <1>1, <2>1
  <2>4. \A s \in Threads : logged[s] * Interval \in Nat
    BY <1>1
  <2>5. \A s \in Threads : clock[s] \in Nat
    BY <1>1
  <2>. QED
    BY <2>2, <2>3, <2>4, <2>5 DEF ClockInv, LogInBounds
<1>3. ASSUME NEW t \in Threads, Work(t) PROVE ClockInv' /\ LogInBounds'
  <2>1. PICK c \in 0 .. MaxTime, d \in 0 .. MaxTime :
          /\ clock[t] <= c /\ c < Duration /\ c <= d
          /\ CountAndLog(t, d) /\ clock' = [clock EXCEPT ![t] = d]
    BY <1>1, <1>3 DEF Work, Later
  <2>2. /\ logged[t] \in Nat /\ clock[t] \in Nat /\ c \in Nat /\ d \in Nat
        /\ logged[t] * Interval \in Nat /\ (logged[t] + 1) * Interval \in Nat
    BY <1>1, <2>1
  <2>3. logged[t] * Interval < Duration /\ logged[t] * Interval <= d
    BY <1>1, <2>1, <2>2 DEF ClockInv
  <2>4. CASE Due(t, d)
    <3>1. logged' = [logged EXCEPT ![t] = logged[t] + 1]
      BY <2>1, <2>4 DEF CountAndLog
    <3>2. (logged[t] + 1) * Interval <= d
      BY <2>2, <2>4 DEF Due
    <3>3. Duration % Interval = 0 => logged[t] + 1 <= Slots
      <4>1. HAVE Duration % Interval = 0
      <4>2. logged[t] * Interval < Slots * Interval
        BY <2>3, <4>1, SlotCount
      <4>3. logged[t] < Slots
        BY <1>1, <2>2, <4>2, FewerMultiples
      <4>. QED
        BY <1>1, <2>2, <4>3
    <3>. QED
      BY <1>1, <2>1, <3>1, <3>2, <3>3 DEF ClockInv, LogInBounds
  <2>5. CASE ~ Due(t, d)
    <3>1. logged' = logged
      BY <2>1, <2>5 DEF CountAndLog
    <3>. QED
      BY <1>1, <2>1, <2>3, <3>1 DEF ClockInv, LogInBounds
  <2>. QED
    BY <2>4, <2>5
<1>4. ASSUME NextRun PROVE ClockInv' /\ LogInBounds'
  <2>1. \A s \in Threads : logged'[s] = 0 /\ clock'[s] = 0
    BY <1>4 DEF NextRun
  <2>2. 0 * Interval = 0
    BY <1>1
  <2>. QED
    BY <1>1, <2>1, <2>2 DEF ClockInv, LogInBounds
<1>5. ASSUME UNCHANGED <<clock, logged>> PROVE ClockInv' /\ LogInBounds'
  BY <1>5 DEF ClockInv, LogInBounds
<1>6. ASSUME NEW t \in Threads,
             Arrive(t) \/ Lock(t) \/ Load(t) \/ Store(t) \/ Publish(t) \/ Unlock(t)
      PROVE  UNCHANGED <<clock, logged>>
  BY <1>6 DEF Arrive, Lock, Load, Store, Publish, Unlock
<1>7. Barrier \/ LastRun \/ UNCHANGED vars => UNCHANGED <<clock, logged>>
  BY DEF Barrier, LastRun
<1>. QED
  BY <1>2, <1>3, <1>4, <1>5, <1>6, <1>7 DEF Next, Step, Over

\* A slot gets the count of its moment, which is larger than any before.
LEMMA CountStep ==
  ASSUME TypeOK, CountInv, [Next]_vars
  PROVE  CountInv'
<1> USE DEF CountInv, LogIsCumulative, Goto, own, merge, shared, vars
<1>1. /\ ops \in [Threads -> Nat] /\ base \in [Threads -> Nat]
      /\ localOps \in [Threads -> [Slot -> Nat]] /\ logged \in [Threads -> Nat]
      /\ \A i \in Slot : i \in Nat /\ 1 <= i /\ i <= Slots
      /\ Slots \in Nat
  <2>1. base \in [Threads -> Nat]
    BY LogAssumption DEF TypeOK
  <2>2. /\ ops \in [Threads -> Nat] /\ logged \in [Threads -> Nat]
        /\ localOps \in [Threads -> [Slot -> Nat]]
    BY DEF TypeOK
  <2>3. Slots \in Nat
    BY SlotCount
  <2>4. \A i \in Slot : i \in Nat /\ 1 <= i /\ i <= Slots
    BY <2>3 DEF Slot
  <2>. QED
    BY <2>1, <2>2, <2>3, <2>4
<1>2. ASSUME NEW t \in Threads, Work(t) PROVE CountInv'
  <2>1. PICK d : CountAndLog(t, d) /\ UNCHANGED base
    BY <1>2 DEF Work
  <2>2. /\ ops' = [ops EXCEPT ![t] = ops[t] + 1]
        /\ ops[t] \in Nat /\ base[t] \in Nat /\ base[t] <= ops[t] /\ logged[t] \in Nat
    BY <1>1, <2>1 DEF CountAndLog
  <2>3. CASE Due(t, d)
    <3>1. /\ localOps' = [localOps EXCEPT ![t][logged[t] + 1] = ops[t] + 1]
          /\ logged' = [logged EXCEPT ![t] = logged[t] + 1]
      BY <2>1, <2>3 DEF CountAndLog
    <3>2. ASSUME NEW i \in Slot
          PROVE  IF i <= logged[t] + 1
                 THEN /\ localOps'[t][i] \in base[t] + 1 .. ops[t] + 1
                      /\ i > 1 => localOps'[t][i - 1] < localOps'[t][i]
                 ELSE localOps'[t][i] = 0
      <4>0. /\ i \in Nat /\ 1 <= i
            /\ \A j \in Slot : localOps[t][j] \in Nat
            /\ \A j \in Slot : localOps'[t][j] =
                  IF j = logged[t] + 1 THEN ops[t] + 1 ELSE localOps[t][j]
        BY <1>1, <3>1
      <4>1. CASE i = logged[t] + 1
        <5>1. localOps'[t][i] = ops[t] + 1
          BY <4>0, <4>1
        <5>2. i > 1 => i - 1 \in Slot /\ i - 1 <= logged[t] /\ i - 1 # logged[t] + 1
          BY <1>1, <2>2, <4>0, <4>1 DEF Slot
        <5>3. i > 1 => localOps'[t][i - 1] = localOps[t][i - 1]
                       /\ localOps[t][i - 1] \in base[t] + 1 .. ops[t]
          BY <4>0, <5>2
        <5>. QED
          BY <2>2, <4>1, <5>1, <5>3
      <4>2. CASE i <= logged[t]
        <5>1. localOps'[t][i] = localOps[t][i] /\ localOps[t][i] \in base[t] + 1 .. ops[t]
          BY <2>2, <4>0, <4>2
        <5>2. i > 1 => i - 1 \in Slot /\ i - 1 # logged[t] + 1
          BY <1>1, <2>2, <4>0, <4>2 DEF Slot
        <5>3. i > 1 => localOps'[t][i - 1] = localOps[t][i - 1]
                       /\ localOps[t][i - 1] < localOps[t][i]
          BY <4>0, <4>2, <5>2
        <5>. QED
          BY <2>2, <4>0, <4>2, <5>1, <5>3
      <4>3. CASE i > logged[t] + 1
        <5>1. localOps'[t][i] = localOps[t][i] /\ ~ (i <= logged[t])
          BY <2>2, <4>0, <4>3
        <5>. QED
          BY <2>2, <4>0, <4>3, <5>1
      <4>. QED
        BY <2>2, <4>0, <4>1, <4>2, <4>3
    <3>3. \A s \in Threads \ {t} :
             /\ localOps'[s] = localOps[s] /\ logged'[s] = logged[s]
             /\ ops'[s] = ops[s] /\ base'[s] = base[s]
      BY <1>1, <2>1, <2>2, <3>1
    <3>4. logged'[t] = logged[t] + 1 /\ ops'[t] = ops[t] + 1 /\ base'[t] = base[t]
      BY <1>1, <2>1, <2>2, <3>1
    <3>. QED
      BY <2>2, <3>2, <3>3, <3>4
  <2>4. CASE ~ Due(t, d)
    <3>1. UNCHANGED <<localOps, logged>>
      BY <2>1, <2>4 DEF CountAndLog
    <3>2. \A i \in Slot : i <= logged[t] =>
             localOps[t][i] \in base[t] + 1 .. ops[t] + 1
      BY <2>2
    <3>3. ops'[t] = ops[t] + 1 /\ \A s \in Threads \ {t} : ops'[s] = ops[s]
      BY <1>1, <2>2
    <3>. QED
      BY <2>1, <2>2, <3>1, <3>2, <3>3
  <2>. QED
    BY <2>3, <2>4
<1>3. ASSUME NextRun PROVE CountInv'
  <2>1. /\ \A s \in Threads : logged'[s] = 0 /\ localOps'[s] = Zeros
        /\ base' = ops' /\ ops' \in [Threads -> Nat]
    BY <1>3, LogAssumption DEF NextRun
  <2>. QED
    BY <1>1, <2>1 DEF Zeros
<1>4. ASSUME UNCHANGED own PROVE CountInv'
  BY <1>4
<1>5. ASSUME NEW t \in Threads,
             Arrive(t) \/ Skip(t) \/ LeaveLoop(t) \/ Lock(t) \/ Load(t) \/ Store(t)
             \/ Publish(t) \/ Unlock(t)
      PROVE  UNCHANGED own
  BY <1>5 DEF Arrive, Skip, LeaveLoop, Lock, Load, Store, Publish, Unlock
<1>6. Barrier \/ LastRun \/ UNCHANGED vars => UNCHANGED own
  BY DEF Barrier, LastRun
<1>. QED
  BY <1>2, <1>3, <1>4, <1>5, <1>6 DEF Next, Step, Over
-----------------------------------------------------------------------------
(* The reports.                                                            *)

\* When main has joined the threads nobody is in the merge.
LEMMA JoinedSums ==
  ASSUME TypeOK, SumsInv, JoinAll
  PROVE  /\ nodeOps[0] = merged[0][Slots] /\ nodeOps[1] = merged[1][Slots]
         /\ reported' = Append(reported, <<merged[0][Slots], merged[1][Slots]>>)
         /\ UNCHANGED merged
  BY DEF SumsInv, JoinAll, InLoop, Nodes

\* The sums that reports are taken from never get smaller.
LEMMA MergedGrows ==
  ASSUME TypeOK, [Next]_vars
  PROVE  \A n \in Nodes :
           /\ merged[n][Slots] \in Nat /\ merged'[n][Slots] \in Nat
           /\ merged[n][Slots] <= merged'[n][Slots]
<1> USE DEF own, merge, shared, vars
<1>1. /\ merged \in [Nodes -> [Slot -> Nat]] /\ localOps \in [Threads -> [Slot -> Nat]]
      /\ Slots \in Slot /\ \A t \in Threads : Node(t) \in Nodes
  BY SlotCount DEF TypeOK, Node, Nodes
<1>2. ASSUME NEW t \in Threads, Publish(t)
      PROVE  \A n \in Nodes :
               merged'[n][Slots] \in Nat /\ merged[n][Slots] <= merged'[n][Slots]
  <2>1. merged' = [merged EXCEPT ![Node(t)] =
                     [i \in Slot |-> merged[Node(t)][i] + localOps[t][i]]]
    BY <1>2 DEF Publish
  <2>2. /\ merged'[Node(t)][Slots] = merged[Node(t)][Slots] + localOps[t][Slots]
        /\ merged[Node(t)][Slots] \in Nat /\ localOps[t][Slots] \in Nat
    BY <1>1, <2>1
  <2>3. \A n \in Nodes \ {Node(t)} : merged'[n] = merged[n] /\ merged[n][Slots] \in Nat
    BY <1>1, <2>1
  <2>. QED
    BY <2>2, <2>3
<1>3. ASSUME NEW t \in Threads,
             Arrive(t) \/ Skip(t) \/ Work(t) \/ LeaveLoop(t) \/ Lock(t) \/ Load(t)
             \/ Store(t) \/ Unlock(t)
      PROVE  UNCHANGED merged
  BY <1>3 DEF Arrive, Skip, Work, LeaveLoop, Lock, Load, Store, Unlock
<1>4. Barrier \/ NextRun \/ LastRun \/ UNCHANGED vars => UNCHANGED merged
  BY DEF Barrier, NextRun, LastRun, JoinAll
<1>5. UNCHANGED merged \/ \E t \in Threads : Publish(t)
  BY <1>3, <1>4 DEF Next, Step, Over
<1>6. \A n \in Nodes : merged[n][Slots] \in Nat
  BY <1>1
<1>. QED
  BY <1>2, <1>5, <1>6

\* Only main appends a report, and what it appends is the sums of the moment.
LEMMA ReportStep ==
  ASSUME TypeOK, SumsInv, ReportInv, [Next]_vars
  PROVE  ReportInv'
<1>1. reported \in Seq(Nat \X Nat) /\ 0 \in Nodes /\ 1 \in Nodes
  BY DEF TypeOK, Nodes
<1>2. \A k \in DOMAIN reported : reported[k][1] \in Nat /\ reported[k][2] \in Nat
  BY <1>1
<1>3. /\ merged[0][Slots] \in Nat /\ merged'[0][Slots] \in Nat
      /\ merged[0][Slots] <= merged'[0][Slots]
      /\ merged[1][Slots] \in Nat /\ merged'[1][Slots] \in Nat
      /\ merged[1][Slots] <= merged'[1][Slots]
  BY <1>1, MergedGrows
<1>4. ASSUME JoinAll PROVE ReportInv'
  <2>1. /\ reported' = Append(reported, <<merged[0][Slots], merged[1][Slots]>>)
        /\ merged' = merged
    BY <1>4, JoinedSums
  <2>2. ASSUME NEW k \in DOMAIN reported'
        PROVE  /\ reported'[k][1] <= merged[0][Slots]
               /\ reported'[k][2] <= merged[1][Slots]
    <3>1. k \in DOMAIN reported \/ k = Len(reported) + 1
      BY <1>1, <2>1
    <3>2. CASE k \in DOMAIN reported
      <4>1. reported'[k] = reported[k]
        BY <1>1, <2>1, <3>2
      <4>. QED
        BY <3>2, <4>1 DEF ReportInv
    <3>3. CASE k = Len(reported) + 1
      <4>1. reported'[k] = <<merged[0][Slots], merged[1][Slots]>>
        BY <1>1, <2>1, <3>3
      <4>. QED
        BY <1>3, <4>1
    <3>. QED
      BY <3>1, <3>2, <3>3
  <2>. QED
    BY <2>1, <2>2 DEF ReportInv
<1>5. ASSUME UNCHANGED reported PROVE ReportInv'
  BY <1>2, <1>3, <1>5 DEF ReportInv
<1>6. ASSUME NEW t \in Threads, Step(t) PROVE UNCHANGED reported
  BY <1>6 DEF Step, Arrive, Skip, Work, LeaveLoop, Lock, Load, Store, Publish, Unlock, shared
<1>7. Barrier \/ UNCHANGED vars => UNCHANGED reported
  BY DEF Barrier, shared, vars
<1>. QED
  BY <1>4, <1>5, <1>6, <1>7 DEF Next, NextRun, LastRun, Over
-----------------------------------------------------------------------------
(* The theorems.                                                           *)

LEMMA InitInv ==
  ASSUME Init
  PROVE  IInv
<1>1. /\ Zeros \in [Slot -> Nat] /\ \A i \in Slot : Zeros[i] = 0
      /\ Slots \in Slot /\ Slots \in Nat \ {0}
  BY SlotCount DEF Zeros
<1>2. /\ ops \in [Threads -> InitOps] /\ base = ops /\ InitOps \subseteq Nat
      /\ NoThread \notin Threads /\ MaxTime \in Nat
  BY LogAssumption DEF Init
<1>3. TypeOK
  <2>1. /\ ops \in [Threads -> Nat] /\ base \in [Threads -> InitOps]
    BY <1>2
  <2>2. /\ clock \in [Threads -> 0 .. MaxTime] /\ index \in [Threads -> 1 .. Slots + 1]
    BY <1>1, <1>2 DEF Init
  <2>3. reported \in Seq(Nat \X Nat)
    BY DEF Init
  <2>. QED
    BY <1>1, <2>1, <2>2, <2>3 DEF TypeOK, Init, Pcs
<1>4. MutexInv
  BY <1>2 DEF MutexInv, Merging, Init
<1>5. IndexInv
  BY DEF IndexInv, Init
<1>6. SumsInv
  BY <1>1 DEF SumsInv, InLoop, Init, Nodes
<1>7. ClockInv /\ LogInBounds
  <2>1. 0 * Interval = 0
    BY LogAssumption
  <2>. QED
    BY <1>1, <2>1 DEF ClockInv, LogInBounds, Init
<1>8. CountInv
  <2>1. \A t \in Threads : base[t] \in Nat /\ base[t] = ops[t]
    BY <1>2
  <2>2. \A i \in Slot : ~ (i <= 0)
    BY <1>1 DEF Slot
  <2>. QED
    BY <1>1, <2>1, <2>2 DEF CountInv, LogIsCumulative, Init
<1>9. ReportInv
  BY DEF ReportInv, Init
<1>. QED
  BY <1>3, <1>4, <1>5, <1>6, <1>7, <1>8, <1>9 DEF IInv

LEMMA Invariance == Spec => []IInv
<1>1. Init => IInv
  BY InitInv
<1>2. IInv /\ [Next]_vars => IInv'
  BY TypeStep, MutexStep, IndexStep, SumsStep, BoundsStep, CountStep, ReportStep DEF IInv
<1>. QED
  BY <1>1, <1>2, PTL DEF Spec

\* The vectors keep their size and the counters stay numbers, in every run of
\* main_BST_test, whatever the uninitialised ops holds.
THEOREM TypeCorrect == Spec => []TypeOK
<1>1. IInv => TypeOK
  BY DEF IInv
<1>. QED
  BY <1>1, Invariance, PTL

\* globalLK makes the merge exact: with any number of threads, in any order,
\* globalOps0, globalOps1, ops0 and ops1 get every addition exactly once.
THEOREM MergeIsExact == Spec => []NothingLost
<1>1. ASSUME IInv PROVE NothingLost
  <2>1. \A t \in Threads : (pc[t] \in Merging) <=> (globalLK = t)
    BY <1>1 DEF IInv, MutexInv
  <2>2. ASSUME globalLK = NoThread
        PROVE  globalOps = merged /\ nodeOps = [n \in Nodes |-> merged[n][Slots]]
    <3>1. \A t \in Threads : pc[t] \notin InLoop
      BY <2>1, <2>2, LogAssumption DEF InLoop, Merging
    <3>2. \A n \in Nodes : globalOps[n] = merged[n] /\ nodeOps[n] = merged[n][Slots]
      BY <1>1, <3>1 DEF IInv, SumsInv
    <3>3. /\ globalOps \in [Nodes -> [Slot -> Nat]] /\ merged \in [Nodes -> [Slot -> Nat]]
          /\ nodeOps \in [Nodes -> Nat]
      BY <1>1 DEF IInv, TypeOK
    <3>. QED
      BY <3>2, <3>3
  <2>. QED
    BY <2>1, <2>2 DEF NothingLost
<1>. QED
  BY <1>1, Invariance, PTL

\* localOps[intervalIdx] is a slot of the vector, for every duration that is a
\* multiple of the interval and however late the clock is read.
THEOREM LogStaysInBounds == Spec => []LogInBounds
<1>1. IInv => LogInBounds
  BY DEF IInv
<1>. QED
  BY <1>1, Invariance, PTL

\* Every thread's localOps is a strictly increasing count of its operations up
\* to intervalIdx and 0 beyond.
THEOREM LogCountsUp == Spec => []LogIsCumulative
<1>1. IInv => LogIsCumulative
  BY DEF IInv, CountInv
<1>. QED
  BY <1>1, Invariance, PTL

\* What main_BST_test appends to num_ops0 and num_ops1 after joining the threads
\* is the sum over all threads of all runs so far, and never less than before.
THEOREM ReportsTotal == Spec => ReportsAreTotals
<1> DEFINE Good ==
       \A k \in DOMAIN reported' \ DOMAIN reported :
          /\ reported'[k] = <<merged[0][Slots], merged[1][Slots]>>
          /\ k > 1 => /\ reported[k - 1][1] <= reported'[k][1]
                      /\ reported[k - 1][2] <= reported'[k][2]
<1>1. ASSUME IInv, [Next]_vars PROVE Good
  <2>1. reported \in Seq(Nat \X Nat) /\ TypeOK /\ SumsInv /\ ReportInv
    BY <1>1 DEF IInv, TypeOK
  <2>2. CASE JoinAll
    <3>1. reported' = Append(reported, <<merged[0][Slots], merged[1][Slots]>>)
      BY <2>1, <2>2, JoinedSums
    <3>2. ASSUME NEW k \in DOMAIN reported' \ DOMAIN reported
          PROVE  /\ k = Len(reported) + 1
                 /\ reported'[k] = <<merged[0][Slots], merged[1][Slots]>>
      BY <2>1, <3>1, <3>2
    <3>3. ASSUME NEW k \in DOMAIN reported' \ DOMAIN reported, k > 1
          PROVE  /\ reported[k - 1][1] <= reported'[k][1]
                 /\ reported[k - 1][2] <= reported'[k][2]
      <4>1. k - 1 \in DOMAIN reported
        BY <2>1, <3>2, <3>3
      <4>2. /\ reported[k - 1][1] <= merged[0][Slots]
            /\ reported[k - 1][2] <= merged[1][Slots]
        BY <2>1, <4>1 DEF ReportInv
      <4>. QED
        BY <3>2, <4>2
    <3>. QED
      BY <3>2, <3>3
  <2>3. CASE UNCHANGED reported
    BY <2>3
  <2>4. ASSUME NEW t \in Threads, Step(t) PROVE UNCHANGED reported
    BY <2>4 DEF Step, Arrive, Skip, Work, LeaveLoop, Lock, Load, Store, Publish, Unlock, shared
  <2>5. Barrier \/ UNCHANGED vars => UNCHANGED reported
    BY DEF Barrier, shared, vars
  <2>. QED
    BY <1>1, <2>2, <2>3, <2>4, <2>5 DEF Next, NextRun, LastRun, Over
<1>2. IInv /\ [Next]_vars => [Good]_vars
  BY <1>1
<1>. QED
  BY <1>2, Invariance, PTL DEF Spec, ReportsAreTotals
=============================================================================
