CONSTANTS
  Threads0 = {t1, t2}
  Threads1 = {t3}
  NoThread = NoThread
  NoCall = NoCall
  NumThreads = 3
  NumDS = 1
  Prefill = 1
  MaxOps = 1
SPECIFICATION FairSpec
INVARIANTS NodesAccountedFor OpsAccountedFor
PROPERTY Termination
