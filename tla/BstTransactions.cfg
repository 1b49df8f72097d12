CONSTANTS
  Keys = {k1}
  NoKey = NoKey
  NoThread = NoThread
  NoJob = NoJob
  Threads0 = {t0}
  Threads1 = {t1}
  NumDS = 2
SPECIFICATION FairSpec
INVARIANTS ExclusiveAccess LockOrder NotStuck TransferLands
PROPERTIES Serializable Termination
