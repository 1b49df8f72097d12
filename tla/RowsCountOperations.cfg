CONSTANTS
  Threads0 = {t1}
  Threads1 = {t2}
  NoThread = NoThread
  NumThreads = 2
  Duration = 2
  Interval = 1
  RunFreq = 1
  InitOps = {0, 3}
  MaxOps = 2
  MaxTime = 3
SPECIFICATION Spec
INVARIANT RowsCountOperations
