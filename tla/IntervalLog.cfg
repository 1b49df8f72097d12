CONSTANTS
  Threads0 = {t1}
  Threads1 = {t2}
  NoThread = NoThread
  NumThreads = 2
  Duration = 2
  Interval = 1
  RunFreq = 2
  InitOps = {1}
  MaxOps = 3
  MaxTime = 2
SPECIFICATION FairSpec
INVARIANTS LogInBounds LogIsCumulative NothingLost
PROPERTIES ReportsAreTotals Termination
