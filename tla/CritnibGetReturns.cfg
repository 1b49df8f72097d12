CONSTANTS
  Slice = 1
  Width = 2
  DeletedLife = 1
  Keys = {0, 2, 3}
  ValuesOf <- Stored
  Queries <- AskedKey
  Null = Null
  Nodes = {n1, n2}
  Leaves = {l1, l2, l3}
  MaxRemoves = 3
SPECIFICATION FairSpec
PROPERTY GetReturns
CHECK_DEADLOCK FALSE
