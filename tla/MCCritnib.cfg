CONSTANTS
  Slice = 2
  Width = 4
  DeletedLife = 2
  Keys = {1, 4, 6, 7}
  ValuesOf <- Stored
  Queries <- Asked
  Null = Null
  Nodes = {n1, n2}
  Leaves = {l1, l2, l3}
  MaxRemoves = 3
SPECIFICATION Spec
SYMMETRY Addresses
INVARIANTS NothingLost TreeHoldsEntries GracePeriod
PROPERTY ImplementsIndex
CHECK_DEADLOCK FALSE
