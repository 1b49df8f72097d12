CONSTANTS
  Stack = Stack
  Node = Node
  Other = Other
  Classes = {Stack, Node, Other}
  Units = 2
  MaxDepth = 3
  Null = Null
  Programs <- AllPrograms
SPECIFICATION Spec
INVARIANTS UnitIsComplete LastUnitDecides
PROPERTY Termination
CHECK_DEADLOCK FALSE
