CONSTANTS
  Keys = {1, 2, 3, 4}
  NoKey = NoKey
  Addr = {a1, a2, a3, a4, a5}
  Null = Null
  Freed = Freed
SPECIFICATION Spec
SYMMETRY AddrSymmetry
INVARIANTS SearchTree NoUseAfterDelete
PROPERTIES ImplementsAbstract LevelsAgree
