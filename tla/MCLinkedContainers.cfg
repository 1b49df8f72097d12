CONSTANTS
  Data = {4, 5}
  Addr = {a1, a2, a3, a4}
  Null = Null
SPECIFICATION Spec
SYMMETRY Symmetry
INVARIANTS HeapPartitioned EndsAndCounts
PROPERTY ImplementsPromise
