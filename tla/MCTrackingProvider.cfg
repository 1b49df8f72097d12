SPECIFICATION Spec
CONSTANTS
    Null = Null
    Pools = {p1, p2}
    Threads = {t1, t2}
    Values = {v1, v2, v3}
    Memory = 2
    MaxSize = 2
SYMMETRY Symmetry
INVARIANTS TrackerIsExact QueriesAreRight ValuesOwned HandlesBalanced
CONSTRAINT NoFreedEntries
