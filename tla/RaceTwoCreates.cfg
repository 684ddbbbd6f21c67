SPECIFICATION Spec
CONSTANTS
    Keys = {k1}
    EmptyKey = emptyKey
    LookupKeys = {k1}
    Graphs = {g1}
    NoGraph = noGraph
    Containers = {c1, c2, c3}
    NoContainer = noContainer
    Requests = {r1, r2}
    Ops <- WriteOps
    Faults = FALSE
INVARIANT Singleton
