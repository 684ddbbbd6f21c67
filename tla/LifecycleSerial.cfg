SPECIFICATION SerialSpec
CONSTANTS
    Keys = {k1}
    EmptyKey = emptyKey
    LookupKeys = {k1}
    Graphs = {g1, g2}
    NoGraph = noGraph
    Containers = {c1, c2, c3}
    NoContainer = noContainer
    Requests = {r1, r2}
    Ops <- AllOps
    Faults = TRUE
SYMMETRY Symmetry
INVARIANTS
    TypeOK
    Singleton
    DataIntact
PROPERTIES
    CreatedIsDeployed
    DeletedIsGone
    ReturnedUnchanged
