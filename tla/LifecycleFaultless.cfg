SPECIFICATION FairSerialSpec
CONSTANTS
    Keys = {k1, k2}
    EmptyKey = emptyKey
    LookupKeys = {k1, k2}
    Graphs = {g1}
    NoGraph = noGraph
    Containers = {c1, c2, c3, c4}
    NoContainer = noContainer
    Requests = {r1, r2}
    Ops <- WriteOps
    Faults = FALSE
PROPERTIES
    OnlyOwnDeployment
    WriterNeverFails
    CreateSucceeds
