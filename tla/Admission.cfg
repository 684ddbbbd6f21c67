CONSTANTS
    Calls <- MCCalls
    NoTag = NoTag
    BadTag = BadTag
SPECIFICATION FairSpec
INVARIANT TypeOK
INVARIANT CycleVerdict
INVARIANT AdmittedIsDeployable
PROPERTY Decided
CHECK_DEADLOCK FALSE
