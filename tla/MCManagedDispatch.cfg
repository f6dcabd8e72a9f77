\* Three functions of at most two calls.
CONSTANTS
    FunctionCount = 3
    MaxCalls = 2
    Arguments = {"object", "array", "null", "param"}
SPECIFICATION FairSpec
INVARIANTS
    ClonesKeepTheirKind
    KindsArriveUndiluted
PROPERTY SpecializationEnds
