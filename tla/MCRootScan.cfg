\* Two functions of at most two calls; the scan walks two callers of four
\* frames.
CONSTANTS
    FunctionCount = 2
    MaxCalls = 2
    MaxFrames = 4
    MaxManagedFrameDepth = 2
    MaxStartFrameProbeDepth = 2
    MaxReturnAddressDistance = 40
SPECIFICATION FairSpec
INVARIANTS
    InferenceExact
    ScanPrecise
    RecordFound
PROPERTY SafepointReached
