\* Two functions of at most one call.
CONSTANTS
    FunctionCount = 2
    MaxCalls = 1
    SectionBase = 100
SPECIFICATION Spec
INVARIANTS
    InvokedWithExactRecords
    AllOrNothing
