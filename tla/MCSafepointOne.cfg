\* The single mutator runManagedProgram starts, with fairness.
CONSTANTS
    Mutators = {m1}
    VM = vm
    MaxEpoch = 3
SPECIFICATION FairSpec
INVARIANT RootsCoverAllMutators
PROPERTIES
    ParkedMutatorResumes
    RequestServed
    ShutdownCompletes
