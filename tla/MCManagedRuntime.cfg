\* The program runManagedProgram starts: one mutator, a limit below what the heap holds.
CONSTANTS
    Mutators = {m1}
    VM = vm
    MaxEpoch = 2
    Objects = {o1, o2, o3}
    Slots = {s1}
    Null = null
    HeapLimit = 2
SPECIFICATION FairSpec
INVARIANT RuntimeInv
PROPERTIES
    ImplementsMarkSweep
    FullHeapIsSwept
    CollectionEnds
