\* Three mutators: the class as written, beyond the single mutator of runtime.cc.
CONSTANTS
    Mutators = {m1, m2, m3}
    VM = vm
    MaxEpoch = 2
SPECIFICATION Spec
SYMMETRY MutatorSymmetry
INVARIANTS
    SafepointInv
    WorldStopped
    NoSwallowedRequest
    NoStrandedPark
    RootsOfThisCycle
    RuntimeThreadsAlive
PROPERTY StopsTheWorld
