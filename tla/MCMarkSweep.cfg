\* Four allocations with one reference slot each. The property is one of
\* steps, so that symmetry is sound for it.
CONSTANTS
    Objects = {o1, o2, o3, o4}
    Slots = {s1}
    Null = null
SPECIFICATION Spec
SYMMETRY HeapSymmetry
INVARIANTS
    MarkSweepInv
    NoDanglingReference
    SurvivorsReachable
PROPERTY CollectsAtomically
