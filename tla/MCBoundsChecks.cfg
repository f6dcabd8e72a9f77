\* Arrays of up to three elements, indices of two and of four bits.
CONSTANTS
    NamedTypes <- MCNamedTypes
    Types <- MCTypes
    Nesting <- Depth
    MaxNesting = 5
    SizeOf <- NaturalSize
    OffsetOf <- NaturalOffset
    Cases <- MCCases
    MaxCount = 3
    NarrowBits = 2
    WideBits = 4
SPECIFICATION BoundsSpec
INVARIANTS
    CheckedAccessInPayload
    PointersAreScanned
    LengthOfArraysOnly
