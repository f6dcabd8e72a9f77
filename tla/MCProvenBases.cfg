\* The claim of the documentation, on the instance of MCBoundsChecks.
CONSTANTS
    NamedTypes <- MCNamedTypes
    Types <- MCTypes
    Nesting <- Depth
    MaxNesting = 5
    SizeOf <- NaturalSize
    OffsetOf <- NaturalOffset
    Cases <- MCCases
    MaxCount = 3
    NarrowBits = 2
    WideBits = 4
SPECIFICATION BoundsSpec
INVARIANT ProvenBasesChecked
