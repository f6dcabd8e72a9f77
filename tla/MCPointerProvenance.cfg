\* Straight-line programs that store and load one place under two names.
CONSTANTS
    Modules <- AliasPrograms
    Orders <- ProgramOrder
SPECIFICATION LoweringSpec
INVARIANT LoadsKeepProvenance
