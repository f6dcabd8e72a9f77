\* Two pages of two slots and one system block.
CONSTANTS
    Pages = {p1, p2}
    SlotsPerPage = 2
    ObjectBytes = 2
    Blocks = {b1}
    ArrayLengths = {0, 3}
    Nil = nil
SPECIFICATION FairSpec
INVARIANTS
    ActiveListExact
    PagesExact
    NonFullListExact
    OwnersAreLive
    SweepKeepsMarked
    UsageTracksPayloads
PROPERTY SweepEnds
