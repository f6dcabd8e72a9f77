\* Fixed instructions around two stores, two loads and a join; every module
\* is analysed in its own order and in the reverse, some in a third one.
CONSTANTS
    Modules <- MCModules
    Orders <- MCOrders
SPECIFICATION LoweringSpec
INVARIANTS
    ReferencesTyped
    OrderIrrelevant
