SPECIFICATION FairSpec
CONSTANTS
    Entry = entry
    Blocks = {entry, a1, a2, a3, a4}
    a4 = a4
    Null = null
    CFGs <- MCCFGs
INVARIANTS
    TypeOK
    ReversePostOrder
    AssertsHold
    IdomClimbs
    IdomIsImmediateDominator
    FrontierIsDominanceFrontier
    DomTreeBelowIsDominated
PROPERTIES
    IdomOnlyRises
    EndsUnlessUnreachableIntoJoin
