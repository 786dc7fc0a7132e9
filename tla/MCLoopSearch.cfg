SPECIFICATION FairSpec
CONSTANTS
    Entry = entry
    Blocks = {entry, a1, a2, a3, a4}
    a4 = a4
    Null = null
    CFGs <- MCCFGs
INVARIANTS
    TypeOK
    SearchFindsComponents
    BaseExists
    FindsNaturalLoops
    InnerLoopIsInnermost
    ParentLoopIsNextAround
PROPERTIES
    Terminates
