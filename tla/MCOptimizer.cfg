SPECIFICATION OptimizerSpec
CONSTANTS
    Entry = entry
    b1 = b1
    b2 = b2
    b3 = b3
    b4 = b4
    b5 = b5
    b6 = b6
    Blocks = {entry, b1, b2, b3, b4, b5, b6}
    Null = null
    CFGs <- MCCFGs
    Locals = {"x", "y", "w"}
    Globals = {"g"}
    MaxBlocks = 14
    OptionsOf <- MCOptionsOf
    Functions <- MCFunctions
INVARIANTS
    TypeOK
    FindsLiveValues
    AssertHolds
    StacksFollowTheTree
    LeavesCompleteSSA
    LoopStandsOnBlock
    RunsAsGiven
    ListsFollowBranchesNotMerged
    OneBlockPerInstruction
    KeepsInstructions
    NothingInvariantIsLeft
    OperandsOfBlockStayAbove
PROPERTIES
    RunsLikeSource
    AnalysisEnds
CHECK_DEADLOCK FALSE
