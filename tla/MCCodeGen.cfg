SPECIFICATION Spec
CONSTANTS
    MaxStatements = 4
    MaxWithArrays = 3
    MaxFrames = 7
    MaxIndexed = 1
    Features = {}
INVARIANTS
    TypeOK
    NothingAfterTerminator
    EveryBlockIsClosed
    InsertsIntoCurrBlock
    LabelsAreUnique
    RunsAsWrittenButOffItsEnd
    DeadCodeIsBehindReturningIf
