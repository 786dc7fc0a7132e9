SPECIFICATION Spec
CONSTANTS
    MaxStatements = 3
    MaxWithArrays = 0
    MaxFrames = 5
    MaxIndexed = 0
    Features = {"bare body"}
INVARIANTS
    RunsAsWrittenButOffItsEnd
