SPECIFICATION Spec
CONSTANTS
    MaxStatements = 2
    MaxWithArrays = 1
    MaxFrames = 4
    MaxIndexed = 1
    Features = {}
INVARIANTS
    RunsAsWritten
