SPECIFICATION Spec
CONSTANTS
    MaxStatements = 2
    MaxWithArrays = 2
    MaxFrames = 4
    MaxIndexed = 1
    Features = {"indexed condition"}
INVARIANTS
    NothingAfterTerminator
