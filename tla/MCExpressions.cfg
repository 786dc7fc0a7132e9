\* Every program of MCPrograms.
CONSTANTS
    Programs <- MCPrograms
    AST <- MCAST
    MaxNesting = 20
SPECIFICATION Spec
INVARIANTS
    TypeOK
    RunsAsDocumented
    OperandsFit
