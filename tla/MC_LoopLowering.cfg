CONSTANTS
    MaxIter = 2
    MaxTrace = 40
    InitialProgram <- MCInitialProgram

SPECIFICATION Spec

INVARIANTS
    TypeOK
    ReturnIsFinal

PROPERTIES
    LoweringRefinesSolidity
    Terminates
