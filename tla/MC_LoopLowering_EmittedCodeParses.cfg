CONSTANTS
    MaxIter = 2
    MaxTrace = 40
    InitialProgram <- MCInitialProgram

SPECIFICATION Spec

INVARIANT
    EmittedCodeParses
