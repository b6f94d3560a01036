CONSTANTS
    Funs = {1, 2}
    GlueSize = 2
    MaxBody = 20
    MaxStmts = 2
    CallSize = 3
    OtherSizes = {1, 45}
    InitialProgram <- MCUnsplitProgram

SPECIFICATION Spec

INVARIANT BehaviourPreserved
