CONSTANTS
    Funs <- MCFuns
    Hierarchy <- MCHierarchy
    Vars <- MCVars
    Ret <- MCRet
    InitialProgram <- MCInitialProgram

SPECIFICATION Spec

INVARIANTS
    TypeOK
    CodeWellScoped
    LoweringPreservesSemantics
    NoInternalError


    
