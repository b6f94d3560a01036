CONSTANTS
    Funs = {1, 2, 3}
    Mods = {1}
    MaxDepth = 4
    InitialQuery <- MCInitialQuery
SPECIFICATION Spec
INVARIANTS
    TypeOK
    TouchedIsReachable
    PathRestored
    NoInternalError
    NoStackOverflow
