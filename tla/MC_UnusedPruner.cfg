CONSTANTS
    N = 4
    MaxUses = 2
    InitialUnit <- MCInitialUnit
SPECIFICATION Spec
INVARIANTS
    TypeOK
    ReferencesExact
    NoDanglingReference
    SideEffectsKept
    NoOptimizerException
    StableIsFixpoint
    OnlyCyclesSurvive
PROPERTIES
    Terminates
