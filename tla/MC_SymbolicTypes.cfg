CONSTANTS
    WordBits = 16
    AddressBits = 12
    InitialType <- MCInitialType
SPECIFICATION Spec
INVARIANTS
    TypeOK
    VariableWellSorted
    InitialisedValuesExact
