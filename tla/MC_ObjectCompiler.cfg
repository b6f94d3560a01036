CONSTANTS
    Sources <- MCSources
    Optimised <- MCOptimised
    Machines = {"EVM", "EVM15"}
    Language = "StrictAssembly"
    ByteBase = 4
    MaxAddressBytes = 3
    NoObject = NoObject
    NoOutput = NoOutput
SPECIFICATION Spec
INVARIANTS TypeOK AddressesFit
 
