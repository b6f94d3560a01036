CONSTANTS
    Slots = {1, 2}
    Types = {"Operation", "Push", "Tag"}
    Instrs = {1}
    Data = {1, 257}
    Locs = {"L0", "L1"}
    JumpTypes = {"Ordinary", "IntoFunction"}
    NoLoc = "L0"
    NoInstr = NoInstr
    NoData = NoData
    Empty = Empty
SPECIFICATION Spec
INVARIANTS
    TypeOK
    OrderCompatibleWithEquality
PROPERTIES
    ValuesRefined
