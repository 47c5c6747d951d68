SPECIFICATION Spec
CONSTANTS
    Block = 2
    Data <- MCData
    Offsets <- MCOffsets
    Sizes <- MCSizes
    MaxLength = 6
    ShortWrites = TRUE
INVARIANTS
    WrittenComesBack
    ShownSize
    ReadNearlyAll
