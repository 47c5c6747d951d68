SPECIFICATION Spec
CONSTANTS
    Block = 2
    Data <- MCPageData
    Offsets <- MCPageOffsets
    Sizes <- MCPageSizes
    MaxLength = 6
    ShortWrites = FALSE
INVARIANT
    ReadExact
