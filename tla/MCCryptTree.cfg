SPECIFICATION Spec
CONSTANTS
    Names <- MCNames
    Paths <- MCPaths
    Alphabet <- MCAlphabet
    Base64 <- MCBase64
    NameMax = 3
    Modes <- MCModes
    Files = {f1, f2}
    MaxFds = 2
SYMMETRY Symmetry
INVARIANTS
    NothingRefused
    Accounted
    DiesOfOpendir
PROPERTY
    IsTree
