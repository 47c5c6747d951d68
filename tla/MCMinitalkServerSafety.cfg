SPECIFICATION Spec
CONSTANTS
    Conns = {c1, c2, c3}
    Slots = 2
    NFds = 6
    NoOne = NoOne
SYMMETRY Symmetry
INVARIANTS
    PartnerLoggedIn
    OneWritePerRound
    AllSelected
PROPERTIES
    IsTalk
