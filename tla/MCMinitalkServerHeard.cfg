SPECIFICATION FairSpec
CONSTANTS
    Conns = {c1, c2}
    Slots = 2
    NFds = 6
    NoOne = NoOne
PROPERTIES
    Heard
