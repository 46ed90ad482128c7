SPECIFICATION Spec
CONSTANTS
    s1 = s1
    l1 = l1
    Client = {s1, l1}
    Seeder = {s1}
    Config <- MCConfig
    PieceCount = 2
    PieceLen = 2
    MapBits = 1
    MaxParts = 2
    MaxAsk = 2
    MaxCrash = 1
INVARIANTS
    WrongPieceHasCause
    MarkedIsWritten
    PeerMapHonest
    SavedIsNotLost
    WaiterIsOwed
CHECK_DEADLOCK FALSE
