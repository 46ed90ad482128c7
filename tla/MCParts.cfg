SPECIFICATION PartsSpec
CONSTANTS
    \* CircularBuffer
    Byte = {va, vb, NL}
    NL = NL
    Junk = Junk
    InitCap = 4
    MaxCap = 6
    MaxLen = 2
    \* CachedList
    Value = {va, vb}
    NoValue = NoValue
    Node = {n1, n2, n3, n4}
    Front = Front
    \* HashTable
    HKey = {k1, k2, k3}
    NoHKey = NoHKey
    Hash <- MCHash
    Datum = {d1, d2, d3, d4}
    InitBuckets = 2
    Thresh = 3
    MaxBuckets = 8
    \* Config
    Text = {"port", "daemonize", "conf", "1"}
    Port = "port"
    Daemonize = "daemonize"
    Conf = "conf"
    One = "1"
    None = "NULL"
    Freed = "freed"
    Number <- MCNumber
    StackMax = 3
    MaxArgs = 3
    MaxEvents = 9
    \* Look
    LookFile <- MCLookFile
    LookName = {va, vb}
    LookNumber <- MCLookNumber
    NotANumber = NotANumber
    ULong = 8
    MaxFiles = 2
    MaxCriteria = 2
    \* model values
    k1 = k1
    k2 = k2
    k3 = k3
    d1 = d1
    d2 = d2
    d3 = d3
    d4 = d4
    n1 = n1
    n2 = n2
    n3 = n3
    n4 = n4
    va = va
    vb = vb
SYMMETRY Symmetry
CONSTRAINT MCBound
INVARIANT HaveLineExact
INVARIANT FoundByTurns
INVARIANT OptionsResolved
INVARIANT CrashHasCause
INVARIANT LooksAgree
PROPERTY ImplementsQueue
PROPERTY ImplementsSeqList
PROPERTY ImplementsTable
CHECK_DEADLOCK FALSE
