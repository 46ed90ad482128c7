SPECIFICATION Spec
CONSTANTS
    c1 = c1
    c2 = c2
    a1 = a1
    a2 = a2
    a3 = a3
    Client = {c1, c2}
    Hash = {h1}
    Addr = {a1, a2, a3}
    AddrOf <- MCAddrOf
    NoAddr = NoAddr
    NoClient = NoClient
    NoHash = NoHash
    MaxFile = 2
    MaxReq = 2
INVARIANT ListedIsFound
INVARIANT GetfileComplete
INVARIANT DanglingIsLeftover
CHECK_DEADLOCK FALSE
