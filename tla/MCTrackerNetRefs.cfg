SPECIFICATION Spec
CONSTANTS
    Key = {k1, k2}
    NoKey = NoKey
    MaxSock = 2
    MaxSend = 3
    Thread = {t1, t2}
    InitBuf = 2
SYMMETRY Symmetry
INVARIANT TypeOK
INVARIANT OneReader
INVARIANT RefsCounted
INVARIANT UseAfterFreeNeedsRace
INVARIANT NoLeak
INVARIANT PollSetCompact
INVARIANT PollBufferFits
INVARIANT ConnectionPolled
CHECK_DEADLOCK FALSE
