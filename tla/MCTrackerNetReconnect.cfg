SPECIFICATION Spec
CONSTANTS
    Key = {k1}
    NoKey = NoKey
    MaxSock = 2
    MaxSend = 0
    Thread = {t1}
    InitBuf = 2
INVARIANT NewConnectionPolled
CHECK_DEADLOCK FALSE
