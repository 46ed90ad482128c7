SPECIFICATION FairSpec
CONSTANTS
    Key = {k1}
    NoKey = NoKey
    MaxSock = 1
    MaxSend = 1
    Thread = {t1}
    InitBuf = 2
PROPERTY RearmedAfterSignal
CHECK_DEADLOCK FALSE
