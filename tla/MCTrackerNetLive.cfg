SPECIFICATION FairSpec
CONSTANTS
    Key = {k1, k2}
    NoKey = NoKey
    MaxSock = 2
    MaxSend = 1
    Thread = {t1, t2}
    InitBuf = 2
PROPERTY HangupReaped
PROPERTY RequestStarted
PROPERTY RearmedIfPollReturns
CHECK_DEADLOCK FALSE
