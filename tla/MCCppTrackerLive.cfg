SPECIFICATION FairSpec
CONSTANTS
    MaxConn = 2
    MaxSend = 2
    Request = {"announce", "update", "getbad", "empty"}
    MaxErr = 0
    MaxBatch = 10
PROPERTY LineIsRead
PROPERTY HangupDeletesPeer
CHECK_DEADLOCK FALSE
