SPECIFICATION Spec
CONSTANTS
    MaxConn = 1
    MaxSend = 2
    Request = {"announce", "look"}
    MaxErr = 5
    MaxBatch = 10
INVARIANT NoMoreEvent
CHECK_DEADLOCK FALSE
