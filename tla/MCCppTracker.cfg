SPECIFICATION Spec
CONSTANTS
    MaxConn = 3
    MaxSend = 3
    Request = {"announce", "half", "getfile"}
    MaxErr = 1
    MaxBatch = 10
CONSTRAINT MCBound
INVARIANT OutputArmed
INVARIANT EventCountExact
INVARIANT EventReachesOwner
INVARIANT RegisteredIsLive
INVARIANT UnregisteredIsDeleted
CHECK_DEADLOCK FALSE
